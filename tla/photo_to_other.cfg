\* A page with two contacts, one of them made while it is open, and two requests at once.
CONSTANTS
  PageIds = {"a", "b"}
  AtFirst = {"a"}
  Flights = {1, 2}
  MaxPhoto = 1
SPECIFICATION PageSpec
INVARIANT PhotosGoWhereShown
