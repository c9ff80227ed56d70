----------------------------- MODULE ContactsPage -----------------------------
(***************************************************************************)
(* The contacts page (src/public/app.js) against the entity routes         *)
(* (src/src/server.js): what the user does becomes a request, whose answer *)
(* comes later, out of order or never, and goes on from there.             *)
(*                                                                         *)
(* The page keeps two things apart: currentId, the contact that was last   *)
(* asked for, and the form, built from the last answer. Of an entity only  *)
(* the photo is kept, as a number: what a save stores in the other fields  *)
(* matters here by the contact it goes to.                                 *)
(***************************************************************************)
EXTENDS Naturals

CONSTANTS
  PageIds,    \* entity ids
  AtFirst,    \* those there are when the page is opened
  Flights,    \* requests that can be under way at once
  MaxPhoto    \* bound: photos uploaded

NoId == "no id"

ASSUME PageAssumption == AtFirst \subseteq PageIds /\ NoId \notin PageIds /\ MaxPhoto \in Nat

VARIABLES
  photo,      \* photo[e]: attrs.photoFile on the server, 0 without one
  there,      \* entities that have been made
  tombstone,  \* those that have been merged away
  currentId,
  form,       \* of whom, and with which photo, the form was built
  flight,     \* flight[i]: request i, what it carries and how far it is
  uploads,    \* photos uploaded so far
  strayed     \* history: what the server did for another contact than the form showed

pageVars == <<photo, there, tombstone, currentId, form, flight, uploads, strayed>>

NoForm == [of |-> NoId, photo |-> 0]
Free == [op |-> "none", id |-> NoId, other |-> NoId, from |-> NoId, photo |-> 0, at |-> "page"]
Get(e) == [Free EXCEPT !.op = "get", !.id = e, !.at = "server"]

PageInit ==
  /\ photo = [e \in PageIds |-> 0] /\ there = AtFirst /\ tombstone = {}
  /\ currentId = NoId /\ form = NoForm
  /\ flight = [i \in Flights |-> Free] /\ uploads = 0 /\ strayed = {}

Unfolded(e) == e \in there \ tombstone   \* getLiveEntity

-----------------------------------------------------------------------------
Send(i, x) ==
  /\ flight[i].op = "none"
  /\ flight' = [flight EXCEPT ![i] = [x EXCEPT !.from = form.of, !.at = "server"]]
  /\ UNCHANGED <<photo, there, tombstone, form, strayed>>

\* selectContact up to its await: a row of the list is clicked.
SelectContact(i, e) ==
  /\ e \in there
  /\ Send(i, Get(e))
  /\ currentId' = e /\ UNCHANGED uploads

\* Definitions named Bad... are faults the code could have had in the definition that
\* follows; they serve to show that a property notices.
BadSaveTarget == currentId
SaveTarget == form.of
UploadTarget == currentId

\* doSave sends all the form was built with and what was changed.
SaveContact(i) ==
  /\ form.of # NoId
  /\ Send(i, [Free EXCEPT !.op = "save", !.id = SaveTarget, !.photo = form.photo])
  /\ UNCHANGED <<currentId, uploads>>

UploadPhoto(i) ==
  /\ form.of # NoId /\ uploads < MaxPhoto
  /\ uploads' = uploads + 1
  /\ Send(i, [Free EXCEPT !.op = "photo", !.id = UploadTarget, !.photo = uploads'])
  /\ UNCHANGED currentId

\* addAlias, removeAlias, removeRelation and the Add button of a relation.
TellOf(i) ==
  /\ form.of # NoId
  /\ Send(i, [Free EXCEPT !.op = "tell", !.id = form.of])
  /\ UNCHANGED <<currentId, uploads>>

MergePair(i, keep, absorb) ==
  /\ keep # absorb /\ {keep, absorb} \subseteq there
  /\ Send(i, [Free EXCEPT !.op = "merge", !.id = keep, !.other = absorb])
  /\ UNCHANGED <<currentId, uploads>>

NewContact(i) ==
  /\ Send(i, [Free EXCEPT !.op = "new"])
  /\ UNCHANGED <<currentId, uploads>>

-----------------------------------------------------------------------------
Back(i, x) == flight' = [flight EXCEPT ![i] = [x EXCEPT !.at = "back"]]
Land(x) == strayed' = IF x.id = x.from THEN strayed ELSE strayed \cup {x.op}
Sent(i, ops) == flight[i].at = "server" /\ flight[i].op \in ops
AtServer == UNCHANGED <<currentId, form, uploads>>

\* getEntityProfile finds merged entities as well.
ServeProfile(i) ==
  /\ Sent(i, {"get"})
  /\ Back(i, [flight[i] EXCEPT !.photo = photo[flight[i].id]])
  /\ AtServer /\ UNCHANGED <<photo, there, tombstone, strayed>>

\* updateEntityAttrs keeps its own photo, setEntityPhotoFile everything else.
BadPatched(e, sent) == sent   \* the photo the form was built with comes back
Patched(e, sent) == photo[e]
ServeEdit(i) ==
  LET x == flight[i] IN
  /\ Sent(i, {"save", "photo", "tell"}) /\ Unfolded(x.id)
  /\ photo' = [photo EXCEPT ![x.id] = IF x.op = "photo" THEN x.photo
                                     ELSE IF x.op = "save" THEN Patched(x.id, x.photo) ELSE @]
  /\ Back(i, x) /\ Land(x)
  /\ AtServer /\ UNCHANGED <<there, tombstone>>

ServeMerge(i) ==
  LET x == flight[i] IN
  /\ Sent(i, {"merge"}) /\ Unfolded(x.id) /\ Unfolded(x.other)
  /\ tombstone' = tombstone \cup {x.other}
  /\ Back(i, x)
  /\ AtServer /\ UNCHANGED <<photo, there, strayed>>

ServeNew(i) ==
  \E e \in PageIds \ there :
    /\ Sent(i, {"new"})
    /\ there' = there \cup {e}
    /\ Back(i, [flight[i] EXCEPT !.id = e])
    /\ AtServer /\ UNCHANGED <<photo, tombstone, strayed>>

\* An error, or no answer at all, is only told to the user.
Fails(i) ==
  /\ flight[i].op # "none"
  /\ flight' = [flight EXCEPT ![i] = Free]
  /\ AtServer /\ UNCHANGED <<photo, there, tombstone, strayed>>

-----------------------------------------------------------------------------
\* renderDetail with whatever profile comes back, whoever is current by now.
ShowProfile(i) ==
  LET x == flight[i] IN
  /\ x.at = "back" /\ x.op = "get"
  /\ form' = [of |-> x.id, photo |-> x.photo]
  /\ flight' = [flight EXCEPT ![i] = Free]
  /\ UNCHANGED <<photo, there, tombstone, currentId, uploads, strayed>>

\* The other answers end in selectContact: of the contact they were for, of the current
\* one after an upload, of the survivor if the absorbed one is current.
GoOn(i) ==
  LET x == flight[i]
      to == IF x.op = "photo" THEN currentId ELSE x.id
  IN  /\ x.at = "back" /\ x.op \notin {"none", "get"}
      /\ IF x.op = "merge" /\ currentId # x.other
         THEN flight' = [flight EXCEPT ![i] = Free] /\ UNCHANGED currentId
         ELSE flight' = [flight EXCEPT ![i] = Get(to)] /\ currentId' = to
      /\ UNCHANGED <<photo, there, tombstone, form, uploads, strayed>>

PageNext ==
  \E i \in Flights :
    \/ \E e \in PageIds : SelectContact(i, e)
    \/ SaveContact(i) \/ UploadPhoto(i) \/ TellOf(i) \/ NewContact(i)
    \/ \E keep, absorb \in PageIds : MergePair(i, keep, absorb)
    \/ ServeProfile(i) \/ ServeEdit(i) \/ ServeMerge(i) \/ ServeNew(i) \/ Fails(i)
    \/ ShowProfile(i) \/ GoOn(i)
PageSpec == PageInit /\ [][PageNext]_pageVars

-----------------------------------------------------------------------------
PageTypeOK ==
  LET someone == PageIds \cup {NoId}
  IN  /\ photo \in [PageIds -> 0..MaxPhoto] /\ there \subseteq PageIds /\ tombstone \subseteq there
      /\ currentId \in someone /\ form \in [of : someone, photo : 0..MaxPhoto] /\ uploads \in 0..MaxPhoto
      /\ flight \in [Flights -> [op : {"none", "get", "save", "photo", "tell", "merge", "new"},
                                 id : someone, other : someone, from : someone, photo : 0..MaxPhoto,
                                 at : {"page", "server", "back"}]]

\* What the user typed into the form of a contact, or told of it, is stored with that
\* contact, however answers and clicks overtake each other (saveContact, addAlias,
\* removeAlias, addRelation, removeRelation).
EditsGoWhereShown == strayed \subseteq {"photo"}

\* An uploaded photo becomes that of the contact whose form is shown (uploadPhoto).
PhotosGoWhereShown == "photo" \notin strayed

\* A contact's photo changes only by an upload that arrives for it: a save from a form
\* built before the upload does not take it back (updateEntityAttrs, setEntityPhotoFile).
SaveKeepsPhoto ==
  [][\A e \in PageIds : photo'[e] # photo[e] =>
       \E i \in Flights : flight[i].op = "photo" /\ flight[i].id = e /\ photo'[e] = flight[i].photo]_pageVars
=============================================================================
