------------------------------ MODULE TopicForm ------------------------------
(***************************************************************************)
(* The photos of a topic: the form in which TI collects them (dashboard/src/  *)
(* components/report/TopicForm.jsx), whose uploads answer in any order, and   *)
(* what PUT /topics/:id and updateTopic make of its list.                    *)
(*                                                                         *)
(* An entry of the list has an id, and the id is all that an answer knows of   *)
(* the entry it belongs to.  A photo of the database has its URL for id, a     *)
(* pasted one a random id; one of the file dialog gets what                  *)
(* Array.forEach(uploadFile) passes as second argument: its position.         *)
(***************************************************************************)
EXTENDS Naturals

CONSTANTS Photo,
          MaxUploads  \* bound: uploads begun

NoUrl == "none"

VARIABLES
  saved,   \* photo_path of the topic
  open,    \* the form is open
  entries, \* photos: id, photo that the preview shows, url and state
  uploads, \* POST /photos under way: id of the entry, photo
  begun

vars == <<saved, open, entries, uploads, begun>>

Entry == [id : Nat \cup Photo, shows : Photo, url : Photo \cup {NoUrl},
          state : {"uploading", "there", "failed"}]

TypeOK ==
  /\ saved \subseteq Photo /\ open \in BOOLEAN /\ entries \subseteq Entry
  /\ uploads \subseteq [id : Nat, photo : Photo] /\ begun \in 0..MaxUploads

Init ==
  /\ saved \in SUBSET Photo
  /\ open = FALSE /\ entries = {} /\ uploads = {} /\ begun = 0

(* A component of its own every time: what the last one was told is lost.     *)
OpenForm ==
  /\ ~open /\ open' = TRUE
  /\ entries' = {[id |-> p, shows |-> p, url |-> p, state |-> "there"] : p \in saved}
  /\ uploads' = {}
  /\ UNCHANGED <<saved, begun>>

(* setPhotos(prev => prev.map(p => p.id === id ? ... : p))                     *)
Addressed(u, e) == e.id = u.id

Entries(u, Set(_)) == {IF Addressed(u, e) THEN Set(e) ELSE e : e \in entries}

(* uploadFile: with an id that is true in JavaScript it is a retry of an entry, *)
(* with 0 or none a new entry.                                               *)
Shown(u, retry) ==
  IF retry /\ u.id # 0
    THEN Entries(u, LAMBDA e : [e EXCEPT !.state = "uploading"])
    ELSE entries \cup {[id |-> u.id, shows |-> u.photo, url |-> NoUrl, state |-> "uploading"]}

UploadFile(u, retry) ==
  /\ open /\ begun < MaxUploads /\ begun' = begun + 1
  /\ entries' = Shown(u, retry)
  /\ uploads' = uploads \cup {u}
  /\ UNCHANGED <<saved, open>>

Choose1(photo) == UploadFile([id |-> 0, photo |-> photo], TRUE)

(* Two files: the second one has a position that is taken for a retry.        *)
Choose2(first, second) ==
  /\ open /\ begun + 2 <= MaxUploads /\ begun' = begun + 2
  /\ entries' = Shown([id |-> 0, photo |-> first], TRUE)
  /\ uploads' = uploads \cup {[id |-> 0, photo |-> first], [id |-> 1, photo |-> second]}
  /\ UNCHANGED <<saved, open>>

(* handlePaste; ids that are used nowhere else begin at 2.                     *)
Paste(photo) == UploadFile([id |-> begun + 2, photo |-> photo], FALSE)

Retry(e) ==
  /\ e \in entries /\ e.state = "failed"
  /\ UploadFile([id |-> e.id, photo |-> e.shows], TRUE)

Answered(u, Set(_)) == entries' = Entries(u, Set) /\ uploads' = uploads \ {u}

UploadDone(u) ==
  /\ u \in uploads
  /\ Answered(u, LAMBDA e : [e EXCEPT !.url = u.photo, !.state = "there"])
  /\ UNCHANGED <<saved, open, begun>>

UploadFails(u) ==
  /\ u \in uploads
  /\ Answered(u, LAMBDA e : [e EXCEPT !.state = "failed"])
  /\ UNCHANGED <<saved, open, begun>>

RemovePhoto(id) ==
  /\ open /\ \E e \in entries : e.id = id
  /\ entries' = {e \in entries : e.id # id}
  /\ UNCHANGED <<saved, open, uploads, begun>>

(* updateTopic: an undefined photo_path leaves the column alone.              *)
UpdateTopic(urls) == saved' = IF urls = {} THEN saved ELSE urls

(* handleSubmit: not while something uploads, and with a confirmation if       *)
(* something failed; an empty list is sent as undefined.                      *)
Submit ==
  /\ open /\ \A e \in entries : e.state # "uploading"
  /\ UpdateTopic({e.url : e \in entries} \ {NoUrl})
  /\ open' = FALSE /\ entries' = {}
  /\ UNCHANGED <<uploads, begun>>

Cancel ==
  /\ open /\ open' = FALSE /\ entries' = {}
  /\ UNCHANGED <<saved, uploads, begun>>

Next ==
  \/ OpenForm \/ Submit \/ Cancel
  \/ \E p, q \in Photo : Choose1(p) \/ (p # q /\ Choose2(p, q)) \/ Paste(p)
  \/ \E e \in entries : Retry(e) \/ RemovePhoto(e.id)
  \/ \E u \in uploads : UploadDone(u) \/ UploadFails(u)

Spec == Init /\ [][Next]_vars

-----------------------------------------------------------------------------

(* uploadFile "adiciona (ou atualiza) no array de fotos" (TopicForm.jsx:31):   *)
(* a photo that the form shows as uploaded is saved with the topic.           *)
ShownIsSaved ==
  [][saved' # saved => \A e \in entries : e.state = "there" => e.shows \in saved']_vars
=============================================================================
