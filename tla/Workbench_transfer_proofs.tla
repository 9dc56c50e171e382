----------------------- MODULE Workbench_transfer_proofs -----------------------
(***************************************************************************)
(* The data transfer screen: sharing a draft, deciding on requests, and    *)
(* sending to several nodes; and the screen of the data sources, which     *)
(* follows a store in the same way.  Each part has an inductive invariant  *)
(* about what the screen holds, what its handlers carry and what the       *)
(* service has done, with one lemma per group of actions.  Answers,        *)
(* snapshots and gestures may come in any order, so the invariants say     *)
(* what every one of them may still bring.                                 *)
(***************************************************************************)
EXTENDS Workbench_proofs, Sequences, FiniteSetTheorems

----------------------------------------------------------------------------
(* Sharing. *)

Snap == [shares : SUBSET Sharing!ShareIds, favorites : SUBSET Friends]
Desk == [snap : Snap, section : {"dashboard", "nodes"}, busy : {"", "sharing", "other"},
         files : SUBSET Files, step : {1, 2}, scope : Sharing!Scopes, password : BOOLEAN,
         targets : SUBSET Friends]
ShareOps == {"files", "publish", "remove", "favorite", "unfavorite", "registration"}
CallForm == [op : ShareOps, files : SUBSET Files, draft : Nat, id : Sharing!ShareIds \cup {0},
             node : Friends \cup {0}, stage : {"sent", "done", "refused"}, snap : Snap]
ShareCall == {c \in CallForm : c.op \in {"favorite", "unfavorite"} => c.node \in Friends}
Known == {m.id : m \in made}
Publications == {c \in shareCalls : c.op = "publish"}

ShareTypes ==
  /\ desk \in Desk /\ shareCalls \subseteq ShareCall /\ sharePoll \subseteq Snap
  /\ made \subseteq [id : Sharing!ShareIds, draft : Nat] /\ IsFiniteSet(made)
  /\ draft \in Nat /\ mixed \in BOOLEAN /\ favorites \subseteq Friends
  /\ DOMAIN shares \subseteq Known /\ desk.snap.shares \subseteq Known
  /\ \A s \in sharePoll : s.shares \subseteq Known
  /\ \A c \in shareCalls : c.snap.shares \subseteq Known
  /\ desk.files = {} => desk.step = 1 /\ desk.scope = "all" /\ ~desk.password /\ desk.targets = {}

OneDraft ==
  ~mixed =>
    /\ taken \subseteq desk.files
    /\ \A m, o \in made : m.draft = o.draft => m = o
    /\ \A m \in made : m.draft <= draft
    /\ \A m \in made : m.draft = draft => \E c \in Publications : c.draft = draft /\ c.stage = "done"
    /\ \A c \in Publications :
         /\ desk.busy = "sharing" /\ desk.files \subseteq c.files /\ c.draft <= draft
         /\ \A o \in Publications : o = c
         /\ c.stage # "done" => \A m \in made : m.draft # c.draft

ShareInv == ShareTypes /\ OneDraft

\* What emptying and showing a draft does to the desk.
LEMMA ClearedDesk ==
  ASSUME NEW d \in Desk
  PROVE  /\ Sharing!Cleared(d) \in Desk
         /\ Sharing!Cleared(d).snap = d.snap /\ Sharing!Cleared(d).busy = d.busy
         /\ Sharing!Cleared(d).files = {} /\ Sharing!Cleared(d).step = 1
         /\ Sharing!Cleared(d).scope = "all" /\ ~Sharing!Cleared(d).password
         /\ Sharing!Cleared(d).targets = {}
BY DEF Desk, Sharing!Cleared, Sharing!Scopes

\* What showing a snapshot does to the desk.
LEMMA RenderedDesk ==
  ASSUME NEW d \in Desk
  PROVE  /\ Sharing!Rendered(d) \in Desk
         /\ Sharing!Rendered(d).snap = d.snap /\ Sharing!Rendered(d).busy = d.busy
         /\ Sharing!Rendered(d).files = d.files
         /\ Sharing!Rendered(d).files = {} =>
              /\ Sharing!Rendered(d).step = 1 /\ Sharing!Rendered(d).scope = "all"
              /\ ~Sharing!Rendered(d).password /\ Sharing!Rendered(d).targets = {}
BY ClearedDesk DEF Sharing!Rendered

\* The screen opens with an empty draft.
LEMMA ShareInit == Sharing!Init => ShareInv
<1> SUFFICES ASSUME Sharing!Init PROVE ShareInv
  OBVIOUS
<1> USE DEF Sharing!Init
<1>1. desk \in Desk /\ desk.snap.shares = {}
  BY DEF Desk, Snap, Sharing!Scopes
<1>2. DOMAIN shares = {}
  OBVIOUS
<1>3. IsFiniteSet(made)
  BY FS_EmptySet
<1>4. ShareTypes
  BY <1>1, <1>2, <1>3 DEF ShareTypes
<1> QED
  BY <1>1, <1>4 DEF ShareInv, OneDraft, Publications

\* A gesture in the draft that adds no file.
LEMMA EditsDraft ==
  ASSUME ShareInv, NEW d \in Desk, d.snap = desk.snap, d.busy = desk.busy,
         d.files \subseteq desk.files,
         desk' = Sharing!Rendered(d), ~mixed => taken' \subseteq d.files,
         draft' \in Nat, draft' >= draft,
         UNCHANGED <<shares, favorites, sharePoll, shareCalls, made, mixed>>
  PROVE  ShareInv'
<1>1. /\ desk' \in Desk /\ desk'.snap = desk.snap /\ desk'.busy = desk.busy
      /\ desk'.files = d.files
      /\ desk'.files = {} =>
            desk'.step = 1 /\ desk'.scope = "all" /\ ~desk'.password /\ desk'.targets = {}
  BY RenderedDesk
<1>2. ShareTypes'
  BY <1>1 DEF ShareInv, ShareTypes, Known
<1>3. OneDraft'
  <2> SUFFICES ASSUME ~mixed' PROVE OneDraft'
    BY DEF OneDraft
  <2>1. /\ \A m \in made : m.draft \in Nat
        /\ \A c \in Publications : c.draft \in Nat
    BY DEF ShareInv, ShareTypes, Publications, ShareCall, CallForm
  <2>2. draft \in Nat /\ (draft' # draft => \A m \in made : m.draft # draft')
    BY <2>1 DEF ShareInv, ShareTypes, OneDraft
  <2>3. Publications' = Publications
    BY DEF Publications
  <2> QED
    BY <1>1, <2>1, <2>2, <2>3 DEF ShareInv, OneDraft
<1> QED
  BY <1>2, <1>3 DEF ShareInv

\* The poll brings a snapshot, old or new.
LEMMA SharePolls ==
  ASSUME ShareInv, Sharing!ServeSharePoll \/ Sharing!SharePollAnswer
  PROVE  ShareInv'
<1>1. CASE Sharing!ServeSharePoll
  <2>1. Sharing!Current \in Snap /\ Sharing!Current.shares \subseteq Known
    BY DEF ShareInv, ShareTypes, Sharing!Current, Snap, Known
  <2> QED
    BY <1>1, <2>1 DEF Sharing!ServeSharePoll, ShareInv, ShareTypes, OneDraft, Publications, Known
<1>2. CASE Sharing!SharePollAnswer
  <2> DEFINE Shown(d) ==
        /\ d \in Desk /\ d.snap.shares \subseteq Known
        /\ d.files = desk.files /\ d.busy = desk.busy /\ d.step = desk.step
        /\ d.scope = desk.scope /\ d.password = desk.password /\ d.targets = desk.targets
  <2>1. Shown(desk)
    BY DEF ShareInv, ShareTypes
  <2>2. \A s \in sharePoll : Shown([desk EXCEPT !.snap = s])
    BY DEF ShareInv, ShareTypes, Desk
  <2>3. Shown(desk')
    <3> HIDE DEF Shown
    <3> QED
      BY <1>2, <2>1, <2>2 DEF Sharing!SharePollAnswer
  <2> QED
    BY <1>2, <2>3 DEF Sharing!SharePollAnswer, ShareInv, ShareTypes, OneDraft, Publications, Known
<1> QED
  BY <1>1, <1>2

\* The gestures in the draft.
LEMMA ShareEdits ==
  ASSUME ShareInv,
         \/ \E section \in {"dashboard", "nodes"} : Sharing!ShowSection(section)
         \/ Sharing!clearShareDraft \/ Sharing!goToSharePermissionStep \/ Sharing!BackToFiles
         \/ Sharing!TypePassword
         \/ \E f \in Files : Sharing!removeSelectedShareFile(f)
         \/ \E scope \in Sharing!Scopes : Sharing!ChooseScope(scope)
         \/ \E n \in Friends : Sharing!toggleShareTargetFingerprint(n)
  PROVE  ShareInv'
<1> USE DEF Sharing!Gesture, Sharing!Edit
<1>0. /\ desk \in Desk /\ draft \in Nat
      /\ UNCHANGED <<shares, favorites, sharePoll, shareCalls, made, mixed>>
  BY DEF ShareInv, ShareTypes, Sharing!ShowSection, Sharing!clearShareDraft,
    Sharing!goToSharePermissionStep, Sharing!BackToFiles, Sharing!TypePassword,
    Sharing!removeSelectedShareFile, Sharing!ChooseScope, Sharing!toggleShareTargetFingerprint
<1>1. ~mixed => taken \subseteq desk.files
  BY DEF ShareInv, OneDraft
<1>2. ASSUME NEW d \in Desk, d.snap = desk.snap, d.busy = desk.busy, d.files = desk.files,
             Sharing!Edit(d)
      PROVE  ShareInv'
  BY <1>0, <1>1, <1>2, EditsDraft
<1>3. ASSUME NEW section \in {"dashboard", "nodes"}, Sharing!ShowSection(section)
      PROVE  ShareInv'
  <2>1. [desk EXCEPT !.section = section] \in Desk
    BY <1>0 DEF Desk
  <2> QED
    BY <1>0, <1>2, <1>3, <2>1 DEF Sharing!ShowSection, Desk
<1>4. CASE Sharing!goToSharePermissionStep \/ Sharing!BackToFiles
  <2>1. [desk EXCEPT !.step = 1] \in Desk /\ [desk EXCEPT !.step = 2] \in Desk
    BY <1>0 DEF Desk
  <2> QED
    BY <1>0, <1>2, <1>4, <2>1 DEF Sharing!goToSharePermissionStep, Sharing!BackToFiles, Desk
<1>5. ASSUME NEW scope \in Sharing!Scopes, Sharing!ChooseScope(scope)
      PROVE  ShareInv'
  <2>1. [desk EXCEPT !.scope = scope] \in Desk
    BY <1>0 DEF Desk
  <2> QED
    BY <1>0, <1>2, <1>5, <2>1 DEF Sharing!ChooseScope, Desk
<1>6. CASE Sharing!TypePassword
  <2>1. [desk EXCEPT !.password = ~@] \in Desk
    BY <1>0 DEF Desk
  <2> QED
    BY <1>0, <1>2, <1>6, <2>1 DEF Sharing!TypePassword, Desk
<1>7. ASSUME NEW n \in Friends, Sharing!toggleShareTargetFingerprint(n)
      PROVE  ShareInv'
  <2>1. [desk EXCEPT !.targets = IF n \in @ THEN @ \ {n} ELSE @ \cup {n}] \in Desk
    BY <1>0 DEF Desk
  <2> QED
    BY <1>0, <1>2, <1>7, <2>1 DEF Sharing!toggleShareTargetFingerprint, Desk
<1>8. ASSUME NEW f \in Files, Sharing!removeSelectedShareFile(f)
      PROVE  ShareInv'
  <2>1. /\ [desk EXCEPT !.files = @ \ {f}] \in Desk
        /\ [desk EXCEPT !.files = @ \ {f}].files = desk.files \ {f}
        /\ [desk EXCEPT !.files = @ \ {f}].snap = desk.snap
        /\ [desk EXCEPT !.files = @ \ {f}].busy = desk.busy
    BY <1>0 DEF Desk
  <2>2. taken' = taken \ {f} /\ draft' \in Nat /\ draft' >= draft
    BY <1>0, <1>8 DEF Sharing!removeSelectedShareFile
  <2> QED
    BY <1>0, <1>1, <1>8, <2>1, <2>2, EditsDraft DEF Sharing!removeSelectedShareFile
<1>9. CASE Sharing!clearShareDraft
  <2>1. taken' = {} /\ draft' \in Nat /\ draft' >= draft
    BY <1>0, <1>9 DEF Sharing!clearShareDraft
  <2> QED
    BY <1>0, <1>9, <2>1, EditsDraft, ClearedDesk DEF Sharing!clearShareDraft
<1> QED
  BY <1>3, <1>4, <1>5, <1>6, <1>7, <1>8, <1>9

\* A handler is started.
LEMMA ShareSends ==
  ASSUME ShareInv,
         \/ Sharing!handleChooseShareFiles \/ Sharing!handlePublishShare
         \/ Sharing!handleToggleRegistration
         \/ \E n \in Friends : Sharing!handleToggleFavoriteEntry(n)
         \/ \E id \in Sharing!ShareIds : Sharing!handleRemovePublishedShare(id)
  PROVE  ShareInv'
<1>0. /\ desk \in Desk /\ draft \in Nat /\ mixed \in BOOLEAN
      /\ \A op \in ShareOps : /\ Sharing!Request(op) \in CallForm /\ Sharing!Request(op).op = op
                             /\ Sharing!Request(op).snap.shares = {}
                             /\ Sharing!Request(op).stage = "sent"
  BY DEF ShareInv, ShareTypes, Sharing!Request, CallForm, Snap
\* any other handler than a publication
<1>1. ASSUME NEW c \in ShareCall, c.op # "publish", c.snap.shares = {}, shareCalls' = shareCalls \cup {c},
             NEW said \in {"sharing", "other"}, desk' \in {desk, [desk EXCEPT !.busy = said]},
             mixed' \in BOOLEAN, ~mixed' => ~mixed /\ (Publications = {} \/ desk' = desk),
             UNCHANGED <<shares, favorites, sharePoll, made, draft, taken>>
      PROVE  ShareInv'
  <2>1. /\ desk' \in Desk /\ desk'.snap = desk.snap /\ desk'.files = desk.files
        /\ desk'.step = desk.step /\ desk'.scope = desk.scope /\ desk'.password = desk.password
        /\ desk'.targets = desk.targets
    BY <1>0, <1>1 DEF Desk
  <2>3. ShareTypes'
    BY <1>1, <2>1 DEF ShareInv, ShareTypes, Known
  <2>4. Publications' = Publications
    BY <1>1 DEF Publications
  <2>6. OneDraft'
    BY <1>1, <2>1, <2>4 DEF ShareInv, OneDraft
  <2> QED
    BY <2>3, <2>6 DEF ShareInv
<1>2. CASE Sharing!handleChooseShareFiles
  <2>1. Sharing!Request("files") \in ShareCall /\ Sharing!Request("files").op # "publish"
        /\ Sharing!Request("files").snap.shares = {}
    BY <1>0 DEF ShareOps, ShareCall
  <2> QED
    BY <1>0, <1>1, <1>2, <2>1 DEF ShareInv, OneDraft, Sharing!handleChooseShareFiles
\* withBusy
<1>3. ASSUME NEW c \in ShareCall, c.op # "publish", c.snap.shares = {},
             NEW said \in {"sharing", "other"}, Sharing!Send(c, said),
             said = "sharing" => desk.busy # "sharing"
      PROVE  ShareInv'
  <2>1. mixed' \in BOOLEAN /\ (~mixed' => ~mixed /\ Publications = {})
    <3>1. mixed' = (mixed \/ (said = "other" /\ Sharing!Publishing(shareCalls)))
      BY <1>3 DEF Sharing!Send
    <3>2. Sharing!Publishing(shareCalls) <=> Publications # {}
      BY DEF Sharing!Publishing, Publications
    <3>3. ~mixed /\ said = "sharing" => Publications = {}
      BY <1>3 DEF ShareInv, OneDraft
    <3>4. mixed' \in BOOLEAN /\ (mixed' <=> (mixed \/ (said = "other" /\ Publications # {})))
      BY <1>0, <3>1, <3>2, Zenon
    <3> QED
      BY <1>3, <3>3, <3>4
  <2> QED
    BY <1>1, <1>3, <2>1 DEF Sharing!Send
<1>4. CASE Sharing!handleToggleRegistration
  BY <1>0, <1>3, <1>4 DEF Sharing!handleToggleRegistration, ShareOps, ShareCall
<1>5. ASSUME NEW n \in Friends, Sharing!handleToggleFavoriteEntry(n)
      PROVE  ShareInv'
  <2> DEFINE c(op) == [Sharing!Request(op) EXCEPT !.node = n]
  <2>1. ASSUME NEW op \in {"unfavorite", "favorite"}
        PROVE  c(op) \in ShareCall /\ c(op).op # "publish" /\ c(op).snap.shares = {}
    BY <1>0 DEF ShareOps, ShareCall, CallForm
  <2>2. \E op \in {"unfavorite", "favorite"} : Sharing!Send(c(op), "other")
    BY <1>5 DEF Sharing!handleToggleFavoriteEntry
  <2> HIDE DEF c
  <2> QED
    BY <1>3, <2>1, <2>2
<1>6. ASSUME NEW id \in Sharing!ShareIds, Sharing!handleRemovePublishedShare(id)
      PROVE  ShareInv'
  <2> DEFINE c == [Sharing!Request("remove") EXCEPT !.id = id]
  <2>1. c \in ShareCall /\ c.op # "publish" /\ c.snap.shares = {}
    BY <1>0 DEF ShareOps, ShareCall, CallForm
  <2>2. Sharing!Send(c, "sharing") /\ desk.busy # "sharing"
    BY <1>6 DEF Sharing!handleRemovePublishedShare, Sharing!isShareBusy
  <2> HIDE DEF c
  <2> QED
    BY <1>3, <2>1, <2>2
<1>7. CASE Sharing!handlePublishShare
  <2> DEFINE c == [Sharing!Request("publish") EXCEPT !.files = desk.files, !.draft = draft]
  <2>1. /\ c \in ShareCall /\ c.op = "publish" /\ c.snap.shares = {} /\ c.stage = "sent"
        /\ c.files = desk.files /\ c.draft = draft
    BY <1>0 DEF ShareOps, ShareCall, CallForm, Desk
  <2>2. Sharing!Send(c, "sharing") /\ desk.busy # "sharing" /\ desk.files # {}
    BY <1>7 DEF Sharing!handlePublishShare, Sharing!Publishable, Sharing!isShareBusy,
      Sharing!ModalShown
  <2> HIDE DEF c
  <2>3. /\ desk' \in Desk /\ desk'.snap = desk.snap /\ desk'.files = desk.files
        /\ desk'.busy = "sharing"
    BY <1>0, <2>2 DEF Sharing!Send, Desk
  <2>4. ShareTypes'
    BY <2>1, <2>2, <2>3 DEF Sharing!Send, ShareInv, ShareTypes, Known
  <2>5. Publications' = Publications \cup {c} /\ mixed' = mixed
    BY <1>0, <2>1, <2>2 DEF Sharing!Send, Publications
  <2>6. ~mixed => Publications = {}
    BY <2>2 DEF ShareInv, OneDraft
  <2>7. OneDraft'
    BY <1>0, <2>1, <2>2, <2>3, <2>5, <2>6 DEF Sharing!Send, ShareInv, OneDraft
  <2> QED
    BY <2>4, <2>7 DEF ShareInv
<1> QED
  BY <1>2, <1>4, <1>5, <1>6, <1>7

\* The screens count with the one Cardinality.
LEMMA SameCardinality == \A S : Sharing!Cardinality(S) = Cardinality(S)
BY DEF Sharing!Cardinality, Cardinality

\* The service executes a request or refuses it.
LEMMA ShareServes ==
  ASSUME ShareInv, NEW c \in shareCalls, Sharing!Serve(c)
  PROVE  ShareInv'
<1>0. /\ c \in ShareCall /\ c.stage = "sent" /\ c.op # "files" /\ IsFiniteSet(made) /\ c.draft \in Nat
      /\ made \subseteq [id : Sharing!ShareIds, draft : Nat]
      /\ UNCHANGED <<desk, sharePoll, draft, taken, mixed>>
  BY DEF ShareInv, ShareTypes, Sharing!Serve, ShareCall, CallForm
\* a call that has come back takes the place of the one that was sent
<1>1. ASSUME NEW b \in ShareCall, b.op = c.op, b.files = c.files, b.draft = c.draft,
             b.snap.shares \subseteq Known', shareCalls' = (shareCalls \ {c}) \cup {b},
             Known \subseteq Known', DOMAIN shares' \subseteq Known', favorites' \subseteq Friends,
             made' \subseteq [id : Sharing!ShareIds, draft : Nat], IsFiniteSet(made'),
             b.stage = "done" \/ made' = made,
             \A m \in made' \ made : c.op = "publish" /\ m.draft = c.draft,
             \A m, o \in made' \ made : m = o, made \subseteq made'
      PROVE  ShareInv'
  <2>1. ShareTypes'
    BY <1>0, <1>1 DEF ShareInv, ShareTypes
  <2>2. Publications' = IF c.op = "publish" THEN (Publications \ {c}) \cup {b} ELSE Publications
    BY <1>1 DEF Publications
  <2>3. ASSUME c.op = "publish", ~mixed'
        PROVE  OneDraft'
    <3>1. Publications = {c} /\ Publications' = {b}
      BY <1>0, <2>2, <2>3 DEF ShareInv, OneDraft, Publications
    <3>2. /\ \A m \in made : m.draft # c.draft /\ m.draft # draft /\ m.draft <= draft
          /\ c.draft <= draft
      BY <1>0, <2>3, <3>1 DEF ShareInv, OneDraft
    <3>3. \A m, o \in made : m.draft = o.draft => m = o
      BY <1>0, <2>3 DEF ShareInv, OneDraft
    <3>4. \A m \in made' : m.draft <= draft /\ (m.draft = draft => c.draft = draft /\ b.stage = "done")
      BY <1>1, <3>2
    <3>5. taken \subseteq desk.files /\ desk.files \subseteq c.files /\ desk.busy = "sharing"
      BY <1>0, <2>3, <3>1 DEF ShareInv, OneDraft
    <3>6. \A m, o \in made' : m.draft = o.draft => m = o
      BY <1>1, <3>2, <3>3
    <3>7. b.stage # "done" => \A m \in made' : m.draft # b.draft
      BY <1>1, <3>2
    <3> QED
      BY <1>0, <1>1, <3>1, <3>2, <3>4, <3>5, <3>6, <3>7 DEF OneDraft
  <2>4. ASSUME c.op # "publish", ~mixed'
        PROVE  OneDraft'
    <3>1. made' = made
      BY <1>1, <2>4
    <3> QED
      BY <1>0, <2>2, <2>4, <3>1 DEF ShareInv, OneDraft
  <2> QED
    BY <2>1, <2>3, <2>4 DEF ShareInv, OneDraft
<1>2. CASE Sharing!Refuses(c)
  <2> DEFINE b == [c EXCEPT !.stage = "refused"]
  <2>1. /\ b \in ShareCall /\ b.op = c.op /\ b.files = c.files /\ b.draft = c.draft
        /\ b.snap = c.snap
    BY <1>0 DEF ShareCall, CallForm
  <2>2. shareCalls' = (shareCalls \ {c}) \cup {b} /\ UNCHANGED <<shares, favorites, made>>
    BY <1>2 DEF Sharing!Refuses
  <2>3. /\ c.snap.shares \subseteq Known /\ DOMAIN shares \subseteq Known
        /\ favorites \subseteq Friends
    BY DEF ShareInv, ShareTypes
  <2> HIDE DEF b
  <2>4. Known' = Known
    BY <2>2 DEF Known
  <2> QED
    BY <1>0, <1>1, <2>1, <2>2, <2>3, <2>4
<1>3. CASE Sharing!Serves(c)
  <2> DEFINE b == [c EXCEPT !.stage = "done", !.snap = [shares |-> DOMAIN shares', favorites |-> favorites']]
  <2>1. shareCalls' = (shareCalls \ {c}) \cup {b}
    BY <1>3 DEF Sharing!Serves
  <2>2. ASSUME DOMAIN shares' \subseteq Sharing!ShareIds, favorites' \subseteq Friends
        PROVE  /\ b \in ShareCall /\ b.op = c.op /\ b.files = c.files /\ b.draft = c.draft
               /\ b.snap.shares = DOMAIN shares' /\ b.stage = "done"
    BY <1>0, <2>2 DEF ShareCall, CallForm, Snap
  <2> HIDE DEF b
  <2>3. DOMAIN shares \subseteq Known /\ favorites \subseteq Friends /\ Known \subseteq Sharing!ShareIds
    BY <1>0 DEF ShareInv, ShareTypes, Known
  <2>4. CASE Sharing!Publishes(c)
    <3> DEFINE id == Cardinality(made) + 1
               m == [id |-> id, draft |-> c.draft]
    <3>1. /\ c.op = "publish" /\ UNCHANGED favorites /\ made' = made \cup {m}
          /\ shares' = [i \in DOMAIN shares \cup {id} |-> IF i = id THEN c.files ELSE shares[i]]
      BY <2>4, SameCardinality DEF Sharing!Publishes
    <3>2. id \in Sharing!ShareIds
      <4>1. Cardinality(made) \in Nat
        BY <1>0, FS_CardinalityType
      <4>2. Cardinality(made) < MaxShares
        BY <2>4, SameCardinality DEF Sharing!Publishes
      <4> QED
        BY <4>1, <4>2, WorkbenchAssumption DEF Sharing!ShareIds
    <3>3. m \in [id : Sharing!ShareIds, draft : Nat] /\ m.draft = c.draft /\ m.id = id
      BY <1>0, <3>2
    <3>4. IsFiniteSet(made')
      BY <1>0, <3>1, FS_AddElement
    <3> HIDE DEF m
    <3>5. Known' = Known \cup {id}
      BY <3>1, <3>3 DEF Known
    <3> HIDE DEF id
    <3>6. DOMAIN shares' = DOMAIN shares \cup {id}
      BY <3>1
    <3>7. /\ \A n \in made' \ made : c.op = "publish" /\ n.draft = c.draft
          /\ \A n, o \in made' \ made : n = o
          /\ made \subseteq made' /\ made' \subseteq [id : Sharing!ShareIds, draft : Nat]
      BY <1>0, <3>1, <3>3
    <3> QED
      BY <1>1, <2>1, <2>2, <2>3, <3>1, <3>2, <3>4, <3>5, <3>6, <3>7
  <2>5. CASE ~Sharing!Publishes(c)
    <3>1. made' = made /\ DOMAIN shares' \subseteq DOMAIN shares
      BY <1>3, <2>5 DEF Sharing!Serves, Sharing!Removes, Sharing!SetsFavorite, Sharing!Registers
    <3>2. favorites' \subseteq Friends
      <4>1. CASE Sharing!SetsFavorite(c)
        BY <1>0, <2>3, <4>1 DEF Sharing!SetsFavorite, ShareCall
      <4> QED
        BY <1>3, <2>3, <2>5, <4>1 DEF Sharing!Serves, Sharing!Removes, Sharing!Registers
    <3>3. Known' = Known
      BY <3>1 DEF Known
    <3>4. DOMAIN shares' \subseteq Known' /\ DOMAIN shares' \subseteq Sharing!ShareIds
      BY <2>3, <3>1, <3>3
    <3> QED
      BY <1>0, <1>1, <2>1, <2>2, <3>1, <3>2, <3>3, <3>4
  <2> QED
    BY <2>4, <2>5
<1> QED
  BY <1>2, <1>3 DEF Sharing!Serve
\* An answer arrives.
LEMMA ShareAnswers ==
  ASSUME ShareInv, NEW c \in shareCalls, Sharing!Answer(c)
  PROVE  ShareInv'
<1>0. /\ c \in ShareCall /\ c.snap \in Snap /\ c.snap.shares \subseteq Known /\ c.stage # "sent"
      /\ desk \in Desk /\ draft \in Nat /\ mixed \in BOOLEAN
      /\ shareCalls' = shareCalls \ {c} /\ UNCHANGED <<shares, favorites, sharePoll, shareSteps, made>>
      /\ desk' = Sharing!Ended(desk, c)
  BY DEF ShareInv, ShareTypes, Sharing!Answer, ShareCall, CallForm
<1>1. mixed' \in BOOLEAN /\ (mixed' <=> (mixed \/ (c.op # "publish" /\ Publications # {})))
  <2>1. Sharing!Publishing(shareCalls) <=> Publications # {}
    BY DEF Sharing!Publishing, Publications
  <2>2. mixed' = (mixed \/ (c.op # "publish" /\ Sharing!Publishing(shareCalls)))
    BY DEF Sharing!Answer
  <2> QED
    BY <1>0, <2>1, <2>2, Zenon
<1> DEFINE over == c.op = "publish" /\ c.stage = "done"
           d == [desk EXCEPT !.busy = "", !.snap = IF c.stage = "done" THEN c.snap ELSE @]
<1>2. /\ d \in Desk /\ d.snap \in {c.snap, desk.snap} /\ d.files = desk.files /\ d.step = desk.step
      /\ d.scope = desk.scope /\ d.password = desk.password /\ d.targets = desk.targets
      /\ d.busy = ""
  BY <1>0 DEF Desk
<1>3. desk' = IF over THEN Sharing!Cleared(d) ELSE d
  BY <1>0 DEF Sharing!Ended
<1>4. IF over THEN taken' = taken \ c.files /\ draft' = draft + 1 ELSE UNCHANGED <<taken, draft>>
  BY DEF Sharing!Answer
<1> HIDE DEF d, over
<1>5. /\ desk' \in Desk /\ desk'.snap \in {c.snap, desk.snap}
      /\ desk'.files = IF over THEN {} ELSE desk.files
      /\ desk'.files = {} =>
            desk'.step = 1 /\ desk'.scope = "all" /\ ~desk'.password /\ desk'.targets = {}
  BY <1>2, <1>3, ClearedDesk DEF ShareInv, ShareTypes
<1>6. draft' \in Nat
  BY <1>0, <1>4
<1>7. ShareTypes'
  BY <1>0, <1>1, <1>5, <1>6 DEF ShareInv, ShareTypes, Known
<1>8. ASSUME ~mixed'
      PROVE  OneDraft'
  <2>1. Publications' = {} /\ (c.op = "publish" => Publications = {c})
    BY <1>0, <1>1, <1>8 DEF ShareInv, OneDraft, Publications
  <2>2. ~mixed /\ \A m \in made : m.draft \in Nat
    BY <1>1, <1>8 DEF ShareInv, ShareTypes
  <2>3. CASE over
    <3>1. \A m \in made' : m.draft <= draft /\ m.draft <= draft' /\ m.draft # draft'
      BY <1>0, <1>4, <2>2, <2>3 DEF ShareInv, OneDraft
    <3>2. taken' \subseteq desk'.files
      BY <1>4, <1>5, <2>1, <2>2, <2>3 DEF ShareInv, OneDraft, over
    <3> QED
      BY <1>0, <2>1, <2>2, <3>1, <3>2 DEF ShareInv, OneDraft
  <2>4. CASE ~over
    <3>1. \A m \in made : m.draft # draft
      BY <1>0, <2>1, <2>2, <2>4, <1>1, <1>8 DEF ShareInv, OneDraft, over
    <3> QED
      BY <1>0, <1>4, <1>5, <2>1, <2>2, <2>4, <3>1 DEF ShareInv, OneDraft
  <2> QED
    BY <2>3, <2>4
<1> QED
  BY <1>7, <1>8 DEF ShareInv, OneDraft

\* Files are picked.
LEMMA ShareFiles ==
  ASSUME ShareInv, NEW c \in shareCalls, Sharing!FilesAnswer(c)
  PROVE  ShareInv'
<1>1. PICK picked \in SUBSET Files :
        /\ desk' = [desk EXCEPT !.files = @ \cup picked] /\ taken' = taken \cup picked
        /\ mixed' = (mixed \/ (picked # {} /\ Sharing!Publishing(shareCalls)))
  BY DEF Sharing!FilesAnswer
<1>2. /\ c.op = "files" /\ shareCalls' = shareCalls \ {c} /\ mixed \in BOOLEAN
      /\ UNCHANGED <<shares, favorites, sharePoll, shareSteps, made, draft>>
  BY DEF Sharing!FilesAnswer, ShareInv, ShareTypes
<1>3. mixed' \in BOOLEAN /\ (mixed' <=> (mixed \/ (picked # {} /\ Publications # {})))
  <2>1. Sharing!Publishing(shareCalls) <=> Publications # {}
    BY DEF Sharing!Publishing, Publications
  <2> QED
    BY <1>1, <1>2, <2>1, Zenon
<1>4. /\ desk' \in Desk /\ desk'.snap = desk.snap /\ desk'.files = desk.files \cup picked
      /\ desk'.busy = desk.busy /\ desk'.step = desk.step /\ desk'.scope = desk.scope
      /\ desk'.password = desk.password /\ desk'.targets = desk.targets
  BY <1>1 DEF ShareInv, ShareTypes, Desk
<1>5. ShareTypes'
  BY <1>2, <1>3, <1>4 DEF ShareInv, ShareTypes, Known
<1>6. Publications' = Publications
  BY <1>2 DEF Publications
<1>7. OneDraft'
  BY <1>1, <1>2, <1>3, <1>4, <1>6 DEF ShareInv, OneDraft
<1> QED
  BY <1>5, <1>7 DEF ShareInv

\* Every step of the draft, and every step beside it, preserves the invariant.
LEMMA ShareNext ==
  ASSUME ShareInv, SharingStep \/ UNCHANGED sharingVars
  PROVE  ShareInv'
<1>1. CASE UNCHANGED sharingVars
  BY <1>1 DEF sharingVars, ShareInv, ShareTypes, OneDraft, Known, Publications
<1>2. CASE Sharing!Next
  BY <1>2, SharePolls, ShareEdits, ShareSends, ShareServes, ShareAnswers, ShareFiles DEF Sharing!Next
<1> QED
  BY <1>1, <1>2 DEF SharingStep

\* A draft is shared once, and its files are not lost on the way (DraftIsSharedOnce).
THEOREM DraftsAreSharedOnce == Spec => []DraftIsSharedOnce
<1>1. Init => ShareInv
  BY ShareInit DEF Init
<1>2. ShareInv /\ [Next]_vars => ShareInv'
  BY ShareNext, Interleaves
<1>3. ShareInv => DraftIsSharedOnce
  BY DEF ShareInv, OneDraft, DraftIsSharedOnce, Sharing!DraftIsSharedOnce
<1> QED
  BY <1>1, <1>2, <1>3, PTL DEF Spec
----------------------------------------------------------------------------
(* Requests of other nodes. *)

Snapshots == [Requests -> Incoming!Statuses]
Receiver == [snap : Snapshots, modal : Requests \cup {0}, previous : Requests \cup {0},
             dismissed : SUBSET Requests, folder : {"default", "chosen"},
             folderOf : Requests \cup {0}, busy : BOOLEAN]
DecisionForm == [op : {"accept", "reject", "cancel", "folder", "refresh"}, request : Requests,
                 folder : {"default", "chosen"}, folderOf : Requests \cup {0},
                 stage : {"sent", "done", "refused"}, snap : Snapshots]

\* a snapshot that shows no request further than it is
Older(snap, now) ==
  \A r \in Requests : /\ now[r] = "none" => snap[r] = "none"
                      /\ now[r] = "asked" => snap[r] \in {"none", "asked"}

IncomingTypes ==
  /\ offers \in Snapshots /\ receiver \in Receiver
  /\ receiver.folder = "chosen" <=> receiver.folderOf # 0
  /\ poll \in [on : BOOLEAN, read : BOOLEAN, snap : Snapshots]
  /\ decisions \subseteq DecisionForm

SnapshotsAreOlder ==
  /\ Older(receiver.snap, offers) /\ Older(poll.snap, offers)
  /\ \A c \in decisions : Older(c.snap, offers)

\* previous is the request the effect has filled in the directory for
FilledIn ==
  /\ receiver.previous # 0 =>
       receiver.previous = receiver.modal /\ receiver.snap[receiver.previous] # "none"
  /\ receiver.modal # 0 /\ receiver.snap[receiver.modal] # "none" =>
       receiver.previous = receiver.modal
FolderIsOfTheRequest ==
  receiver.folder = "chosen" /\ receiver.previous # 0 /\ ~misplaced
    => offers[receiver.previous] # "asked" \/ receiver.folderOf = receiver.previous
AcceptsAreAsked == \A c \in decisions : c.op = "accept" => offers[c.request] # "none"

IncomingInv ==
  /\ IncomingTypes /\ SnapshotsAreOlder /\ FilledIn /\ FolderIsOfTheRequest
  /\ AcceptsAreAsked /\ Incoming!DestinationIsOfTheRequest

\* What a render leaves: the request shown, and when it was taken.
LEMMA RenderIs ==
  ASSUME NEW v \in Receiver, v.folder = "chosen" <=> v.folderOf # 0, Incoming!Render(v)
  PROVE  /\ receiver' \in Receiver /\ receiver'.snap = v.snap /\ receiver'.busy = v.busy
         /\ receiver'.folder = "chosen" <=> receiver'.folderOf # 0
         /\ FilledIn'
         /\ receiver'.folder = "chosen" /\ receiver'.previous # 0 =>
              /\ v.folder = "chosen" /\ receiver'.folderOf = v.folderOf
              /\ \/ receiver'.previous = v.previous
                 \/ receiver'.snap[receiver'.previous] \notin {"none", "asked"}
<1> DEFINE known == [v EXCEPT !.dismissed = {r \in @ : v.snap[r] # "none"}]
<1>1. /\ known \in Receiver /\ known.snap = v.snap /\ known.busy = v.busy
      /\ known.folder = v.folder /\ known.folderOf = v.folderOf /\ known.previous = v.previous
      /\ known.modal = v.modal
  BY DEF Receiver
<1>2. PICK m \in Incoming!NextModal(known) : receiver' = Incoming!Opened([known EXCEPT !.modal = m])
  BY DEF Incoming!Render
<1> HIDE DEF known
<1>3. m \in Requests \cup {0}
  BY <1>1, <1>2 DEF Incoming!NextModal, Receiver, Incoming!NoRequest
<1> DEFINE w == [known EXCEPT !.modal = m]
<1>4. /\ w \in Receiver /\ w.snap = v.snap /\ w.busy = v.busy /\ w.modal = m
      /\ w.folder = v.folder /\ w.folderOf = v.folderOf /\ w.previous = v.previous
  BY <1>1, <1>3 DEF Receiver
<1>5. receiver' = Incoming!Opened(w)
  BY <1>2
<1> HIDE DEF w
<1> USE DEF Incoming!NoRequest
<1>6. CASE m = 0 \/ w.snap[m] = "none"
  <2>1. receiver' = [w EXCEPT !.previous = 0]
    BY <1>4, <1>5, <1>6 DEF Incoming!Opened
  <2> QED
    BY <1>4, <1>6, <2>1 DEF Receiver, FilledIn
<1>7. CASE ~(m = 0 \/ w.snap[m] = "none") /\ w.previous = m
  <2>1. receiver' = w
    BY <1>4, <1>5, <1>7 DEF Incoming!Opened
  <2> QED
    BY <1>4, <1>7, <2>1 DEF Receiver, FilledIn
<1>8. CASE ~(m = 0 \/ w.snap[m] = "none") /\ w.previous # m
  <2> DEFINE u == [w EXCEPT !.previous = m]
  <2>1. /\ u \in Receiver /\ u.snap = v.snap /\ u.busy = v.busy /\ u.modal = m /\ u.previous = m
        /\ u.folder = v.folder /\ u.folderOf = v.folderOf
    BY <1>3, <1>4 DEF Receiver
  <2>2. receiver' = IF w.snap[m] = "asked" THEN Incoming!DefaultDestination(u) ELSE u
    BY <1>4, <1>5, <1>8 DEF Incoming!Opened, Incoming!isIncomingApprovalTask
  <2> HIDE DEF u
  <2>3. CASE w.snap[m] = "asked"
    <3>1. receiver' = [u EXCEPT !.folder = "default", !.folderOf = 0]
      BY <2>2, <2>3 DEF Incoming!DefaultDestination
    <3> QED
      BY <1>4, <1>8, <2>1, <3>1 DEF Receiver, FilledIn
  <2>4. CASE w.snap[m] # "asked"
    BY <1>4, <1>8, <2>1, <2>2, <2>4 DEF FilledIn
  <2> QED
    BY <2>3, <2>4
<1> QED
  BY <1>6, <1>7, <1>8

\* No request is known.
LEMMA IncomingInit == Incoming!Init => IncomingInv
<1> SUFFICES ASSUME Incoming!Init PROVE IncomingInv
  OBVIOUS
<1>1. Incoming!NoTasks \in Snapshots /\ \A r \in Requests : Incoming!NoTasks[r] = "none"
  BY DEF Incoming!NoTasks, Snapshots, Incoming!Statuses
<1> QED
  BY <1>1 DEF Incoming!Init, IncomingInv, IncomingTypes, SnapshotsAreOlder, Older, FilledIn,
    FolderIsOfTheRequest, AcceptsAreAsked, Incoming!DestinationIsOfTheRequest, Receiver,
    Incoming!NoRequest

\* An answer or a gesture puts a snapshot, a request or both on the screen.
LEMMA RenderKeeps ==
  ASSUME IncomingInv, NEW v \in Receiver, Incoming!Render(v),
         Older(v.snap, offers), v.previous = receiver.previous,
         v.folder = "chosen" <=> v.folderOf # 0,
         v.folder = "chosen" => receiver.folder = "chosen" /\ v.folderOf = receiver.folderOf,
         poll' \in [on : BOOLEAN, read : BOOLEAN, snap : Snapshots], Older(poll'.snap, offers),
         decisions' \subseteq decisions, UNCHANGED <<offers, misplaced>>
  PROVE  IncomingInv'
<1>1. IncomingTypes'
  BY RenderIs DEF IncomingInv, IncomingTypes
<1>2. SnapshotsAreOlder'
  BY RenderIs DEF IncomingInv, SnapshotsAreOlder, Older
<1>3. FilledIn'
  BY RenderIs
<1>4. FolderIsOfTheRequest'
  <2> SUFFICES ASSUME receiver'.folder = "chosen", receiver'.previous # 0, ~misplaced,
                      offers[receiver'.previous] = "asked"
               PROVE  receiver'.folderOf = receiver'.previous
    BY DEF FolderIsOfTheRequest
  <2>1. receiver'.snap[receiver'.previous] \in {"none", "asked"}
    <3>1. receiver'.previous \in Requests
      BY <1>1 DEF IncomingTypes, Receiver
    <3> QED
      BY <3>1, RenderIs DEF Older
  <2>2. /\ v.folder = "chosen" /\ receiver'.folderOf = v.folderOf
        /\ receiver'.previous = v.previous
    BY <2>1, RenderIs
  <2> QED
    BY <2>2 DEF IncomingInv, FolderIsOfTheRequest
<1> QED
  BY <1>1, <1>2, <1>3, <1>4 DEF IncomingInv, AcceptsAreAsked, Incoming!DestinationIsOfTheRequest
\* Requests are asked once, and only go on.
Onward(before, now) ==
  \A r \in Requests : \/ now[r] = before[r] \/ now[r] \notin {"none", "asked"}
                      \/ before[r] = "none" /\ now[r] = "asked"

\* A request never goes back.
LEMMA OnwardOlder ==
  ASSUME NEW snap, NEW before, NEW now, Older(snap, before), Onward(before, now)
  PROVE  Older(snap, now)
BY DEF Older, Onward

\* A request goes on: nothing the screen holds is about a request not asked yet.
LEMMA OffersGoOn ==
  ASSUME IncomingInv, offers' \in Snapshots, Onward(offers, offers'),
         decisions' \subseteq DecisionForm, \A c \in decisions' : Older(c.snap, offers'),
         \A c \in decisions' : c.op = "accept" =>
           /\ offers'[c.request] # "none"
           /\ \/ c \in decisions
              \/ \E b \in decisions : /\ b.op = "accept" /\ b.request = c.request /\ b.folder = c.folder
                                      /\ b.folderOf = c.folderOf
                                      /\ c.stage = "done" => offers[c.request] = "asked",
         \A c \in decisions' : c.op = "accept" => offers[c.request] # "none",
         UNCHANGED <<receiver, poll, misplaced>>
  PROVE  IncomingInv'
<1>1. IncomingTypes' /\ FilledIn' /\ AcceptsAreAsked'
  BY DEF IncomingInv, IncomingTypes, FilledIn, AcceptsAreAsked
<1>2. SnapshotsAreOlder'
  BY OnwardOlder DEF IncomingInv, SnapshotsAreOlder
<1>3. FolderIsOfTheRequest'
  <2> SUFFICES ASSUME receiver.folder = "chosen", receiver.previous # 0, ~misplaced,
                      offers'[receiver.previous] = "asked"
               PROVE  receiver.folderOf = receiver.previous
    BY DEF FolderIsOfTheRequest
  <2>1. receiver.previous \in Requests /\ receiver.snap[receiver.previous] # "none"
    BY DEF IncomingInv, IncomingTypes, Receiver, FilledIn
  <2>2. offers[receiver.previous] = "asked"
    BY <2>1 DEF Onward, IncomingInv, SnapshotsAreOlder, Older
  <2> QED
    BY <2>2 DEF IncomingInv, FolderIsOfTheRequest
<1>4. Incoming!DestinationIsOfTheRequest'
  <2> SUFFICES ASSUME NEW c \in decisions', c.op = "accept", c.folder = "chosen", ~misplaced,
                      offers'[c.request] = "asked" \/ c.stage = "done"
               PROVE  c.folderOf = c.request
    BY DEF Incoming!DestinationIsOfTheRequest
  <2>1. c.request \in Requests
    BY DEF DecisionForm
  <2>2. offers[c.request] = "asked" \/ (c \in decisions /\ c.stage = "done")
    BY <2>1 DEF Onward
  <2> QED
    BY <2>2 DEF IncomingInv, Incoming!DestinationIsOfTheRequest
<1> QED
  BY <1>1, <1>2, <1>3, <1>4 DEF IncomingInv

\* The sender and the service: requests come, are cancelled, and end.
LEMMA OthersAct ==
  ASSUME IncomingInv, NEW r \in Requests, Incoming!Ask(r) \/ Incoming!Begin(r) \/ Incoming!End(r)
  PROVE  IncomingInv'
<1>1. PICK to \in {"asked", "running", "ended"} :
         /\ offers' = [offers EXCEPT ![r] = to] /\ (to = "asked" => offers[r] = "none")
         /\ UNCHANGED <<receiver, poll, decisions, misplaced>>
  BY DEF Incoming!Ask, Incoming!Begin, Incoming!End, Incoming!Becomes
<1>2. offers' \in Snapshots /\ Onward(offers, offers')
  BY <1>1 DEF IncomingInv, IncomingTypes, Snapshots, Incoming!Statuses, Onward
<1>3. /\ decisions \subseteq DecisionForm /\ \A c \in decisions : Older(c.snap, offers)
      /\ \A c \in decisions : c.op = "accept" => offers[c.request] # "none"
  BY DEF IncomingInv, IncomingTypes, SnapshotsAreOlder, AcceptsAreAsked
<1>4. \A c \in decisions : c.op = "accept" => offers'[c.request] # "none"
  <2>1. \A c \in decisions : c.request \in Requests
    BY <1>3 DEF DecisionForm
  <2> QED
    BY <1>2, <1>3, <2>1 DEF Onward
<1> QED
  BY <1>1, <1>2, <1>3, <1>4, OffersGoOn, OnwardOlder

\* The poll is sent, served and answered.
LEMMA IncomingPolls ==
  ASSUME IncomingInv,
         \/ Incoming!SendPoll \/ Incoming!ServePoll \/ Incoming!PollAnswer \/ Incoming!PollFails
  PROVE  IncomingInv'
<1>1. Incoming!NoTasks \in Snapshots /\ Older(Incoming!NoTasks, offers) /\ Older(offers, offers)
  BY DEF Incoming!NoTasks, Snapshots, Incoming!Statuses, Older
<1>2. CASE Incoming!PollAnswer
  <2> DEFINE v == [receiver EXCEPT !.snap = poll.snap]
  <2>1. /\ v \in Receiver /\ v.snap = poll.snap /\ v.previous = receiver.previous
        /\ v.folder = receiver.folder /\ v.folderOf = receiver.folderOf
    BY DEF IncomingInv, IncomingTypes, Receiver
  <2>2. Older(v.snap, offers) /\ (v.folder = "chosen" <=> v.folderOf # 0)
    BY <2>1 DEF IncomingInv, IncomingTypes, SnapshotsAreOlder
  <2>3. Incoming!Render(v)
    BY <1>2 DEF Incoming!PollAnswer
  <2> HIDE DEF v
  <2> QED
    BY <1>1, <1>2, <2>1, <2>2, <2>3, RenderKeeps DEF Incoming!PollAnswer
<1>3. CASE Incoming!SendPoll \/ Incoming!ServePoll \/ Incoming!PollFails
  <2>1. /\ poll' \in [on : BOOLEAN, read : BOOLEAN, snap : Snapshots]
        /\ poll'.snap \in {poll.snap, offers, Incoming!NoTasks}
        /\ UNCHANGED <<offers, receiver, decisions, misplaced>>
    <3>1. poll \in [on : BOOLEAN, read : BOOLEAN, snap : Snapshots] /\ offers \in Snapshots
      BY DEF IncomingInv, IncomingTypes
    <3>2. CASE Incoming!SendPoll
      BY <3>1, <3>2 DEF Incoming!SendPoll
    <3>3. CASE Incoming!ServePoll
      BY <3>1, <3>3 DEF Incoming!ServePoll
    <3>4. CASE Incoming!PollFails
      BY <1>1, <3>4 DEF Incoming!PollFails
    <3> QED
      BY <1>3, <3>2, <3>3, <3>4
  <2> QED
    BY <1>1, <2>1 DEF IncomingInv, IncomingTypes, SnapshotsAreOlder, FilledIn, FolderIsOfTheRequest,
      AcceptsAreAsked, Incoming!DestinationIsOfTheRequest
<1> QED
  BY <1>2, <1>3

\* The gestures of the dialog.
LEMMA IncomingGestures ==
  ASSUME IncomingInv,
         \/ Incoming!handleAcceptIncomingTask \/ Incoming!CancelReceive
         \/ Incoming!handleChooseIncomingDestination \/ Incoming!handleDismissIncomingTask
         \/ \E r \in Requests : \/ Incoming!handleRejectIncomingTask(r)
                                \/ Incoming!handleOpenIncomingTask(r)
  PROVE  IncomingInv'
<1>1. /\ receiver \in Receiver /\ Incoming!NoTasks \in Snapshots /\ Older(Incoming!NoTasks, offers)
      /\ poll \in [on : BOOLEAN, read : BOOLEAN, snap : Snapshots] /\ Older(poll.snap, offers)
      /\ Older(receiver.snap, offers) /\ (receiver.folder = "chosen" <=> receiver.folderOf # 0)
  BY DEF Incoming!NoTasks, Snapshots, Incoming!Statuses, Older, IncomingInv, IncomingTypes,
    SnapshotsAreOlder
<1>2. ASSUME NEW r \in Requests, NEW op \in {"accept", "reject", "cancel", "folder"},
             Incoming!Send(Incoming!Decision(op, r)),
             receiver' \in {receiver, [receiver EXCEPT !.busy = TRUE]},
             op = "accept" => r = receiver.modal /\ receiver.snap[r] = "asked"
      PROVE  IncomingInv'
  <2> DEFINE c == Incoming!Decision(op, r)
  <2>1. /\ c \in DecisionForm /\ c.op = op /\ c.request = r /\ c.folder = receiver.folder
        /\ c.folderOf = receiver.folderOf /\ c.stage = "sent" /\ c.snap = Incoming!NoTasks
    BY <1>1 DEF Incoming!Decision, DecisionForm, Receiver
  <2>2. decisions' = decisions \cup {c} /\ UNCHANGED <<offers, poll, misplaced>>
    BY <1>2 DEF Incoming!Send
  <2>3. /\ receiver' \in Receiver /\ receiver'.snap = receiver.snap
        /\ receiver'.modal = receiver.modal /\ receiver'.previous = receiver.previous
        /\ receiver'.folder = receiver.folder /\ receiver'.folderOf = receiver.folderOf
    BY <1>1, <1>2 DEF Receiver
  <2> HIDE DEF c
  <2>4. IncomingTypes' /\ SnapshotsAreOlder' /\ FilledIn' /\ FolderIsOfTheRequest'
    BY <1>1, <2>1, <2>2, <2>3 DEF IncomingInv, IncomingTypes, SnapshotsAreOlder, FilledIn,
      FolderIsOfTheRequest
  <2>5. op = "accept" => offers[r] # "none"
    BY <1>1, <1>2 DEF Older
  <2>6. op = "accept" /\ c.folder = "chosen" /\ ~misplaced /\ offers[r] = "asked" => c.folderOf = r
    BY <1>2, <2>1, WorkbenchAssumption DEF IncomingInv, FilledIn, FolderIsOfTheRequest
  <2> QED
    BY <2>1, <2>2, <2>4, <2>5, <2>6 DEF IncomingInv, AcceptsAreAsked,
      Incoming!DestinationIsOfTheRequest
<1> USE DEF Incoming!Pressable, Incoming!isIncomingApprovalTask
<1>3. receiver.modal \in Requests \/ ~Incoming!DialogShown
  BY <1>1 DEF Receiver, Incoming!DialogShown, Incoming!Shows, Incoming!NoRequest
<1>4. CASE Incoming!handleAcceptIncomingTask
  BY <1>2, <1>3, <1>4 DEF Incoming!handleAcceptIncomingTask
<1>5. CASE Incoming!CancelReceive \/ Incoming!handleChooseIncomingDestination
  BY <1>2, <1>3, <1>5 DEF Incoming!CancelReceive, Incoming!handleChooseIncomingDestination
<1>6. ASSUME NEW r \in Requests, Incoming!handleRejectIncomingTask(r)
      PROVE  IncomingInv'
  BY <1>2, <1>6 DEF Incoming!handleRejectIncomingTask
<1>7. CASE Incoming!handleDismissIncomingTask
  <2> DEFINE v == Incoming!Dismissed(receiver, receiver.modal)
  <2>1. /\ v \in Receiver /\ v.snap = receiver.snap /\ v.previous = receiver.previous
        /\ v.folder = receiver.folder /\ v.folderOf = receiver.folderOf
    BY <1>1, <1>3, <1>7 DEF Incoming!handleDismissIncomingTask, Incoming!Dismissed, Receiver,
      Incoming!NoRequest
  <2>2. Incoming!Render(v) /\ UNCHANGED <<offers, poll, decisions, misplaced>>
    BY <1>7 DEF Incoming!handleDismissIncomingTask
  <2> HIDE DEF v
  <2> QED
    BY <1>1, <2>1, <2>2, RenderKeeps
<1>8. ASSUME NEW r \in Requests, Incoming!handleOpenIncomingTask(r)
      PROVE  IncomingInv'
  <2> DEFINE u == [receiver EXCEPT !.modal = r, !.dismissed = @ \ {r}]
             v == Incoming!DefaultDestination(u)
  <2>1. u \in Receiver /\ u.snap = receiver.snap /\ u.previous = receiver.previous
    BY <1>1 DEF Receiver
  <2>2. Incoming!Render(v) /\ UNCHANGED <<offers, poll, decisions, misplaced>>
    BY <1>8 DEF Incoming!handleOpenIncomingTask
  <2> HIDE DEF u
  <2>3. /\ v \in Receiver /\ v.snap = receiver.snap /\ v.previous = receiver.previous
        /\ v.folder = "default" /\ v.folderOf = 0
    BY <2>1 DEF Incoming!DefaultDestination, Receiver, Incoming!NoRequest
  <2> HIDE DEF v
  <2> QED
    BY <1>1, <2>2, <2>3, RenderKeeps
<1> QED
  BY <1>4, <1>5, <1>6, <1>7, <1>8
\* The service executes a decision or refuses it.
LEMMA IncomingServes ==
  ASSUME IncomingInv, NEW c \in decisions, Incoming!Serve(c)
  PROVE  IncomingInv'
<1>1. /\ c \in DecisionForm /\ c.request \in Requests /\ c.stage = "sent" /\ c.op # "folder"
      /\ decisions \subseteq DecisionForm /\ UNCHANGED <<receiver, poll, misplaced>>
      /\ \A d \in decisions : Older(d.snap, offers)
      /\ \A d \in decisions : d.op = "accept" => offers[d.request] # "none"
  BY DEF IncomingInv, IncomingTypes, SnapshotsAreOlder, AcceptsAreAsked, Incoming!Serve, DecisionForm
<1>2. ASSUME NEW b \in DecisionForm, b.op = c.op, b.request = c.request, b.folder = c.folder,
             b.folderOf = c.folderOf, b.stage = "done" /\ c.op = "accept" => offers[c.request] = "asked",
             Older(b.snap, offers'), decisions' = (decisions \ {c}) \cup {b},
             offers' \in Snapshots, Onward(offers, offers')
      PROVE  IncomingInv'
  <2>1. \A d \in decisions : d.op = "accept" => offers'[d.request] # "none"
    <3>1. \A d \in decisions : d.request \in Requests
      BY <1>1 DEF DecisionForm
    <3> QED
      BY <1>1, <1>2, <3>1 DEF Onward
  <2>2. decisions' \subseteq DecisionForm /\ \A d \in decisions' : Older(d.snap, offers')
    BY <1>1, <1>2, OnwardOlder
  <2> QED
    BY <1>1, <1>2, <2>1, <2>2, OffersGoOn
<1>3. CASE decisions' = (decisions \ {c}) \cup {[c EXCEPT !.stage = "refused"]} /\ UNCHANGED offers
  <2> DEFINE b == [c EXCEPT !.stage = "refused"]
  <2>1. /\ b \in DecisionForm /\ b.op = c.op /\ b.request = c.request /\ b.folder = c.folder
        /\ b.folderOf = c.folderOf /\ b.snap = c.snap /\ b.stage = "refused"
    BY <1>1 DEF DecisionForm
  <2>2. offers' \in Snapshots /\ Onward(offers, offers') /\ Older(b.snap, offers')
    BY <1>1, <1>3, <2>1 DEF IncomingInv, IncomingTypes, Onward
  <2> HIDE DEF b
  <2>3. decisions' = (decisions \ {c}) \cup {b}
    BY <1>3 DEF b
  <2> QED
    BY <1>2, <2>1, <2>2, <2>3
<1>4. ASSUME NEW next \in Snapshots, Incoming!Executed(c, next), Onward(offers, next),
             c.op = "accept" => offers[c.request] = "asked"
      PROVE  IncomingInv'
  <2> DEFINE b == [c EXCEPT !.stage = "done", !.snap = next]
  <2>1. /\ b \in DecisionForm /\ b.op = c.op /\ b.request = c.request /\ b.folder = c.folder
        /\ b.folderOf = c.folderOf /\ b.snap = next /\ b.stage = "done"
    BY <1>1 DEF DecisionForm
  <2>2. offers' = next /\ Older(next, next)
    BY <1>4 DEF Incoming!Executed, Older
  <2> HIDE DEF b
  <2>3. decisions' = (decisions \ {c}) \cup {b}
    BY <1>4 DEF b, Incoming!Executed
  <2> QED
    BY <1>2, <1>4, <2>1, <2>2, <2>3
<1>5. \A to \in {"accepted", "ended"} : /\ [offers EXCEPT ![c.request] = to] \in Snapshots
                                        /\ Onward(offers, [offers EXCEPT ![c.request] = to])
  BY <1>1 DEF IncomingInv, IncomingTypes, Snapshots, Incoming!Statuses, Onward
<1>6. offers \in Snapshots /\ Onward(offers, offers)
  BY DEF IncomingInv, IncomingTypes, Onward
<1> QED
  BY <1>3, <1>4, <1>5, <1>6 DEF Incoming!Serve

\* An answer arrives.
LEMMA IncomingAnswers ==
  ASSUME IncomingInv, NEW c \in decisions, Incoming!Answer(c)
  PROVE  IncomingInv'
<1> DEFINE took == [receiver EXCEPT !.snap = IF c.stage = "done" THEN c.snap ELSE @]
<1>1. /\ c \in DecisionForm /\ c.request \in Requests /\ c.stage # "sent"
      /\ UNCHANGED <<offers, poll, misplaced>>
  BY DEF IncomingInv, IncomingTypes, Incoming!Answer, DecisionForm
<1>2. /\ took \in Receiver /\ took.previous = receiver.previous /\ took.folder = receiver.folder
      /\ took.folderOf = receiver.folderOf /\ Older(took.snap, offers)
  BY <1>1 DEF IncomingInv, IncomingTypes, SnapshotsAreOlder, Receiver, DecisionForm
<1>3. \/ /\ c.op = "cancel" /\ c.stage = "done" /\ UNCHANGED receiver
         /\ decisions' = (decisions \ {c}) \cup {[c EXCEPT !.op = "refresh", !.stage = "sent"]}
      \/ /\ decisions' = decisions \ {c}
         /\ \E v \in {took, [took EXCEPT !.modal = c.request, !.dismissed = @ \ {c.request}],
                      Incoming!Dismissed(took, c.request)} : Incoming!Render(Incoming!Idle(v))
  BY DEF Incoming!Answer
<1> HIDE DEF took
<1>4. CASE /\ c.op = "cancel" /\ c.stage = "done" /\ UNCHANGED receiver
           /\ decisions' = (decisions \ {c}) \cup {[c EXCEPT !.op = "refresh", !.stage = "sent"]}
  <2> DEFINE b == [c EXCEPT !.op = "refresh", !.stage = "sent"]
  <2>1. b \in DecisionForm /\ b.op = "refresh" /\ b.snap = c.snap
    BY <1>1 DEF DecisionForm
  <2> HIDE DEF b
  <2>2. decisions' = (decisions \ {c}) \cup {b}
    BY <1>4 DEF b
  <2> QED
    BY <1>1, <1>4, <2>1, <2>2 DEF IncomingInv, IncomingTypes, SnapshotsAreOlder, FilledIn,
      FolderIsOfTheRequest, AcceptsAreAsked, Incoming!DestinationIsOfTheRequest
<1>5. ASSUME NEW v, v \in {took, [took EXCEPT !.modal = c.request, !.dismissed = @ \ {c.request}],
                           Incoming!Dismissed(took, c.request)},
             Incoming!Render(Incoming!Idle(v)), decisions' = decisions \ {c}
      PROVE  IncomingInv'
  <2>1. /\ v \in Receiver /\ v.snap = took.snap /\ v.previous = took.previous
        /\ v.folder = took.folder /\ v.folderOf = took.folderOf
    <3> DEFINE Like(u) == /\ u \in Receiver /\ u.snap = took.snap /\ u.previous = took.previous
                          /\ u.folder = took.folder /\ u.folderOf = took.folderOf
    <3>1. Like([took EXCEPT !.modal = c.request, !.dismissed = @ \ {c.request}])
      BY <1>1, <1>2 DEF Receiver
    <3>2. Like(Incoming!Dismissed(took, c.request))
      BY <1>1, <1>2 DEF Receiver, Incoming!Dismissed, Incoming!NoRequest
    <3>3. Like(took)
      BY <1>2
    <3> HIDE DEF Like
    <3>4. Like(v)
      BY <1>5, <3>1, <3>2, <3>3
    <3> QED
      BY <3>4 DEF Like
  <2> DEFINE w == Incoming!Idle(v)
  <2>2. /\ w \in Receiver /\ w.snap = v.snap /\ w.previous = v.previous
        /\ w.folder = v.folder /\ w.folderOf = v.folderOf
    BY <2>1 DEF Receiver, Incoming!Idle
  <2>3. Incoming!Render(w)
    BY <1>5
  <2> HIDE DEF w
  <2>4. /\ poll \in [on : BOOLEAN, read : BOOLEAN, snap : Snapshots] /\ Older(poll.snap, offers)
        /\ receiver.folder = "chosen" <=> receiver.folderOf # 0
    BY DEF IncomingInv, IncomingTypes, SnapshotsAreOlder
  <2> QED
    BY <1>1, <1>2, <1>5, <2>1, <2>2, <2>3, <2>4, RenderKeeps
<1> QED
  BY <1>3, <1>4, <1>5

\* The folder dialog is answered.
LEMMA FolderIsChosen ==
  ASSUME IncomingInv, NEW c \in decisions, Incoming!FolderChosen(c)
  PROVE  IncomingInv'
<1>1. /\ c \in DecisionForm /\ c.request \in Requests /\ decisions' = decisions \ {c}
      /\ UNCHANGED <<offers, poll>> /\ receiver \in Receiver /\ c.request # 0
  BY WorkbenchAssumption DEF IncomingInv, IncomingTypes, Incoming!FolderChosen, DecisionForm
<1>2. CASE UNCHANGED <<receiver, misplaced>>
  BY <1>1, <1>2 DEF IncomingInv, IncomingTypes, SnapshotsAreOlder, FilledIn, FolderIsOfTheRequest,
    AcceptsAreAsked, Incoming!DestinationIsOfTheRequest
<1>3. CASE /\ receiver' = [receiver EXCEPT !.folder = "chosen", !.folderOf = c.request]
           /\ misplaced' = (misplaced \/ receiver.modal # c.request)
  <2>1. /\ receiver' \in Receiver /\ receiver'.snap = receiver.snap
        /\ receiver'.modal = receiver.modal /\ receiver'.previous = receiver.previous
        /\ receiver'.folder = "chosen" /\ receiver'.folderOf = c.request
    BY <1>1, <1>3 DEF Receiver
  <2>2. ~misplaced' => ~misplaced /\ receiver.modal = c.request
    BY <1>3
  <2>3. IncomingTypes' /\ SnapshotsAreOlder' /\ FilledIn' /\ AcceptsAreAsked'
    BY <1>1, <2>1 DEF IncomingInv, IncomingTypes, SnapshotsAreOlder, FilledIn, AcceptsAreAsked
  <2>4. FolderIsOfTheRequest'
    BY <1>1, <2>1, <2>2, <2>3 DEF FolderIsOfTheRequest, FilledIn
  <2>5. Incoming!DestinationIsOfTheRequest'
    BY <1>1, <2>2 DEF IncomingInv, Incoming!DestinationIsOfTheRequest
  <2> QED
    BY <2>3, <2>4, <2>5 DEF IncomingInv
<1> QED
  BY <1>2, <1>3 DEF Incoming!FolderChosen

\* Every step of the dialog, and every step beside it, preserves the invariant.
LEMMA IncomingNext ==
  ASSUME IncomingInv, IncomingStep \/ UNCHANGED incomingVars
  PROVE  IncomingInv'
<1>1. CASE UNCHANGED incomingVars
  BY <1>1 DEF incomingVars, IncomingInv, IncomingTypes, SnapshotsAreOlder, FilledIn,
    FolderIsOfTheRequest, AcceptsAreAsked, Incoming!DestinationIsOfTheRequest
<1>2. CASE Incoming!Next
  BY <1>2, OthersAct, IncomingPolls, IncomingGestures, IncomingServes, IncomingAnswers,
    FolderIsChosen DEF Incoming!Next
<1> QED
  BY <1>1, <1>2 DEF IncomingStep

\* What the user accepts is saved where he said for this very request
\* (DestinationIsOfTheRequest), and tasks and dialog are of their types.
THEOREM FilesGoWhereTheUserSaid == Spec => []DestinationIsOfTheRequest
<1>1. Init => IncomingInv
  BY IncomingInit DEF Init
<1>2. IncomingInv /\ [Next]_vars => IncomingInv'
  BY IncomingNext, Interleaves
<1>3. IncomingInv => DestinationIsOfTheRequest
  BY DEF IncomingInv, DestinationIsOfTheRequest
<1> QED
  BY <1>1, <1>2, <1>3, PTL DEF Spec
----------------------------------------------------------------------------
(* Sending. *)

SendTask == [node : Nodes, status : Sending!SendStatuses]
IsService(s) ==
  /\ s = [online |-> s.online, task |-> s.task, order |-> s.order]
  /\ s.online \subseteq Nodes /\ s.task \in Seq(SendTask)
\* tasks are added, and their nodes stay
Grows(s, later) ==
  \A id \in DOMAIN s.task : id \in DOMAIN later.task /\ later.task[id].node = s.task[id].node
IsSnapshot(snap, s) == IsService(snap) /\ Grows(snap, s)
IsView(v, s) ==
  /\ v = [snap |-> v.snap, selected |-> v.selected, files |-> v.files, step |-> v.step,
          task |-> v.task, known |-> v.known, busy |-> v.busy]
  /\ IsSnapshot(v.snap, s) /\ v.selected \subseteq v.snap.online /\ v.step \in 1..3
  /\ v.known \subseteq Nodes /\ v.task \in [Nodes -> DOMAIN s.task \cup {0}]
IsSender(v, s) == IsView(v, s) /\ (v.files = {} => v.step = 1)
SentNodes(h) == {t.node : t \in h.sent}
IsHandler(h, s) ==
  /\ h = [op |-> h.op, stage |-> h.stage, todo |-> h.todo, at |-> h.at, sent |-> h.sent,
          snap |-> h.snap]
  /\ h.op \in {"files", "discover", "send", "cancel"}
  /\ h.stage \in {"call", "refused", "done", "refresh", "read"}
  /\ h.todo \subseteq Nodes /\ h.sent \subseteq [node : Nodes, id : DOMAIN s.task]
  /\ IsSnapshot(h.snap, s)
  /\ h.op # "send" \/ h.stage \in {"refresh", "read"} => h.todo = {} /\ h.sent = {}
  /\ h.op = "send" /\ h.stage \in {"refresh", "read"} => h.at = 0
  /\ h.op = "send" /\ h.stage \in {"call", "refused", "done"} => h.at \in Nodes \ h.todo
  /\ h.op = "send" /\ h.stage = "done" => h.at \in SentNodes(h)
  /\ h.op = "send" /\ h.stage \in {"call", "refused"} => h.at \notin SentNodes(h)
  /\ h.todo \cap SentNodes(h) = {}
  /\ \A t, u \in h.sent : t.node = u.node => t = u

SendTypes ==
  /\ IsService(service) /\ Len(service.task) <= MaxSends
  /\ IsSender(sender, service) /\ IsSnapshot(sendPoll.snap, service)
  /\ sendPoll = [on |-> sendPoll.on, snap |-> sendPoll.snap]
  /\ \A h \in handlers : IsHandler(h, service)

\* x is the last task that was started for the node, if there is one
IsRow(n, x, s) ==
  \A id \in DOMAIN s.task :
    /\ s.task[id].node = n
    /\ \A other \in DOMAIN s.task : s.task[other].node = n => other <= id
    => x = id
\* what the screen or a handler has recorded is the last start
RowsAreRecorded ==
  /\ \A n \in Nodes \ blurred :
       (\A h \in handlers : n \notin SentNodes(h)) => IsRow(n, sender.task[n], service)
  /\ \A h \in handlers : \A t \in h.sent : t.node \notin blurred => IsRow(t.node, t.id, service)
\* handlers have nodes of their own
HandlersApart ==
  \A g, h \in handlers : \A n \in Nodes \ blurred :
    n \in Sending!Targets(g) /\ n \in Sending!Targets(h) => g = h

SendInv == SendTypes /\ RowsAreRecorded /\ HandlersApart

\* Two fields of a service change.
LEMMA ServiceChanges ==
  ASSUME NEW s, IsService(s), NEW task, NEW order
  PROVE  [s EXCEPT !.task = task, !.order = order] =
           [online |-> s.online, task |-> task, order |-> order]
<1> DEFINE u == [s EXCEPT !.task = task]
<1>1. u = [online |-> s.online, task |-> task, order |-> s.order]
  BY DEF IsService
<1>2. [s EXCEPT !.task = task, !.order = order] = [u EXCEPT !.order = order]
  OBVIOUS
<1> HIDE DEF u
<1> QED
  BY <1>1, <1>2

\* A task goes on, and its node stays what it is.
LEMMA UpdatedIs ==
  ASSUME NEW s, IsService(s), NEW id, NEW status \in Sending!SendStatuses
  PROVE  LET u == Sending!Updated(s, id, status)
         IN /\ IsService(u) /\ DOMAIN u.task = DOMAIN s.task /\ Len(u.task) = Len(s.task)
            /\ Grows(s, u) /\ Grows(u, s) /\ u.online = s.online
<1> DEFINE u == Sending!Updated(s, id, status)
           q == [s.task EXCEPT ![id].status = status]
<1>1. /\ u.task = q /\ u.online = s.online
      /\ u = [online |-> u.online, task |-> u.task, order |-> u.order]
  <2>1. \E order : u = [s EXCEPT !.task = q, !.order = order]
    BY DEF Sending!Updated
  <2> HIDE DEF u, q
  <2> QED
    BY <2>1, ServiceChanges
<1>2. q \in Seq(SendTask) /\ DOMAIN q = DOMAIN s.task /\ Len(q) = Len(s.task)
  <2>1. s.task \in Seq(SendTask)
    BY DEF IsService
  <2>2. \A i \in DOMAIN s.task : s.task[i] \in SendTask
    BY <2>1
  <2>3. \A i \in DOMAIN s.task : [s.task[i] EXCEPT !.status = status] \in SendTask
    BY <2>2 DEF SendTask
  <2>4. CASE id \in DOMAIN s.task
    <3> DEFINE e == [s.task[id] EXCEPT !.status = status]
    <3>1. q = [s.task EXCEPT ![id] = e]
      BY <2>4
    <3>2. e \in SendTask
      BY <2>3, <2>4
    <3> HIDE DEF q, e
    <3> QED
      BY <2>1, <2>4, <3>1, <3>2
  <2>5. CASE id \notin DOMAIN s.task
    <3>1. q = s.task
      BY <2>1, <2>5
    <3> QED
      BY <2>1, <3>1
  <2> QED
    BY <2>4, <2>5
<1>3. \A i \in DOMAIN s.task : q[i].node = s.task[i].node
  <2>1. \A i \in DOMAIN s.task : s.task[i] \in SendTask
    BY DEF IsService
  <2> QED
    BY <2>1 DEF SendTask
<1> QED
  BY <1>1, <1>2, <1>3 DEF IsService, Grows

\* A task is started.
LEMMA StartedIs ==
  ASSUME NEW s, IsService(s), NEW n \in Nodes
  PROVE  LET u == Sending!Started(s, n)
             id == Len(s.task) + 1
         IN /\ IsService(u) /\ DOMAIN u.task = DOMAIN s.task \cup {id} /\ Len(u.task) = id
            /\ Grows(s, u) /\ u.online = s.online /\ u.task[id].node = n
            /\ \A i \in DOMAIN s.task : i < id
<1> DEFINE u == Sending!Started(s, n)
           t == [node |-> n, status |-> "pending"]
           q == Append(s.task, t)
<1>1. /\ u.task = q /\ u.online = s.online
      /\ u = [online |-> u.online, task |-> u.task, order |-> u.order]
  <2>1. \E order : u = [s EXCEPT !.task = q, !.order = order]
    BY DEF Sending!Started
  <2> HIDE DEF u, q
  <2> QED
    BY <2>1, ServiceChanges
<1>2. t \in SendTask /\ t.node = n
  BY DEF SendTask, Sending!SendStatuses
<1>3. s.task \in Seq(SendTask)
  BY DEF IsService
<1> HIDE DEF t
<1>4. /\ q \in Seq(SendTask) /\ Len(q) = Len(s.task) + 1 /\ q[Len(s.task) + 1] = t
      /\ \A i \in DOMAIN s.task : q[i] = s.task[i] /\ i < Len(s.task) + 1
      /\ DOMAIN q = DOMAIN s.task \cup {Len(s.task) + 1}
  BY <1>2, <1>3
<1> QED
  BY <1>1, <1>2, <1>4 DEF IsService, Grows

\* What is known of a service stays so as it grows.
LEMMA GrowsOn ==
  ASSUME NEW s, NEW u, Grows(s, u)
  PROVE  /\ \A snap : IsSnapshot(snap, s) => IsSnapshot(snap, u)
         /\ \A v : IsSender(v, s) => IsSender(v, u)
         /\ \A h : IsHandler(h, s) => IsHandler(h, u)
<1>1. \A id \in DOMAIN s.task : id \in DOMAIN u.task
  BY DEF Grows
<1>2. \A snap : IsSnapshot(snap, s) => IsSnapshot(snap, u)
  BY DEF IsSnapshot, Grows
<1>3. \A v : IsSender(v, s) => IsSender(v, u)
  BY <1>1, <1>2 DEF IsSender, IsView
<1>4. \A h : IsHandler(h, s) => IsHandler(h, u)
  BY <1>1, <1>2 DEF IsHandler
<1> QED
  BY <1>2, <1>3, <1>4

\* A row stays right while no task is started.
LEMMA RowStays ==
  ASSUME NEW s, NEW u, Grows(s, u), Grows(u, s), NEW n, NEW x, IsRow(n, x, s)
  PROVE  IsRow(n, x, u)
BY DEF IsRow, Grows

\* Nothing is sent yet.
LEMMA SendInit == Sending!Init => SendInv
<1> SUFFICES ASSUME Sending!Init PROVE SendInv
  OBVIOUS
<1>1. IsService(Sending!NoSends) /\ Sending!NoSends.task = <<>>
  BY DEF IsService, Sending!NoSends
<1>2. service.task = <<>> /\ DOMAIN service.task = {} /\ Len(service.task) = 0
  BY <1>1 DEF Sending!Init
<1>3. IsSnapshot(Sending!NoSends, service)
  BY <1>1, <1>2 DEF Sending!Init, IsSnapshot, Grows
<1>4. IsSender(sender, service)
  BY <1>3 DEF Sending!Init, IsSender, IsView, Sending!NoTask
<1> QED
  BY <1>1, <1>2, <1>3, <1>4, WorkbenchAssumption DEF Sending!Init, SendInv, SendTypes,
    RowsAreRecorded, HandlersApart, IsRow

\* No task is started, the rows stay, and no handler takes part in the starts of another.
LEMMA SendKeeps ==
  ASSUME SendInv,
         IsService(service'), Grows(service, service'), Grows(service', service),
         Len(service'.task) <= MaxSends,
         IsSender(sender', service'), sender'.task = sender.task,
         IsSnapshot(sendPoll'.snap, service'), sendPoll' = [on |-> sendPoll'.on, snap |-> sendPoll'.snap],
         \A g \in handlers' : IsHandler(g, service'),
         \A g \in handlers' : \A t \in g.sent : \E f \in handlers : t \in f.sent,
         \A f \in handlers : \A t \in f.sent :
           t.node \in blurred' \/ \E g \in handlers' : t.node \in SentNodes(g),
         blurred \subseteq blurred', HandlersApart'
  PROVE  SendInv'
<1>1. SendTypes'
  BY DEF SendTypes
<1>2. ASSUME NEW n \in Nodes \ blurred', \A g \in handlers' : n \notin SentNodes(g)
      PROVE  IsRow(n, sender'.task[n], service')
  <2>1. \A f \in handlers : n \notin SentNodes(f)
    BY <1>2 DEF SentNodes
  <2>2. IsRow(n, sender.task[n], service)
    BY <2>1 DEF SendInv, RowsAreRecorded
  <2> QED
    BY <2>2, RowStays
<1>3. ASSUME NEW g \in handlers', NEW t \in g.sent, t.node \notin blurred'
      PROVE  IsRow(t.node, t.id, service')
  <2>1. IsRow(t.node, t.id, service)
    BY <1>3 DEF SendInv, RowsAreRecorded
  <2> QED
    BY <2>1, RowStays
<1> QED
  BY <1>1, <1>2, <1>3 DEF SendInv, RowsAreRecorded

\* A handler goes on with nodes it had.
LEMMA ApartMoves ==
  ASSUME HandlersApart, NEW h \in handlers, NEW b, handlers' = (handlers \ {h}) \cup {b},
         \A n \in Nodes : n \in Sending!Targets(b) => n \in Sending!Targets(h),
         blurred \subseteq blurred'
  PROVE  HandlersApart'
<1> SUFFICES ASSUME NEW f \in handlers', NEW g \in handlers', NEW n \in Nodes \ blurred',
                    n \in Sending!Targets(f), n \in Sending!Targets(g)
             PROVE  f = g
  BY DEF HandlersApart, Sending!Targets
<1> QED
  BY DEF HandlersApart

\* What the screen's edits leave as it is.
LEMMA RenderedIs ==
  ASSUME NEW s, NEW v, IsView(v, s)
  PROVE  LET w == Sending!Rendered(v)
         IN IsSender(w, s) /\ w.task = v.task
BY DEF IsView, IsSender, Sending!Rendered

\* A gesture changes the screen and not its rows.
LEMMA ViewChanges ==
  ASSUME NEW s, NEW v, IsView(v, s)
  PROVE  /\ \A selected \in SUBSET v.snap.online :
              /\ IsView([v EXCEPT !.selected = selected], s)
              /\ [v EXCEPT !.selected = selected].task = v.task
         /\ \A files : /\ IsView([v EXCEPT !.files = files], s)
                        /\ [v EXCEPT !.files = files].task = v.task
         /\ \A step \in 1..3 : /\ IsView([v EXCEPT !.step = step], s)
                               /\ [v EXCEPT !.step = step].task = v.task
         /\ \A busy : /\ IsView([v EXCEPT !.busy = busy], s)
                       /\ [v EXCEPT !.busy = busy].task = v.task
                       /\ [v EXCEPT !.busy = busy].files = v.files
                       /\ [v EXCEPT !.busy = busy].step = v.step
<1>1. ASSUME NEW selected \in SUBSET v.snap.online
      PROVE  LET w == [v EXCEPT !.selected = selected] IN IsView(w, s) /\ w.task = v.task
  <2> DEFINE w == [v EXCEPT !.selected = selected]
  <2>1. w = [snap |-> v.snap, selected |-> selected, files |-> v.files, step |-> v.step,
             task |-> v.task, known |-> v.known, busy |-> v.busy]
    BY DEF IsView
  <2> HIDE DEF w
  <2> QED
    BY <2>1 DEF IsView
<1>2. ASSUME NEW files
      PROVE  LET w == [v EXCEPT !.files = files] IN IsView(w, s) /\ w.task = v.task
  <2> DEFINE w == [v EXCEPT !.files = files]
  <2>1. w = [snap |-> v.snap, selected |-> v.selected, files |-> files, step |-> v.step,
             task |-> v.task, known |-> v.known, busy |-> v.busy]
    BY DEF IsView
  <2> HIDE DEF w
  <2> QED
    BY <2>1 DEF IsView
<1>3. ASSUME NEW step \in 1..3
      PROVE  LET w == [v EXCEPT !.step = step] IN IsView(w, s) /\ w.task = v.task
  BY DEF IsView
<1>4. ASSUME NEW busy
      PROVE  LET w == [v EXCEPT !.busy = busy]
             IN IsView(w, s) /\ w.task = v.task /\ w.files = v.files /\ w.step = v.step
  <2> DEFINE w == [v EXCEPT !.busy = busy]
  <2>1. w = [snap |-> v.snap, selected |-> v.selected, files |-> v.files, step |-> v.step,
             task |-> v.task, known |-> v.known, busy |-> busy]
    BY DEF IsView
  <2> HIDE DEF w
  <2> QED
    BY <2>1 DEF IsView
<1> QED
  BY <1>1, <1>2, <1>3, <1>4

\* A snapshot may follow up the rows of the wizard.
LEMMA SnapshotIsApplied ==
  ASSUME NEW s, NEW v, IsView(v, s), NEW snap, IsSnapshot(snap, s)
  PROVE  LET w == Sending!applySnapshot(v, snap)
         IN IsView(w, s) /\ w.task = v.task
<1> DEFINE u == [v EXCEPT !.snap = snap]
           w == [u EXCEPT !.selected = @ \cap snap.online]
<1>1. u = [snap |-> snap, selected |-> v.selected, files |-> v.files, step |-> v.step,
           task |-> v.task, known |-> v.known, busy |-> v.busy]
  BY DEF IsView
<1>2. Sending!applySnapshot(v, snap) = w
  BY DEF Sending!applySnapshot
<1> HIDE DEF u
<1>3. w = [snap |-> snap, selected |-> v.selected \cap snap.online, files |-> v.files,
           step |-> v.step, task |-> v.task, known |-> v.known, busy |-> v.busy]
  BY <1>1
<1> HIDE DEF w
<1> QED
  BY <1>2, <1>3 DEF IsView

\* The service, the poll or a gesture: the handlers go on.
LEMMA SendOthers ==
  ASSUME SendInv,
         IsService(service'), Grows(service, service'), Grows(service', service),
         Len(service'.task) <= MaxSends,
         IsSender(sender', service'), sender'.task = sender.task,
         IsSnapshot(sendPoll'.snap, service'), sendPoll' = [on |-> sendPoll'.on, snap |-> sendPoll'.snap],
         UNCHANGED <<handlers, blurred>>
  PROVE  SendInv'
<1>1. HandlersApart'
  BY DEF SendInv, HandlersApart
<1>2. \A h \in handlers : IsHandler(h, service')
  BY GrowsOn DEF SendInv, SendTypes
<1>3. \A f \in handlers : \A t \in f.sent : t.node \in SentNodes(f)
  BY DEF SentNodes
<1> QED
  BY <1>1, <1>2, <1>3, SendKeeps

\* The service stays as it is.
LEMMA ServiceStands ==
  ASSUME SendInv
  PROVE  /\ IsService(service) /\ Grows(service, service) /\ Len(service.task) <= MaxSends
         /\ IsSnapshot(service, service) /\ IsSender(sender, service) /\ IsView(sender, service)
         /\ IsSnapshot(sendPoll.snap, service)
         /\ sendPoll = [on |-> sendPoll.on, snap |-> sendPoll.snap]
BY DEF SendInv, SendTypes, Grows, IsSnapshot, IsSender

\* Nodes come and go, tasks go on.
LEMMA NetworkActs ==
  ASSUME SendInv,
         \/ \E n \in Nodes : Sending!NodeComesOrGoes(n)
         \/ \E id \in Sending!SendIds : Sending!Progress(id)
  PROVE  SendInv'
<1>0. UNCHANGED <<sender, sendPoll, handlers, blurred>>
  BY DEF Sending!NodeComesOrGoes, Sending!Progress, Sending!Event
<1>1. ASSUME NEW n \in Nodes, Sending!NodeComesOrGoes(n)
      PROVE  SendInv'
  <2> DEFINE online == IF n \in service.online THEN service.online \ {n} ELSE service.online \cup {n}
  <2>1. service' = [online |-> online, task |-> service.task, order |-> service.order]
    <3>1. service' = [service EXCEPT !.online = online]
      BY <1>1 DEF Sending!NodeComesOrGoes
    <3> QED
      BY <3>1, ServiceStands DEF IsService
  <2>2. IsService(service') /\ service'.task = service.task
    BY <2>1, ServiceStands DEF IsService
  <2>3. Grows(service, service') /\ Grows(service', service)
    BY <2>2 DEF Grows
  <2> QED
    BY <1>0, <2>2, <2>3, ServiceStands, GrowsOn, SendOthers
<1>2. ASSUME NEW id \in Sending!SendIds, Sending!Progress(id)
      PROVE  SendInv'
  <2>1. PICK status \in Sending!SendStatuses : service' = Sending!Updated(service, id, status)
    BY <1>2 DEF Sending!Progress, Sending!SendStatuses
  <2>2. /\ IsService(service') /\ Grows(service, service') /\ Grows(service', service)
        /\ Len(service'.task) = Len(service.task)
    BY <2>1, ServiceStands, UpdatedIs
  <2> QED
    BY <1>0, <2>2, ServiceStands, GrowsOn, SendOthers
<1> QED
  BY <1>1, <1>2

\* The poll brings a snapshot.
LEMMA SendPolls ==
  ASSUME SendInv, Sending!ServePoll \/ Sending!PollAnswer
  PROVE  SendInv'
<1>1. UNCHANGED <<service, handlers, blurred>>
  BY DEF Sending!ServePoll, Sending!PollAnswer
<1>2. IsSnapshot(Sending!NoSends, service)
  BY DEF IsSnapshot, IsService, Grows, Sending!NoSends
<1>3. CASE Sending!ServePoll
  <2>1. sendPoll' = [on |-> TRUE, snap |-> service] /\ UNCHANGED sender
    BY <1>3 DEF Sending!ServePoll
  <2>2. sendPoll'.snap = service /\ sendPoll' = [on |-> sendPoll'.on, snap |-> sendPoll'.snap]
    BY <2>1
  <2> QED
    BY <1>1, <2>1, <2>2, ServiceStands, SendOthers
<1>4. CASE Sending!PollAnswer
  <2>1. /\ sendPoll' = [on |-> FALSE, snap |-> Sending!NoSends]
        /\ \/ sender' = sender
           \/ sender' = Sending!Rendered(Sending!applySnapshot(sender, sendPoll.snap))
    BY <1>4 DEF Sending!PollAnswer
  <2>2. sendPoll'.snap = Sending!NoSends /\ sendPoll' = [on |-> sendPoll'.on, snap |-> sendPoll'.snap]
    BY <2>1
  <2>3. IsSender(sender', service) /\ sender'.task = sender.task
    BY <2>1, ServiceStands, SnapshotIsApplied, RenderedIs
  <2> QED
    BY <1>1, <1>2, <2>2, <2>3, ServiceStands, SendOthers
<1> QED
  BY <1>3, <1>4

\* The gestures of the wizard.
LEMMA SendGestures ==
  ASSUME SendInv,
         \/ \E n \in Nodes : Sending!toggleTransferNode(n) \/ Sending!focusNodeTransfer(n)
         \/ \E step \in 1..3 : Sending!handleGoToTransferStep(step)
         \/ Sending!removeSelectedTransferFile
  PROVE  SendInv'
<1>1. ASSUME NEW v, IsView(v, service), v.task = sender.task, Sending!Gesture(v)
      PROVE  SendInv'
  <2>1. sender' = Sending!Rendered(v) /\ UNCHANGED <<service, sendPoll, handlers, blurred>>
    BY <1>1 DEF Sending!Gesture
  <2>2. IsSender(sender', service) /\ sender'.task = sender.task
    BY <1>1, <2>1, RenderedIs
  <2> QED
    BY <2>1, <2>2, ServiceStands, SendOthers
<1>2. ASSUME NEW n \in Nodes, Sending!toggleTransferNode(n)
      PROVE  SendInv'
  <2> DEFINE now == IF n \in sender.selected THEN sender.selected \ {n} ELSE sender.selected \cup {n}
             v == [sender EXCEPT !.selected = now]
  <2>1. Sending!Gesture(v) /\ n \in sender.snap.online
    BY <1>2 DEF Sending!toggleTransferNode
  <2>2. now \in SUBSET sender.snap.online
    BY <2>1, ServiceStands DEF IsView
  <2> HIDE DEF now
  <2>3. IsView(v, service) /\ v.task = sender.task
    BY <2>2, ServiceStands, ViewChanges
  <2> HIDE DEF v
  <2> QED
    BY <1>1, <2>1, <2>3
<1>3. ASSUME NEW n \in Nodes, Sending!focusNodeTransfer(n)
      PROVE  SendInv'
  <2> DEFINE now == sender.selected \cup {n}
             step == IF sender.files # {} THEN 2 ELSE 1
             u == [sender EXCEPT !.selected = now]
             v == [u EXCEPT !.step = step]
  <2>1. Sending!Gesture(v) /\ n \in sender.snap.online
    BY <1>3 DEF Sending!focusNodeTransfer
  <2>2. now \in SUBSET sender.snap.online /\ step \in 1..3
    BY <2>1, ServiceStands DEF IsView
  <2> HIDE DEF now, step
  <2>3. IsView(u, service) /\ u.task = sender.task
    BY <2>2, ServiceStands, ViewChanges
  <2> HIDE DEF u
  <2>4. IsView(v, service) /\ v.task = sender.task
    BY <2>2, <2>3, ViewChanges
  <2> HIDE DEF v
  <2> QED
    BY <1>1, <2>1, <2>4
<1>4. ASSUME NEW step \in 1..3, Sending!handleGoToTransferStep(step)
      PROVE  SendInv'
  <2> DEFINE v == [sender EXCEPT !.step = step]
  <2>1. Sending!Gesture(v)
    BY <1>4 DEF Sending!handleGoToTransferStep
  <2>2. IsView(v, service) /\ v.task = sender.task
    BY ServiceStands, ViewChanges
  <2> HIDE DEF v
  <2> QED
    BY <1>1, <2>1, <2>2
<1>5. CASE Sending!removeSelectedTransferFile
  <2> DEFINE v == [sender EXCEPT !.files = {}]
  <2>1. Sending!Gesture(v)
    BY <1>5 DEF Sending!removeSelectedTransferFile
  <2>2. IsView(v, service) /\ v.task = sender.task
    BY ServiceStands, ViewChanges
  <2> HIDE DEF v
  <2> QED
    BY <1>1, <2>1, <2>2
<1> QED
  BY <1>2, <1>3, <1>4, <1>5

\* A handler starts: the nodes it shares with another are set aside.
LEMMA HandlerStarts ==
  ASSUME SendInv, NEW h, NEW v, Sending!Call(h, v), IsHandler(h, service), h.sent = {},
         IsSender(v, service), v.task = sender.task
  PROVE  SendInv'
<1>1. /\ handlers' = handlers \cup {h} /\ sender' = v /\ UNCHANGED <<service, sendPoll>>
      /\ blurred' = blurred \cup (Sending!Targets(h) \cap UNION {Sending!Targets(g) : g \in handlers})
  BY DEF Sending!Call
<1>2. HandlersApart'
  <2> SUFFICES ASSUME NEW f \in handlers', NEW g \in handlers', NEW n \in Nodes \ blurred',
                      n \in Sending!Targets(f), n \in Sending!Targets(g)
               PROVE  f = g
    BY DEF HandlersApart, Sending!Targets
  <2> QED
    BY <1>1 DEF SendInv, HandlersApart
<1>3. /\ \A g \in handlers' : IsHandler(g, service)
      /\ \A g \in handlers' : \A t \in g.sent : \E f \in handlers : t \in f.sent
      /\ \A f \in handlers : \A t \in f.sent : \E g \in handlers' : t.node \in SentNodes(g)
  BY <1>1 DEF SendInv, SendTypes, SentNodes
<1> QED
  BY <1>1, <1>2, <1>3, ServiceStands, SendKeeps

\* A handler is started.
LEMMA SendCalls ==
  ASSUME SendInv,
         \/ Sending!handleChooseTransferFiles \/ Sending!handleRefreshDiscovery
         \/ Sending!handleStartDirectSend
         \/ \E n \in Nodes : Sending!handleRetryTransferNode(n) \/ Sending!handleCancelTask(n)
  PROVE  SendInv'
<1> DEFINE v == [sender EXCEPT !.busy = TRUE]
           H(op, stage, todo, at) == [op |-> op, stage |-> stage, todo |-> todo, at |-> at,
                                      sent |-> {}, snap |-> Sending!NoSends]
<1>1. IsSender(v, service) /\ v.task = sender.task
  BY ServiceStands, ViewChanges DEF IsSender
<1>2. IsSnapshot(Sending!NoSends, service)
  BY DEF IsSnapshot, IsService, Grows, Sending!NoSends
<1> HIDE DEF v
<1>3. ASSUME Sending!handleChooseTransferFiles
      PROVE  SendInv'
  <2>1. Sending!Call(H("files", "call", {}, 0), sender)
    BY <1>3 DEF Sending!handleChooseTransferFiles, Sending!Handler, Sending!NoTask
  <2>2. IsHandler(H("files", "call", {}, 0), service)
    BY <1>2 DEF IsHandler, SentNodes
  <2> QED
    BY <2>1, <2>2, ServiceStands, HandlerStarts
<1>4. ASSUME Sending!handleRefreshDiscovery
      PROVE  SendInv'
  <2>1. Sending!Call(H("discover", "refresh", {}, 0), v)
    BY <1>4 DEF Sending!handleRefreshDiscovery, Sending!Handler, Sending!NoTask, v
  <2>2. IsHandler(H("discover", "refresh", {}, 0), service)
    BY <1>2 DEF IsHandler, SentNodes
  <2> QED
    BY <1>1, <2>1, <2>2, HandlerStarts
<1>5. ASSUME Sending!handleStartDirectSend
      PROVE  SendInv'
  <2>1. PICK first \in sender.selected :
          Sending!Call(H("send", "call", sender.selected \ {first}, first), v)
    <3>1. PICK first \in sender.selected :
            Sending!Call([Sending!Handler("send", sender.selected \ {first}) EXCEPT !.at = first], v)
      BY <1>5 DEF Sending!handleStartDirectSend, v
    <3>2. [Sending!Handler("send", sender.selected \ {first}) EXCEPT !.at = first]
            = H("send", "call", sender.selected \ {first}, first)
      BY DEF Sending!Handler
    <3> QED
      BY <3>1, <3>2
  <2>2. sender.selected \subseteq Nodes
    BY ServiceStands DEF IsView, IsSnapshot, IsService
  <2>3. IsHandler(H("send", "call", sender.selected \ {first}, first), service)
    BY <1>2, <2>2 DEF IsHandler, SentNodes
  <2> QED
    BY <1>1, <2>1, <2>3, HandlerStarts
<1>6. ASSUME NEW n \in Nodes, Sending!handleRetryTransferNode(n)
      PROVE  SendInv'
  <2>1. Sending!Call(H("send", "call", {}, n), v)
    BY <1>6 DEF Sending!handleRetryTransferNode, Sending!Handler, v
  <2>2. IsHandler(H("send", "call", {}, n), service)
    BY <1>2 DEF IsHandler, SentNodes
  <2> QED
    BY <1>1, <2>1, <2>2, HandlerStarts
<1>7. ASSUME NEW n \in Nodes, Sending!handleCancelTask(n)
      PROVE  SendInv'
  <2> DEFINE at == Sending!RowTask(sender, n)
  <2>1. Sending!Call(H("cancel", "call", {}, at), v)
    BY <1>7 DEF Sending!handleCancelTask, Sending!Handler, v
  <2>2. IsHandler(H("cancel", "call", {}, at), service)
    BY <1>2 DEF IsHandler, SentNodes
  <2> QED
    BY <1>1, <2>1, <2>2, HandlerStarts
<1> QED
  BY <1>3, <1>4, <1>5, <1>6, <1>7

\* What the answers make of a handler.
LEMMA HandlerTurns ==
  ASSUME NEW h, h = [op |-> h.op, stage |-> h.stage, todo |-> h.todo, at |-> h.at,
                     sent |-> h.sent, snap |-> h.snap], NEW x, NEW y
  PROVE  /\ [h EXCEPT !.stage = "refused"] =
              [op |-> h.op, stage |-> "refused", todo |-> h.todo, at |-> h.at, sent |-> h.sent,
               snap |-> h.snap]
         /\ [h EXCEPT !.stage = "read", !.snap = x] =
              [op |-> h.op, stage |-> "read", todo |-> h.todo, at |-> h.at, sent |-> h.sent,
               snap |-> x]
         /\ [h EXCEPT !.stage = "done", !.sent = x] =
              [op |-> h.op, stage |-> "done", todo |-> h.todo, at |-> h.at, sent |-> x,
               snap |-> h.snap]
         /\ [h EXCEPT !.stage = "call", !.at = y, !.todo = h.todo \ {y}] =
              [op |-> h.op, stage |-> "call", todo |-> h.todo \ {y}, at |-> y, sent |-> h.sent,
               snap |-> h.snap]
         /\ Sending!Refresh(h) =
              [op |-> h.op, stage |-> "refresh", todo |-> {}, at |-> 0, sent |-> h.sent,
               snap |-> h.snap]
         /\ [Sending!Refresh(h) EXCEPT !.sent = {}] =
              [op |-> h.op, stage |-> "refresh", todo |-> {}, at |-> 0, sent |-> {},
               snap |-> h.snap]
<1>1. [h EXCEPT !.stage = "refused"] =
         [op |-> h.op, stage |-> "refused", todo |-> h.todo, at |-> h.at, sent |-> h.sent,
          snap |-> h.snap]
  OBVIOUS
<1>2. [h EXCEPT !.stage = "read", !.snap = x] =
         [op |-> h.op, stage |-> "read", todo |-> h.todo, at |-> h.at, sent |-> h.sent,
          snap |-> x]
  <2> DEFINE u == [h EXCEPT !.stage = "read"]
  <2>1. u = [op |-> h.op, stage |-> "read", todo |-> h.todo, at |-> h.at, sent |-> h.sent,
             snap |-> h.snap]
    OBVIOUS
  <2>2. [h EXCEPT !.stage = "read", !.snap = x] = [u EXCEPT !.snap = x]
    OBVIOUS
  <2> HIDE DEF u
  <2> QED
    BY <2>1, <2>2
<1>3. [h EXCEPT !.stage = "done", !.sent = x] =
         [op |-> h.op, stage |-> "done", todo |-> h.todo, at |-> h.at, sent |-> x,
          snap |-> h.snap]
  <2> DEFINE u == [h EXCEPT !.stage = "done"]
  <2>1. u = [op |-> h.op, stage |-> "done", todo |-> h.todo, at |-> h.at, sent |-> h.sent,
             snap |-> h.snap]
    OBVIOUS
  <2>2. [h EXCEPT !.stage = "done", !.sent = x] = [u EXCEPT !.sent = x]
    OBVIOUS
  <2> HIDE DEF u
  <2> QED
    BY <2>1, <2>2
<1>4. /\ [h EXCEPT !.stage = "call", !.at = y, !.todo = h.todo \ {y}] =
         [op |-> h.op, stage |-> "call", todo |-> h.todo \ {y}, at |-> y, sent |-> h.sent,
          snap |-> h.snap]
      /\ [h EXCEPT !.stage = "refresh", !.todo = {}, !.at = 0] =
         [op |-> h.op, stage |-> "refresh", todo |-> {}, at |-> 0, sent |-> h.sent,
          snap |-> h.snap]
  <2> DEFINE u == [h EXCEPT !.stage = "call"]
             v == [u EXCEPT !.at = y]
             p == [h EXCEPT !.stage = "refresh"]
             q == [p EXCEPT !.todo = {}]
  <2>1. /\ u = [op |-> h.op, stage |-> "call", todo |-> h.todo, at |-> h.at, sent |-> h.sent,
                snap |-> h.snap]
        /\ p = [op |-> h.op, stage |-> "refresh", todo |-> h.todo, at |-> h.at, sent |-> h.sent,
                snap |-> h.snap]
    OBVIOUS
  <2>2. /\ [h EXCEPT !.stage = "call", !.at = y, !.todo = h.todo \ {y}] = [v EXCEPT !.todo = h.todo \ {y}]
        /\ [h EXCEPT !.stage = "refresh", !.todo = {}, !.at = 0] = [q EXCEPT !.at = 0]
    OBVIOUS
  <2> HIDE DEF u, p
  <2>3. /\ v = [op |-> h.op, stage |-> "call", todo |-> h.todo, at |-> y, sent |-> h.sent,
                snap |-> h.snap]
        /\ q = [op |-> h.op, stage |-> "refresh", todo |-> {}, at |-> h.at, sent |-> h.sent,
                snap |-> h.snap]
    BY <2>1
  <2> HIDE DEF v, q
  <2> QED
    BY <2>2, <2>3
<1>5. Sending!Refresh(h) =
         [op |-> h.op, stage |-> "refresh", todo |-> {}, at |-> 0, sent |-> h.sent,
          snap |-> h.snap]
  BY <1>4 DEF Sending!Refresh, Sending!NoTask
<1>6. [Sending!Refresh(h) EXCEPT !.sent = {}] =
         [op |-> h.op, stage |-> "refresh", todo |-> {}, at |-> 0, sent |-> {},
          snap |-> h.snap]
  <2> DEFINE r == Sending!Refresh(h)
  <2>1. r = [op |-> h.op, stage |-> "refresh", todo |-> {}, at |-> 0, sent |-> h.sent,
             snap |-> h.snap]
    BY <1>5
  <2> HIDE DEF r
  <2>2. [r EXCEPT !.sent = {}] = [op |-> h.op, stage |-> "refresh", todo |-> {}, at |-> 0,
                                  sent |-> {}, snap |-> h.snap]
    BY <2>1
  <2> QED
    BY <2>2 DEF r
<1> QED
  BY <1>1, <1>2, <1>3, <1>4, <1>5, <1>6

\* Rows when a task is started.
LEMMA RowsMove ==
  ASSUME NEW s, IsService(s), NEW n \in Nodes
  PROVE  LET u == Sending!Started(s, n)
         IN /\ IsRow(n, Len(s.task) + 1, u)
            /\ \A m, x : m # n /\ IsRow(m, x, s) => IsRow(m, x, u)
<1> DEFINE u == Sending!Started(s, n)
           k == Len(s.task) + 1
<1>1. /\ IsService(u) /\ DOMAIN u.task = DOMAIN s.task \cup {k}
      /\ Grows(s, u) /\ u.task[k].node = n /\ \A i \in DOMAIN s.task : i < k
  BY StartedIs
<1>2. k \in Nat /\ DOMAIN s.task \subseteq Nat
  BY DEF IsService
<1> HIDE DEF u, k
<1>3. IsRow(n, k, u)
  BY <1>1, <1>2 DEF IsRow
<1>4. ASSUME NEW m, NEW x, m # n, IsRow(m, x, s)
      PROVE  IsRow(m, x, u)
  BY <1>1, <1>4 DEF IsRow, Grows
<1> QED
  BY <1>3, <1>4 DEF u, k

\* A handler goes on and no task is started.
LEMMA HandlerGoesOn ==
  ASSUME SendInv, NEW h \in handlers, NEW g, handlers' = (handlers \ {h}) \cup {g},
         g.sent = h.sent, \A n \in Nodes : n \in Sending!Targets(g) => n \in Sending!Targets(h),
         IsService(service'), Grows(service, service'), Grows(service', service),
         Len(service'.task) <= MaxSends, IsHandler(g, service'),
         UNCHANGED <<sender, sendPoll, blurred>>
  PROVE  SendInv'
<1>1. HandlersApart'
  BY ApartMoves DEF SendInv
<1>2. \A f \in handlers' : IsHandler(f, service')
  BY GrowsOn DEF SendInv, SendTypes
<1>3. /\ \A f \in handlers' : \A t \in f.sent : \E e \in handlers : t \in e.sent
      /\ \A e \in handlers : \A t \in e.sent : \E f \in handlers' : t.node \in SentNodes(f)
  BY DEF SentNodes
<1>4. IsSender(sender', service') /\ IsSnapshot(sendPoll'.snap, service')
  BY ServiceStands, GrowsOn
<1> QED
  BY <1>1, <1>2, <1>3, <1>4, ServiceStands, SendKeeps

\* A handler ends and its starts, if it has any, are set aside.
LEMMA HandlerEnds ==
  ASSUME SendInv, NEW h \in handlers, handlers' = handlers \ {h},
         IsSender(sender', service), sender'.task = sender.task,
         blurred' = blurred \cup SentNodes(h), UNCHANGED <<service, sendPoll>>
  PROVE  SendInv'
<1>1. HandlersApart'
  BY DEF SendInv, HandlersApart, Sending!Targets
<1>2. /\ \A f \in handlers' : \A t \in f.sent : \E e \in handlers : t \in e.sent
      /\ \A e \in handlers : \A t \in e.sent :
           t.node \in blurred' \/ \E f \in handlers' : t.node \in SentNodes(f)
      /\ \A f \in handlers' : IsHandler(f, service)
  BY DEF SentNodes, SendInv, SendTypes
<1> QED
  BY <1>1, <1>2, ServiceStands, SendKeeps

\* The service starts a task: it is the last one for its node.
LEMMA TaskStarts ==
  ASSUME SendInv, NEW h \in handlers, h.op = "send", h.stage = "call",
         Len(service.task) < MaxSends, service' = Sending!Started(service, h.at),
         NEW t, t = [node |-> h.at, id |-> Len(service.task) + 1],
         NEW g, g = [op |-> h.op, stage |-> "done", todo |-> h.todo, at |-> h.at,
                     sent |-> h.sent \cup {t}, snap |-> h.snap],
         handlers' = (handlers \ {h}) \cup {g}, UNCHANGED <<sender, sendPoll, blurred>>
  PROVE  SendInv'
<1> DEFINE k == Len(service.task) + 1
<1>1. IsHandler(h, service) /\ IsService(service)
  BY DEF SendInv, SendTypes
<1>2. /\ h.at \in Nodes \ h.todo /\ h.at \notin SentNodes(h) /\ h.todo \subseteq Nodes
      /\ h.todo \cap SentNodes(h) = {} /\ \A x, y \in h.sent : x.node = y.node => x = y
      /\ h.sent \subseteq [node : Nodes, id : DOMAIN service.task]
  BY <1>1 DEF IsHandler
<1>3. /\ IsService(service') /\ DOMAIN service'.task = DOMAIN service.task \cup {k}
      /\ Len(service'.task) = k /\ Grows(service, service')
  BY <1>1, <1>2, StartedIs
<1>4. Len(service'.task) <= MaxSends
  BY <1>1, <1>3, WorkbenchAssumption DEF IsService
<1>5. /\ t.node = h.at /\ t.id = k /\ g.op = "send" /\ g.stage = "done" /\ g.at = h.at
      /\ g.todo = h.todo /\ g.sent = h.sent \cup {t} /\ g.snap = h.snap
  OBVIOUS
<1>6. IsHandler(g, service')
  <2>1. g = [op |-> g.op, stage |-> g.stage, todo |-> g.todo, at |-> g.at, sent |-> g.sent,
             snap |-> g.snap]
    BY <1>5
  <2>2. IsSnapshot(g.snap, service')
    BY <1>1, <1>3, <1>5, GrowsOn DEF IsHandler
  <2>3. g.sent \subseteq [node : Nodes, id : DOMAIN service'.task]
    <3>1. t \in [node : Nodes, id : DOMAIN service'.task]
      BY <1>2, <1>3
    <3>2. h.sent \subseteq [node : Nodes, id : DOMAIN service'.task]
      BY <1>2, <1>3
    <3> QED
      BY <1>5, <3>1, <3>2
  <2>4. SentNodes(g) = SentNodes(h) \cup {h.at}
    BY <1>5 DEF SentNodes
  <2>5. \A x, y \in g.sent : x.node = y.node => x = y
    BY <1>2, <1>5 DEF SentNodes
  <2>6. g.todo \cap SentNodes(g) = {} /\ g.at \in SentNodes(g) /\ g.at \in Nodes \ g.todo
    BY <1>2, <1>5, <2>4
  <2> HIDE DEF k
  <2> QED
    BY <1>2, <1>5, <2>1, <2>2, <2>3, <2>5, <2>6 DEF IsHandler
<1>7. SendTypes'
  <2>1. \A f \in handlers' : IsHandler(f, service')
    BY <1>3, <1>6, GrowsOn DEF SendInv, SendTypes
  <2>2. /\ IsSender(sender', service') /\ IsSnapshot(sendPoll'.snap, service')
        /\ sendPoll' = [on |-> sendPoll'.on, snap |-> sendPoll'.snap]
    BY <1>3, ServiceStands, GrowsOn
  <2> QED
    BY <1>3, <1>4, <2>1, <2>2 DEF SendTypes
<1>8. \A n \in Nodes : n \in Sending!Targets(g) => n \in Sending!Targets(h)
  BY <1>5 DEF Sending!Targets
<1>9. HandlersApart'
  BY <1>8, ApartMoves DEF SendInv
<1> HIDE DEF k
<1>10. /\ IsRow(h.at, k, service')
       /\ \A m, x : m # h.at /\ IsRow(m, x, service) => IsRow(m, x, service')
  BY <1>1, <1>2, RowsMove DEF k
<1>11. ASSUME NEW n \in Nodes \ blurred', \A f \in handlers' : n \notin SentNodes(f)
       PROVE  IsRow(n, sender'.task[n], service')
  <2>1. n # h.at /\ n \notin SentNodes(h)
    BY <1>5, <1>11 DEF SentNodes
  <2>2. \A f \in handlers : n \notin SentNodes(f)
    BY <1>11, <2>1
  <2>3. IsRow(n, sender.task[n], service)
    BY <2>2 DEF SendInv, RowsAreRecorded
  <2> QED
    BY <1>10, <2>1, <2>3
<1>12. ASSUME NEW f \in handlers', NEW u \in f.sent, u.node \notin blurred'
       PROVE  IsRow(u.node, u.id, service')
  <2>1. CASE u = t
    BY <1>5, <1>10, <2>1
  <2>2. CASE u # t
    <3>1. PICK e \in handlers : u \in e.sent /\ (f = g => e = h) /\ (f # g => e = f /\ e # h)
      BY <1>5, <2>2
    <3>2. IsRow(u.node, u.id, service) /\ u.node \in SentNodes(e)
      BY <1>12, <3>1 DEF SendInv, RowsAreRecorded, SentNodes
    <3>3. u.node # h.at
      <4>1. CASE e = h
        BY <1>2, <3>2, <4>1
      <4>2. CASE e # h
        <5>1. h.at \in Sending!Targets(h)
          BY DEF Sending!Targets
        <5>2. u.node \in Sending!Targets(e)
          BY <3>2 DEF Sending!Targets, SentNodes
        <5> QED
          BY <1>2, <1>12, <4>2, <5>1, <5>2 DEF SendInv, HandlersApart
      <4> QED
        BY <4>1, <4>2
    <3> QED
      BY <1>10, <3>2, <3>3
  <2> QED
    BY <2>1, <2>2
<1> QED
  BY <1>7, <1>9, <1>11, <1>12 DEF SendInv, RowsAreRecorded

\* The ids a handler brings become the rows of its nodes.
LEMMA RecordedIs ==
  ASSUME NEW s, NEW v, IsView(v, s), NEW sent \in SUBSET [node : Nodes, id : DOMAIN s.task],
         \A x, y \in sent : x.node = y.node => x = y
  PROVE  LET w == Sending!Recorded(v, sent)
         IN /\ IsView(w, s)
            /\ \A t \in sent : w.task[t.node] = t.id
            /\ \A n \in Nodes : (\A t \in sent : t.node # n) => w.task[n] = v.task[n]
<1> DEFINE now == [n \in Nodes |-> IF \E t \in sent : t.node = n
                                 THEN (CHOOSE t \in sent : t.node = n).id ELSE v.task[n]]
           known == v.known \cup {t.node : t \in sent}
           w == Sending!Recorded(v, sent)
<1>1. w = [snap |-> v.snap, selected |-> v.selected, files |-> v.files, step |-> 3,
           task |-> now, known |-> known, busy |-> v.busy]
  <2> DEFINE a == [v EXCEPT !.task = now]
             b == [a EXCEPT !.known = known]
  <2>1. w = [v EXCEPT !.task = now, !.known = known, !.step = 3]
    BY DEF Sending!Recorded, Sending!NoTask
  <2> HIDE DEF w, now, known
  <2>2. [v EXCEPT !.task = now, !.known = known, !.step = 3] = [b EXCEPT !.step = 3]
    OBVIOUS
  <2>3. a = [snap |-> v.snap, selected |-> v.selected, files |-> v.files, step |-> v.step,
             task |-> now, known |-> v.known, busy |-> v.busy]
    BY DEF IsView
  <2> HIDE DEF a
  <2>4. b = [snap |-> v.snap, selected |-> v.selected, files |-> v.files, step |-> v.step,
             task |-> now, known |-> known, busy |-> v.busy]
    BY <2>3
  <2> HIDE DEF b
  <2> QED
    BY <2>1, <2>2, <2>4
<1> HIDE DEF w
<1>2. \A t \in sent : now[t.node] = t.id /\ t.node \in Nodes /\ t.id \in DOMAIN s.task
  <2> SUFFICES ASSUME NEW t \in sent
               PROVE  now[t.node] = t.id /\ t.node \in Nodes /\ t.id \in DOMAIN s.task
    OBVIOUS
  <2>1. (CHOOSE u \in sent : u.node = t.node) = t
    OBVIOUS
  <2> QED
    BY <2>1
<1>3. \A n \in Nodes : (\A t \in sent : t.node # n) => now[n] = v.task[n]
  OBVIOUS
<1>4. now \in [Nodes -> DOMAIN s.task \cup {0}]
  <2>1. \A n \in Nodes : now[n] \in DOMAIN s.task \cup {0}
    <3> SUFFICES ASSUME NEW n \in Nodes
                 PROVE  now[n] \in DOMAIN s.task \cup {0}
      OBVIOUS
    <3>1. CASE \E t \in sent : t.node = n
      BY <1>2, <3>1
    <3>2. CASE ~\E t \in sent : t.node = n
      BY <3>2 DEF IsView
    <3> QED
      BY <3>1, <3>2
  <2> QED
    BY <2>1
<1>5. known \subseteq Nodes
  BY <1>2 DEF IsView
<1> HIDE DEF now, known
<1> QED
  BY <1>1, <1>2, <1>3, <1>4, <1>5 DEF IsView, w

\* All nodes of a handler have their task: the screen takes them over.
LEMMA SendsAreRecorded ==
  ASSUME SendInv, NEW h \in handlers, h.op = "send", h.stage = "done", h.todo = {},
         NEW g, g = [op |-> h.op, stage |-> "refresh", todo |-> {}, at |-> 0, sent |-> {},
                     snap |-> h.snap],
         handlers' = (handlers \ {h}) \cup {g},
         sender' = Sending!Rendered(Sending!Recorded(sender, h.sent)),
         UNCHANGED <<service, sendPoll, blurred>>
  PROVE  SendInv'
<1>1. /\ IsHandler(h, service)
      /\ g.op = "send" /\ g.stage = "refresh" /\ g.todo = {} /\ g.at = 0 /\ g.sent = {}
      /\ g.snap = h.snap
  BY DEF SendInv, SendTypes
<1>2. /\ \A x, y \in h.sent : x.node = y.node => x = y
      /\ h.sent \in SUBSET [node : Nodes, id : DOMAIN service.task]
      /\ IsSnapshot(h.snap, service)
  BY <1>1 DEF IsHandler
<1>3. IsHandler(g, service)
  BY <1>1, <1>2 DEF IsHandler, SentNodes
<1> DEFINE w == Sending!Recorded(sender, h.sent)
<1>4. /\ IsView(w, service) /\ \A t \in h.sent : w.task[t.node] = t.id
      /\ \A n \in Nodes : (\A t \in h.sent : t.node # n) => w.task[n] = sender.task[n]
  BY <1>2, ServiceStands, RecordedIs
<1> HIDE DEF w
<1>5. IsSender(sender', service) /\ sender'.task = w.task
  BY <1>4, RenderedIs DEF w
<1>6. SendTypes'
  <2>1. \A f \in handlers' : IsHandler(f, service)
    BY <1>3 DEF SendInv, SendTypes
  <2> QED
    BY <1>5, <2>1, ServiceStands DEF SendTypes
<1>7. HandlersApart'
  <2>1. \A n \in Nodes : n \in Sending!Targets(g) => n \in Sending!Targets(h)
    <3>1. 0 \notin Nodes
      BY WorkbenchAssumption
    <3> QED
      BY <1>1, <3>1 DEF Sending!Targets
  <2> QED
    BY <2>1, ApartMoves DEF SendInv
<1>8. ASSUME NEW n \in Nodes \ blurred', \A f \in handlers' : n \notin SentNodes(f)
      PROVE  IsRow(n, sender'.task[n], service')
  <2>1. CASE n \in SentNodes(h)
    <3>1. PICK t \in h.sent : t.node = n
      BY <2>1 DEF SentNodes
    <3>2. IsRow(t.node, t.id, service)
      BY <1>8, <3>1 DEF SendInv, RowsAreRecorded
    <3> QED
      BY <1>4, <1>5, <3>1, <3>2
  <2>2. CASE n \notin SentNodes(h)
    <3>1. \A f \in handlers : n \notin SentNodes(f)
      BY <1>8, <2>2
    <3>2. IsRow(n, sender.task[n], service)
      BY <1>8, <3>1 DEF SendInv, RowsAreRecorded
    <3> QED
      BY <1>4, <1>5, <2>2, <3>2 DEF SentNodes
  <2> QED
    BY <2>1, <2>2
<1>9. ASSUME NEW f \in handlers', NEW t \in f.sent, t.node \notin blurred'
      PROVE  IsRow(t.node, t.id, service')
  BY <1>1, <1>9 DEF SendInv, RowsAreRecorded
<1> QED
  BY <1>6, <1>7, <1>8, <1>9 DEF SendInv, RowsAreRecorded

\* The service answers a handler, or refuses to.
LEMMA SendServes ==
  ASSUME SendInv, NEW h \in handlers,
         \/ Sending!ServeSend(h) \/ Sending!ServeCancel(h) \/ Sending!ServeRefresh(h)
  PROVE  SendInv'
<1> DEFINE H(stage, todo, at, sent, snap) == [op |-> h.op, stage |-> stage, todo |-> todo,
                                              at |-> at, sent |-> sent, snap |-> snap]
           refused == H("refused", h.todo, h.at, h.sent, h.snap)
           refresh == H("refresh", {}, 0, h.sent, h.snap)
           read == H("read", h.todo, h.at, h.sent, service)
<1>1. IsHandler(h, service) /\ h = H(h.stage, h.todo, h.at, h.sent, h.snap)
  BY DEF SendInv, SendTypes, IsHandler
<1>2. /\ [h EXCEPT !.stage = "refused"] = refused
      /\ [h EXCEPT !.stage = "read", !.snap = service] = read
      /\ Sending!Refresh(h) = refresh
  BY <1>1, HandlerTurns
<1>3. UNCHANGED <<sender, sendPoll, blurred>>
  BY DEF Sending!ServeSend, Sending!ServeCancel, Sending!ServeRefresh
<1>4. ASSUME h.stage = "call", Sending!Becomes(h, [h EXCEPT !.stage = "refused"]), UNCHANGED service
      PROVE  SendInv'
  <2>1. handlers' = (handlers \ {h}) \cup {refused}
    BY <1>2, <1>4 DEF Sending!Becomes
  <2>2. IsHandler(refused, service)
    BY <1>1, <1>4 DEF IsHandler, SentNodes
  <2>3. \A n \in Nodes : n \in Sending!Targets(refused) => n \in Sending!Targets(h)
    BY DEF Sending!Targets
  <2> QED
    BY <1>3, <1>4, <2>1, <2>2, <2>3, ServiceStands, HandlerGoesOn
<1>5. CASE Sending!ServeSend(h)
  <2>1. CASE Sending!Becomes(h, [h EXCEPT !.stage = "refused"]) /\ UNCHANGED service
    BY <1>4, <1>5, <2>1 DEF Sending!ServeSend
  <2>2. CASE /\ Len(service.task) < MaxSends /\ service' = Sending!Started(service, h.at)
             /\ Sending!Becomes(h, [h EXCEPT !.stage = "done",
                  !.sent = @ \cup {[node |-> h.at, id |-> Len(service.task) + 1]}])
    <3> DEFINE t == [node |-> h.at, id |-> Len(service.task) + 1]
               g == H("done", h.todo, h.at, h.sent \cup {t}, h.snap)
    <3>1. [h EXCEPT !.stage = "done", !.sent = @ \cup {t}] = g
      <4>1. [h EXCEPT !.stage = "done", !.sent = h.sent \cup {t}] = g
        BY <1>1, HandlerTurns
      <4> QED
        BY <4>1
    <3>2. handlers' = (handlers \ {h}) \cup {g}
      BY <2>2, <3>1 DEF Sending!Becomes
    <3>3. h.op = "send" /\ h.stage = "call"
      BY <1>5 DEF Sending!ServeSend
    <3> QED
      BY <1>3, <2>2, <3>2, <3>3, TaskStarts
  <2> QED
    BY <1>5, <2>1, <2>2 DEF Sending!ServeSend
<1>6. CASE Sending!ServeCancel(h)
  <2>1. CASE Sending!Becomes(h, [h EXCEPT !.stage = "refused"]) /\ UNCHANGED service
    BY <1>4, <1>6, <2>1 DEF Sending!ServeCancel
  <2>2. CASE /\ service' = IF service.task[h.at].status \in Sending!Alive
                           THEN Sending!Updated(service, h.at, "failed") ELSE service
             /\ Sending!Becomes(h, Sending!Refresh(h))
    <3>1. /\ IsService(service') /\ Grows(service, service') /\ Grows(service', service)
          /\ Len(service'.task) <= MaxSends
      <4>1. "failed" \in Sending!SendStatuses
        BY DEF Sending!SendStatuses
      <4>2. CASE service' = service
        BY <4>2, ServiceStands
      <4>3. CASE service' = Sending!Updated(service, h.at, "failed")
        <5>1. /\ IsService(service') /\ Grows(service, service') /\ Grows(service', service)
              /\ Len(service'.task) = Len(service.task)
          BY <4>1, <4>3, ServiceStands, UpdatedIs
        <5> QED
          BY <5>1, ServiceStands
      <4> QED
        BY <2>2, <4>2, <4>3
    <3>2. handlers' = (handlers \ {h}) \cup {refresh}
      BY <1>2, <2>2 DEF Sending!Becomes
    <3>3. h.op = "cancel" /\ h.sent = {}
      BY <1>1, <1>6 DEF Sending!ServeCancel, IsHandler
    <3>4. IsHandler(refresh, service')
      <4>1. IsSnapshot(h.snap, service')
        BY <1>1, <3>1, GrowsOn DEF IsHandler
      <4> QED
        BY <3>3, <4>1 DEF IsHandler, SentNodes
    <3>5. \A n \in Nodes : n \in Sending!Targets(refresh) => n \in Sending!Targets(h)
      BY <3>3 DEF Sending!Targets
    <3>6. refresh.sent = h.sent
      OBVIOUS
    <3> HIDE DEF refresh
    <3> QED
      BY <1>3, <3>1, <3>2, <3>4, <3>5, <3>6, HandlerGoesOn
  <2> QED
    BY <1>6, <2>1, <2>2 DEF Sending!ServeCancel
<1>7. CASE Sending!ServeRefresh(h)
  <2>1. handlers' = (handlers \ {h}) \cup {read} /\ UNCHANGED service /\ h.stage = "refresh"
    BY <1>2, <1>7 DEF Sending!Becomes, Sending!ServeRefresh
  <2>2. IsHandler(read, service)
    BY <1>1, <2>1, ServiceStands DEF IsHandler, SentNodes
  <2>3. \A n \in Nodes : n \in Sending!Targets(read) => n \in Sending!Targets(h)
    BY DEF Sending!Targets
  <2>4. read.sent = h.sent
    OBVIOUS
  <2> HIDE DEF read
  <2> QED
    BY <1>3, <2>1, <2>2, <2>3, <2>4, ServiceStands, HandlerGoesOn
<1> QED
  BY <1>5, <1>6, <1>7

\* An answer reaches the screen.
LEMMA SendAnswers ==
  ASSUME SendInv, NEW h \in handlers,
         \/ Sending!SendAnswer(h) \/ Sending!CallFails(h)
         \/ Sending!RefreshAnswer(h) \/ Sending!FilesAnswer(h)
  PROVE  SendInv'
<1> DEFINE H(stage, todo, at, sent) == [op |-> h.op, stage |-> stage, todo |-> todo,
                                        at |-> at, sent |-> sent, snap |-> h.snap]
<1>1. IsHandler(h, service) /\ h = H(h.stage, h.todo, h.at, h.sent)
  BY DEF SendInv, SendTypes, IsHandler
<1>2. UNCHANGED <<service, sendPoll>>
  BY DEF Sending!SendAnswer, Sending!CallFails, Sending!RefreshAnswer, Sending!FilesAnswer
<1>3. ASSUME NEW v, IsView(v, service), v.task = sender.task
      PROVE  LET w == Sending!Idle(v) IN IsSender(w, service) /\ w.task = sender.task
  <2> DEFINE u == [v EXCEPT !.busy = FALSE]
  <2>1. IsView(u, service) /\ u.task = sender.task
    <3>1. ASSUME NEW busy
          PROVE  [v EXCEPT !.busy = busy] =
                   [snap |-> v.snap, selected |-> v.selected, files |-> v.files,
                    step |-> v.step, task |-> v.task, known |-> v.known, busy |-> busy]
      BY <1>3 DEF IsView
    <3>2. u = [snap |-> v.snap, selected |-> v.selected, files |-> v.files, step |-> v.step,
               task |-> v.task, known |-> v.known, busy |-> FALSE]
      BY <3>1, Zenon
    <3> HIDE DEF u
    <3> QED
      BY <1>3, <3>2 DEF IsView
  <2>2. Sending!Idle(v) = Sending!Rendered(u)
    BY DEF Sending!Idle
  <2> HIDE DEF u
  <2> QED
    BY <2>1, <2>2, RenderedIs
<1>4. CASE Sending!SendAnswer(h) /\ h.todo # {}
  <2>1. PICK n \in h.todo : Sending!Becomes(h, [h EXCEPT !.stage = "call", !.at = n, !.todo = @ \ {n}])
    BY <1>4 DEF Sending!SendAnswer
  <2> DEFINE g == H("call", h.todo \ {n}, n, h.sent)
  <2>2. [h EXCEPT !.stage = "call", !.at = n, !.todo = @ \ {n}] = g
    <3>1. [h EXCEPT !.stage = "call", !.at = n, !.todo = h.todo \ {n}] = g
      BY <1>1, HandlerTurns
    <3> QED
      BY <3>1
  <2>3. /\ handlers' = (handlers \ {h}) \cup {g} /\ UNCHANGED <<sender, blurred>>
        /\ h.op = "send" /\ h.stage = "done"
    BY <1>4, <2>1, <2>2 DEF Sending!SendAnswer, Sending!Becomes
  <2>4. IsHandler(g, service)
    BY <1>1, <2>3 DEF IsHandler, SentNodes
  <2>5. \A m \in Nodes : m \in Sending!Targets(g) => m \in Sending!Targets(h)
    BY <2>1 DEF Sending!Targets
  <2>6. g.sent = h.sent
    OBVIOUS
  <2> HIDE DEF g
  <2> QED
    BY <1>2, <2>3, <2>4, <2>5, <2>6, ServiceStands, HandlerGoesOn
<1>5. CASE Sending!SendAnswer(h) /\ h.todo = {}
  <2> DEFINE g == H("refresh", {}, 0, {})
  <2>1. [Sending!Refresh(h) EXCEPT !.sent = {}] = g
    BY <1>1, HandlerTurns
  <2>2. /\ handlers' = (handlers \ {h}) \cup {g} /\ UNCHANGED blurred
        /\ sender' = Sending!Rendered(Sending!Recorded(sender, h.sent))
        /\ h.op = "send" /\ h.stage = "done"
    BY <1>5, <2>1 DEF Sending!SendAnswer, Sending!Becomes
  <2> QED
    BY <1>2, <1>5, <2>2, SendsAreRecorded
<1>6. CASE Sending!CallFails(h)
  <2>1. /\ handlers' = handlers \ {h} /\ sender' = Sending!Idle(sender)
        /\ blurred' = blurred \cup SentNodes(h)
    BY <1>6 DEF Sending!CallFails, SentNodes
  <2> QED
    BY <1>2, <1>3, <2>1, ServiceStands, HandlerEnds
<1>7. CASE Sending!RefreshAnswer(h)
  <2>1. /\ handlers' = handlers \ {h} /\ UNCHANGED blurred /\ h.stage = "read"
        /\ \/ sender' = Sending!Idle(sender)
           \/ sender' = Sending!Idle(Sending!applySnapshot(sender, h.snap))
    BY <1>7 DEF Sending!RefreshAnswer
  <2>2. SentNodes(h) = {} /\ IsSnapshot(h.snap, service)
    BY <1>1, <2>1 DEF IsHandler, SentNodes
  <2>3. IsSender(sender', service) /\ sender'.task = sender.task
    BY <1>3, <2>1, <2>2, ServiceStands, SnapshotIsApplied
  <2>4. blurred' = blurred \cup SentNodes(h)
    BY <2>1, <2>2
  <2> QED
    BY <1>2, <2>1, <2>3, <2>4, HandlerEnds
<1>8. CASE Sending!FilesAnswer(h)
  <2> DEFINE v == [sender EXCEPT !.files = {"file"}]
  <2>1. /\ handlers' = handlers \ {h} /\ UNCHANGED blurred /\ h.op = "files"
        /\ sender' = sender \/ sender' = Sending!Rendered(v)
    BY <1>8 DEF Sending!FilesAnswer
  <2>2. SentNodes(h) = {}
    BY <1>1, <2>1 DEF IsHandler, SentNodes
  <2>3. IsView(v, service) /\ v.task = sender.task
    BY ServiceStands, ViewChanges
  <2> HIDE DEF v
  <2>4. IsSender(sender', service) /\ sender'.task = sender.task
    BY <2>1, <2>3, ServiceStands, RenderedIs
  <2>5. blurred' = blurred \cup SentNodes(h)
    BY <2>1, <2>2
  <2> QED
    BY <1>2, <2>1, <2>4, <2>5, HandlerEnds
<1> QED
  BY <1>4, <1>5, <1>6, <1>7, <1>8

\* Every step of the wizard, and every step beside it, preserves the invariant.
LEMMA SendNext ==
  ASSUME SendInv, SendingStep \/ UNCHANGED sendingVars
  PROVE  SendInv'
<1>1. CASE UNCHANGED sendingVars
  <2>1. UNCHANGED <<service, sender, sendPoll, handlers, blurred>>
    BY <1>1 DEF sendingVars
  <2> QED
    BY <2>1, ServiceStands, SendOthers
<1>2. CASE Sending!Next
  BY <1>2, NetworkActs, SendPolls, SendGestures, SendCalls, SendServes, SendAnswers
  DEF Sending!Next, Sending!Answers
<1> QED
  BY <1>1, <1>2 DEF SendingStep

\* A row shows the last task that was started for its node, whatever order snapshots, answers
\* and progress come in (RowShowsTheNewestSend).
THEOREM RowsShowTheNewestSend == Spec => []RowShowsTheNewestSend
<1>1. Init => SendInv
  BY SendInit DEF Init
<1>2. SendInv /\ [Next]_vars => SendInv'
  BY SendNext, Interleaves
<1>3. SendInv => RowShowsTheNewestSend
  <2> SUFFICES ASSUME SendInv,
                      NEW n \in Sending!transferStatusNodes(sender),
                      n \notin blurred, \A h \in handlers : n \notin Sending!Targets(h),
                      NEW id \in DOMAIN sender.snap.task, Sending!LastStarted(n, id)
               PROVE  Sending!RowTask(sender, n) = id
    BY DEF RowShowsTheNewestSend, Sending!RowShowsTheNewestSend
  <2>1. n \in Nodes
    BY ServiceStands DEF IsView, IsSnapshot, IsService, Sending!transferStatusNodes
  <2>2. \A h \in handlers : n \notin SentNodes(h)
    BY DEF Sending!Targets, SentNodes
  <2>3. IsRow(n, sender.task[n], service)
    BY <2>1, <2>2 DEF SendInv, RowsAreRecorded
  <2>4. sender.task[n] = id
    BY <2>3 DEF IsRow, Sending!LastStarted
  <2> QED
    BY <2>4 DEF Sending!RowTask
<1> QED
  BY <1>1, <1>2, <1>3, PTL DEF Spec

----------------------------------------------------------------------------
(* Data sources and their groups. *)

Form == [open : BOOLEAN, group : GroupNames \cup {Sources!Ungrouped},
         status : {"ready", "testing", "saving"}, groupBusy : BOOLEAN, editing : GroupIds \cup {0}]
Assignment == [open : BOOLEAN, selected : SUBSET Profiles, submitting : BOOLEAN]

\* what a form, a member or a request names is listed, or no group
NamedIn(s) == {Sources!Ungrouped} \cup Sources!NamesIn(s)
Side == {s \in Sources!Sides :
           \A p \in Profiles : s.member[p] \in NamedIn(s) \cup {Sources!NotYet, Sources!Gone}}
FormsFit(f, s) == /\ f \in [Sources!Tabs -> Form]
                  /\ \A t \in Sources!Tabs : f[t].open => f[t].group \in NamedIn(s)
AssignmentsFit(a, s) == /\ a \in [GroupIds -> Assignment]
                        /\ \A g \in GroupIds : a[g].open => g \in Sources!Listed(s)

Answered(c) == c.reply.status = "ok"
IsRequest(c) ==
  /\ c = [op |-> c.op, tab |-> c.tab, body |-> c.body, reply |-> c.reply]
  /\ IF c.op = "assign" THEN c.tab \in GroupIds ELSE c.tab \in Sources!Tabs
  /\ c.op \in {"create", "rename"} => c.body.name \in GroupNames
  /\ c.op = "delete" => c.body.pid \in Profiles

\* what the store did is what the screen is going to do
Grown(s, w) == \A g \in Sources!Listed(s) : w.groups[g] = s.groups[g]
Executed(c, s, w) ==
  /\ c.op = "create" => /\ c.reply.gid \in GroupIds /\ c.reply.name \in GroupNames
                        /\ s.groups[c.reply.gid] = Sources!NotYet
                        /\ w = [s EXCEPT !.groups[c.reply.gid] = c.reply.name]
  /\ c.op = "rename" => /\ c.body.gid \in Sources!Listed(s) /\ c.reply.name \in GroupNames
                        /\ c.reply.old = s.groups[c.body.gid]
                        /\ w = Sources!Renamed([s EXCEPT !.groups[c.body.gid] = c.reply.name],
                                               c.reply.old, c.reply.name)
  /\ c.op = "remove" => /\ c.body.gid \in Sources!Listed(s) /\ c.reply.old = s.groups[c.body.gid]
                        /\ w = Sources!Renamed([s EXCEPT !.groups[c.body.gid] = Sources!Gone],
                                               c.reply.old, Sources!Ungrouped)
  /\ c.op = "assign" => /\ c.reply.name \in Sources!NamesIn(s)
                        /\ w = Sources!Assigned(s, c.body.pids, c.reply.name)
  /\ c.op = "save" => /\ c.reply.pid \in Profiles /\ c.reply.name = c.body.name
                      /\ w = Sources!upsertProfile(s, c.reply.pid, c.reply.name)
  /\ c.op = "delete" => w = Sources!upsertProfile(s, c.body.pid, Sources!Gone)
  /\ c.op = "bootstrap" => c.reply.snapshot = w
InStep(c, s, w) ==
  /\ c.op = "bootstrap" \/ (c.op = "import" /\ Answered(c)) => Grown(s, w)
  /\ c.op = "bootstrap" => Answered(c) \/ c.reply = Sources!NoReply
  /\ ~Answered(c) /\ c.op # "bootstrap" => s = w
  /\ c.op = "save" => c.body.name \in NamedIn(s)
  /\ Answered(c) => Executed(c, s, w)

\* one change at a time is on its way, and the screen is in step with it
SourcesCalm ==
  /\ {store, screen} \subseteq Side /\ FormsFit(forms, screen) /\ AssignmentsFit(assignments, screen)
  /\ \A c \in sourceCalls : IsRequest(c) /\ (c.op \in Sources!Changing => InStep(c, screen, store))
  /\ \A c, d \in sourceCalls : {c.op, d.op} \subseteq Sources!Changing => c = d
  /\ ~Sources!Busy => screen = store
SourcesInv == ~raced /\ ~halfDone => SourcesCalm

LEMMA SourceNames ==
  /\ \A n \in GroupNames : n \in Nat /\ n > 0 /\ n # Sources!Ungrouped /\ n # Sources!NotYet /\ n # Sources!Gone
  /\ Sources!Ungrouped = 0 /\ Sources!NotYet = -1 /\ Sources!Gone = -2
<1>1. GroupNames \subseteq Nat /\ 0 \notin GroupNames
  BY WorkbenchAssumption
<1>2. Sources!Ungrouped = 0 /\ Sources!NotYet = -1 /\ Sources!Gone = -2
  BY DEF Sources!Ungrouped, Sources!NotYet, Sources!Gone
<1> QED
  BY <1>1, <1>2

LEMMA SideIs ==
  ASSUME NEW s \in Sources!Sides
  PROVE  /\ s = [groups |-> s.groups, member |-> s.member]
         /\ s.groups \in [GroupIds -> GroupNames \cup {Sources!NotYet, Sources!Gone}]
         /\ s.member \in [Profiles -> GroupNames \cup {Sources!Ungrouped, Sources!NotYet, Sources!Gone}]
         /\ Sources!Listed(s) = {g \in GroupIds : s.groups[g] \in GroupNames}
         /\ Sources!NamesIn(s) \subseteq GroupNames
<1>1. /\ s = [groups |-> s.groups, member |-> s.member]
      /\ s.groups \in [GroupIds -> GroupNames \cup {Sources!NotYet, Sources!Gone}]
      /\ s.member \in [Profiles -> GroupNames \cup {Sources!Ungrouped, Sources!NotYet, Sources!Gone}]
  BY DEF Sources!Sides
<1>2. ASSUME NEW g \in GroupIds PROVE s.groups[g] > 0 <=> s.groups[g] \in GroupNames
  BY <1>1, SourceNames
<1>3. Sources!Listed(s) = {g \in GroupIds : s.groups[g] \in GroupNames}
  BY <1>1, <1>2 DEF Sources!Listed
<1> QED
  BY <1>1, <1>3 DEF Sources!NamesIn

LEMMA SideSides == Side \subseteq Sources!Sides
BY DEF Side

LEMMA GroupCreated ==
  ASSUME NEW s \in Side, NEW g \in GroupIds, NEW name \in GroupNames, s.groups[g] = Sources!NotYet,
         NEW w, w = [s EXCEPT !.groups[g] = name]
  PROVE  /\ w \in Side /\ Grown(s, w)
         /\ Sources!Listed(s) \subseteq Sources!Listed(w)
         /\ Sources!NamesIn(s) \subseteq Sources!NamesIn(w) /\ name \in Sources!NamesIn(w)
<1>1. PICK groups : groups = [s.groups EXCEPT ![g] = name]
  OBVIOUS
<1>2. w = [groups |-> groups, member |-> s.member]
  BY <1>1, SideIs, SideSides
<1>3. groups \in [GroupIds -> GroupNames \cup {Sources!NotYet, Sources!Gone}]
  BY <1>1, SideIs, SideSides
<1>4. w \in Sources!Sides /\ w.member = s.member
  BY <1>2, <1>3, SideIs, SideSides DEF Sources!Sides
<1>5. \A h \in Sources!Listed(s) : h # g /\ w.groups[h] = s.groups[h] /\ h \in Sources!Listed(w)
  BY <1>1, <1>2, <1>4, SideIs, SideSides, SourceNames
<1>6. g \in Sources!Listed(w) /\ w.groups[g] = name
  BY <1>1, <1>2, <1>4, SideIs, SideSides
<1>7. Sources!NamesIn(s) \subseteq Sources!NamesIn(w) /\ name \in Sources!NamesIn(w)
  BY <1>5, <1>6 DEF Sources!NamesIn
<1>8. w \in Side
  BY <1>4, <1>7 DEF Side, NamedIn
<1> QED
  BY <1>5, <1>7, <1>8 DEF Grown

LEMMA MembersRenamed ==
  ASSUME NEW s \in Side, NEW groups \in [GroupIds -> GroupNames \cup {Sources!NotYet, Sources!Gone}],
         NEW old, NEW new \in GroupNames \cup {Sources!Ungrouped},
         NEW w, w = Sources!Renamed([s EXCEPT !.groups = groups], old, new)
  PROVE  /\ w \in Sources!Sides /\ w.groups = groups
         /\ new \in NamedIn(w) /\ Sources!NamesIn(s) \ {old} \subseteq Sources!NamesIn(w) => w \in Side
<1>1. PICK v : v = [s EXCEPT !.groups = groups]
  OBVIOUS
<1>2. v = [groups |-> groups, member |-> s.member]
  BY <1>1, SideIs, SideSides
<1>3. PICK member : member = [p \in Profiles |-> IF s.member[p] = old THEN new ELSE s.member[p]]
  OBVIOUS
<1>4. w = [groups |-> groups, member |-> member]
  BY <1>1, <1>2, <1>3 DEF Sources!Renamed
<1>5. member \in [Profiles -> GroupNames \cup {Sources!Ungrouped, Sources!NotYet, Sources!Gone}]
  BY <1>3, SideIs, SideSides
<1>6. w \in Sources!Sides /\ w.groups = groups /\ w.member = member
  BY <1>4, <1>5 DEF Sources!Sides
<1>7. ASSUME new \in NamedIn(w), Sources!NamesIn(s) \ {old} \subseteq Sources!NamesIn(w), NEW p \in Profiles
      PROVE  w.member[p] \in NamedIn(w) \cup {Sources!NotYet, Sources!Gone}
  <2>1. w.member[p] = IF s.member[p] = old THEN new ELSE s.member[p]
    BY <1>3, <1>6
  <2>2. s.member[p] \in NamedIn(s) \cup {Sources!NotYet, Sources!Gone}
    BY DEF Side
  <2> QED
    BY <1>7, <2>1, <2>2 DEF NamedIn
<1> QED
  BY <1>6, <1>7 DEF Side

LEMMA GroupRenamed ==
  ASSUME NEW s \in Side, NEW g \in Sources!Listed(s), NEW name \in GroupNames,
         NEW w, w = Sources!Renamed([s EXCEPT !.groups[g] = name], s.groups[g], name)
  PROVE  /\ w \in Side /\ Sources!Listed(w) = Sources!Listed(s)
         /\ Sources!NamesIn(s) \ {s.groups[g]} \subseteq Sources!NamesIn(w) /\ name \in Sources!NamesIn(w)
<1>1. PICK groups : groups = [s.groups EXCEPT ![g] = name]
  OBVIOUS
<1>2. g \in GroupIds /\ groups \in [GroupIds -> GroupNames \cup {Sources!NotYet, Sources!Gone}]
  BY <1>1, SideIs, SideSides
<1>3. [s EXCEPT !.groups[g] = name] = [s EXCEPT !.groups = groups]
  BY <1>1, SideIs, SideSides
<1>4. w \in Sources!Sides /\ w.groups = groups
  BY <1>2, <1>3, MembersRenamed
<1>5. Sources!Listed(w) = Sources!Listed(s)
  <2>1. \A h \in GroupIds : w.groups[h] \in GroupNames <=> s.groups[h] \in GroupNames
    BY <1>1, <1>2, <1>4, SideIs, SideSides
  <2> QED
    BY <1>4, <2>1, SideIs, SideSides
<1>6. \A h \in Sources!Listed(s) : h = g \/ w.groups[h] = s.groups[h]
  BY <1>1, <1>4, SideIs, SideSides
<1>7. w.groups[g] = name /\ g \in Sources!Listed(w)
  BY <1>1, <1>2, <1>4, <1>5, SideIs, SideSides
<1>8. Sources!NamesIn(s) \ {s.groups[g]} \subseteq Sources!NamesIn(w) /\ name \in Sources!NamesIn(w)
  BY <1>5, <1>6, <1>7 DEF Sources!NamesIn
<1>9. w \in Side
  BY <1>2, <1>3, <1>8, MembersRenamed DEF NamedIn
<1> QED
  BY <1>5, <1>8, <1>9

LEMMA GroupRemoved ==
  ASSUME NEW s \in Side, NEW g \in Sources!Listed(s),
         NEW w, w = Sources!Renamed([s EXCEPT !.groups[g] = Sources!Gone], s.groups[g], Sources!Ungrouped)
  PROVE  /\ w \in Side /\ Sources!Listed(w) = Sources!Listed(s) \ {g}
         /\ Sources!NamesIn(s) \ {s.groups[g]} \subseteq Sources!NamesIn(w)
<1>1. PICK groups : groups = [s.groups EXCEPT ![g] = Sources!Gone]
  OBVIOUS
<1>2. g \in GroupIds /\ groups \in [GroupIds -> GroupNames \cup {Sources!NotYet, Sources!Gone}]
  BY <1>1, SideIs, SideSides
<1>3. [s EXCEPT !.groups[g] = Sources!Gone] = [s EXCEPT !.groups = groups]
  BY <1>1, SideIs, SideSides
<1>4. w \in Sources!Sides /\ w.groups = groups
  BY <1>2, <1>3, MembersRenamed
<1>5. Sources!Listed(w) = Sources!Listed(s) \ {g}
  <2>1. \A h \in GroupIds : w.groups[h] \in GroupNames <=> s.groups[h] \in GroupNames /\ h # g
    BY <1>1, <1>2, <1>4, SideIs, SideSides, SourceNames
  <2> QED
    BY <1>4, <2>1, SideIs, SideSides
<1>6. \A h \in Sources!Listed(s) : h = g \/ w.groups[h] = s.groups[h]
  BY <1>1, <1>4, SideIs, SideSides
<1>7. Sources!NamesIn(s) \ {s.groups[g]} \subseteq Sources!NamesIn(w)
  BY <1>5, <1>6 DEF Sources!NamesIn
<1>8. w \in Side
  BY <1>2, <1>3, <1>7, MembersRenamed DEF NamedIn
<1> QED
  BY <1>5, <1>7, <1>8

\* Where only members change, groups are listed as before.
LEMMA MembersOnly ==
  ASSUME NEW s \in Side, NEW member,
         member \in [Profiles -> NamedIn(s) \cup {Sources!NotYet, Sources!Gone}],
         NEW w, w = [groups |-> s.groups, member |-> member]
  PROVE  /\ w \in Side /\ w.groups = s.groups
         /\ Sources!Listed(w) = Sources!Listed(s) /\ Sources!NamesIn(w) = Sources!NamesIn(s)
<1>1. NamedIn(s) \subseteq GroupNames \cup {Sources!Ungrouped}
  BY SideIs, SideSides DEF NamedIn
<1>2. member \in [Profiles -> GroupNames \cup {Sources!Ungrouped, Sources!NotYet, Sources!Gone}]
  BY <1>1
<1>3. w \in Sources!Sides /\ w.groups = s.groups /\ w.member = member
  BY <1>2, SideIs, SideSides DEF Sources!Sides
<1>4. Sources!Listed(w) = Sources!Listed(s) /\ Sources!NamesIn(w) = Sources!NamesIn(s)
  BY <1>3 DEF Sources!Listed, Sources!NamesIn
<1>5. \A q \in Profiles : w.member[q] \in NamedIn(w) \cup {Sources!NotYet, Sources!Gone}
  BY <1>3, <1>4 DEF NamedIn
<1> QED
  BY <1>3, <1>4, <1>5 DEF Side

LEMMA MemberOf ==
  ASSUME NEW s \in Side
  PROVE  s.member \in [Profiles -> NamedIn(s) \cup {Sources!NotYet, Sources!Gone}]
BY SideIs, SideSides DEF Side

LEMMA MembersAssigned ==
  ASSUME NEW s \in Side, NEW pids, NEW name \in NamedIn(s)
  PROVE  /\ Sources!Assigned(s, pids, name) \in Side
         /\ Sources!NamesIn(Sources!Assigned(s, pids, name)) = Sources!NamesIn(s)
         /\ Sources!Listed(Sources!Assigned(s, pids, name)) = Sources!Listed(s)
<1>1. PICK member : member = [q \in Profiles |-> IF q \in pids /\ s.member[q] >= 0 THEN name ELSE s.member[q]]
  OBVIOUS
<1>2. member \in [Profiles -> NamedIn(s) \cup {Sources!NotYet, Sources!Gone}]
  BY <1>1, MemberOf
<1>3. Sources!Assigned(s, pids, name) = [groups |-> s.groups, member |-> member]
  BY <1>1, SideIs, SideSides DEF Sources!Assigned
<1> QED
  BY <1>2, <1>3, MembersOnly

LEMMA MemberPut ==
  ASSUME NEW s \in Side, NEW p \in Profiles, NEW name \in NamedIn(s) \cup {Sources!Gone},
         NEW w, w = Sources!upsertProfile(s, p, name)
  PROVE  /\ w \in Side /\ w.groups = s.groups
         /\ Sources!Listed(w) = Sources!Listed(s) /\ Sources!NamesIn(w) = Sources!NamesIn(s)
<1>1. PICK member : member = [s.member EXCEPT ![p] = name]
  OBVIOUS
<1>2. member \in [Profiles -> NamedIn(s) \cup {Sources!NotYet, Sources!Gone}]
  BY <1>1, MemberOf
<1>3. w = [groups |-> s.groups, member |-> member]
  BY <1>1, SideIs, SideSides DEF Sources!upsertProfile
<1> QED
  BY <1>2, <1>3, MembersOnly

LEMMA GroupEnsured ==
  ASSUME NEW s \in Side, NEW name \in GroupNames \cup {Sources!Ungrouped},
         NEW w \in Sources!EnsureGroup(s, name)
  PROVE  w \in Side /\ Grown(s, w) /\ name \in NamedIn(w) /\ (name \in NamedIn(s) => w = s)
<1>1. CASE name \in NamedIn(s)
  BY <1>1 DEF Sources!EnsureGroup, NamedIn, Grown
<1>2. CASE name \notin NamedIn(s)
  <2>1. PICK g \in GroupIds : s.groups[g] = Sources!NotYet /\ w = [s EXCEPT !.groups[g] = name]
    BY <1>2 DEF Sources!EnsureGroup, NamedIn
  <2>2. name \in GroupNames
    BY <1>2 DEF NamedIn
  <2> QED
    BY <1>2, <2>1, <2>2, GroupCreated DEF NamedIn
<1> QED
  BY <1>1, <1>2

LEMMA MoreListed ==
  ASSUME NEW s \in Side, NEW w \in Side, Grown(s, w)
  PROVE  Sources!Listed(s) \subseteq Sources!Listed(w) /\ Sources!NamesIn(s) \subseteq Sources!NamesIn(w)
<1>1. \A g \in Sources!Listed(s) : g \in Sources!Listed(w) /\ w.groups[g] = s.groups[g]
  BY SideIs, SideSides DEF Grown
<1> QED
  BY <1>1 DEF Sources!NamesIn

LEMMA StillFit ==
  ASSUME NEW s, NEW w, Sources!Listed(s) \subseteq Sources!Listed(w), Sources!NamesIn(s) \subseteq Sources!NamesIn(w)
  PROVE  /\ \A f : FormsFit(f, s) => FormsFit(f, w)
         /\ \A a : AssignmentsFit(a, s) => AssignmentsFit(a, w)
BY DEF FormsFit, AssignmentsFit, NamedIn

LEMMA SourcesInit == Sources!Init => SourcesInv
<1> SUFFICES ASSUME Sources!Init PROVE SourcesCalm
  BY DEF SourcesInv
<1> DEFINE g == CHOOSE x \in GroupIds : TRUE
           p == CHOOSE x \in Profiles : TRUE
           n == CHOOSE x \in GroupNames : TRUE
<1>1. store = [groups |-> [h \in GroupIds |-> IF h = g THEN n ELSE Sources!NotYet],
               member |-> [q \in Profiles |-> IF q = p THEN n ELSE Sources!NotYet]]
  BY DEF Sources!Init
<1>2. n \in GroupNames
  BY WorkbenchAssumption
<1> HIDE DEF g, p, n
<1>3. store \in Side
  <2>1. store \in Sources!Sides
    BY <1>1, <1>2 DEF Sources!Sides
  <2>2. ASSUME NEW q \in Profiles, store.member[q] = n PROVE n \in NamedIn(store)
    <3>1. g \in GroupIds
      BY WorkbenchAssumption DEF g
    <3>2. store.groups[g] = n
      BY <1>1, <3>1
    <3>3. g \in Sources!Listed(store)
      BY <1>2, <2>1, <3>1, <3>2, SideIs
    <3> QED
      BY <3>2, <3>3 DEF NamedIn, Sources!NamesIn
  <2> QED
    BY <1>1, <2>1, <2>2 DEF Side
<1>4. Sources!NoForm \in Form /\ ~Sources!NoForm.open
  BY DEF Form, Sources!NoForm
<1>5. Sources!NoAssignment \in Assignment /\ ~Sources!NoAssignment.open
  BY DEF Assignment, Sources!NoAssignment
<1>6. FormsFit(forms, screen)
  BY <1>4 DEF FormsFit, Sources!Init
<1>7. AssignmentsFit(assignments, screen)
  BY <1>5 DEF AssignmentsFit, Sources!Init
<1>8. screen = store /\ sourceCalls = {}
  BY DEF Sources!Init
<1> QED
  BY <1>3, <1>6, <1>7, <1>8 DEF SourcesCalm

----------------------------------------------------------------------------
(* Requests are sent, executed and answered. *)

LEMMA SourcesTouch ==
  ASSUME SourcesInv, store' = store, screen' = screen, sourceCalls' = sourceCalls,
         raced' = raced, halfDone' = halfDone,
         SourcesCalm => FormsFit(forms', screen) /\ AssignmentsFit(assignments', screen)
  PROVE  SourcesInv'
BY DEF SourcesInv, SourcesCalm, Sources!Busy

LEMMA SourcesAsk ==
  ASSUME SourcesInv, NEW c, Sources!Send(c), c.reply = Sources!NoReply, c.op # "bootstrap",
         store' = store, screen' = screen, halfDone' = halfDone,
         SourcesCalm => /\ IsRequest(c) /\ (c.op = "save" => c.body.name \in NamedIn(screen))
                        /\ FormsFit(forms', screen) /\ AssignmentsFit(assignments', screen)
  PROVE  SourcesInv'
<1> SUFFICES ASSUME ~raced', ~halfDone' PROVE SourcesCalm'
  BY DEF SourcesInv
<1>1. /\ sourceCalls' = sourceCalls \cup {c}
      /\ ~raced /\ ~halfDone /\ ~(Sources!Busy /\ c.op \in Sources!Changing)
  BY DEF Sources!Send
<1>2. SourcesCalm
  BY <1>1 DEF SourcesInv
<1>3. ~Answered(c)
  BY DEF Answered, Sources!NoReply
<1>4. c.op \in Sources!Changing => InStep(c, screen, store)
  BY <1>1, <1>2, <1>3 DEF SourcesCalm, InStep
<1>5. ASSUME NEW d \in sourceCalls', d.op \in Sources!Changing, NEW e \in sourceCalls', e.op \in Sources!Changing
      PROVE  d = e
  <2>1. CASE c.op \in Sources!Changing
    BY <1>1, <1>5, <2>1 DEF Sources!Busy
  <2>2. CASE c.op \notin Sources!Changing
    BY <1>1, <1>2, <1>5, <2>2 DEF SourcesCalm
  <2> QED
    BY <2>1, <2>2
<1>6. ~Sources!Busy' => ~Sources!Busy
  BY <1>1 DEF Sources!Busy
<1>7. \A d \in sourceCalls' : IsRequest(d) /\ (d.op \in Sources!Changing => InStep(d, screen, store))
  BY <1>1, <1>2, <1>4 DEF SourcesCalm
<1>8. \A d, e \in sourceCalls' : {d.op, e.op} \subseteq Sources!Changing => d = e
  BY <1>5
<1> QED
  BY <1>2, <1>6, <1>7, <1>8 DEF SourcesCalm

\* The store executes a request, or refuses it.
LEMMA SourcesServed ==
  ASSUME SourcesCalm, NEW c \in sourceCalls, NEW r, NEW d, d = [c EXCEPT !.reply = r],
         Sources!Replied(c, r), Sources!ScreenKeeps, store' \in Side,
         IF c.op \in Sources!Changing THEN InStep(d, screen, store') ELSE store' = store
  PROVE  SourcesCalm'
<1>1. /\ sourceCalls' = (sourceCalls \ {c}) \cup {d}
      /\ screen' = screen /\ forms' = forms /\ assignments' = assignments
  BY DEF Sources!Replied, Sources!ScreenKeeps
<1>2. IsRequest(c)
  BY DEF SourcesCalm
<1>3. d.op = c.op /\ IsRequest(d)
  BY <1>2 DEF IsRequest
<1>4. ASSUME NEW e \in sourceCalls', e.op \in Sources!Changing, NEW f \in sourceCalls', f.op \in Sources!Changing
      PROVE  e = f
  <2>1. CASE c.op \in Sources!Changing
    BY <1>1, <1>4, <2>1 DEF SourcesCalm
  <2>2. CASE c.op \notin Sources!Changing
    BY <1>1, <1>3, <1>4, <2>2 DEF SourcesCalm
  <2> QED
    BY <2>1, <2>2
<1>5. ASSUME NEW e \in sourceCalls' PROVE IsRequest(e) /\ (e.op \in Sources!Changing => InStep(e, screen, store'))
  <2>1. CASE e = d
    BY <1>3, <2>1
  <2>2. CASE e # d
    <3>1. e \in sourceCalls /\ e # c
      BY <1>1, <1>5, <2>2
    <3>2. CASE c.op \in Sources!Changing
      BY <3>1, <3>2 DEF SourcesCalm
    <3>3. CASE c.op \notin Sources!Changing
      BY <3>1, <3>3 DEF SourcesCalm
    <3> QED
      BY <3>2, <3>3
  <2> QED
    BY <2>1, <2>2
<1>6. ~Sources!Busy' => screen = store'
  <2>1. CASE c.op \in Sources!Changing
    <3>1. Sources!Busy'
      BY <1>1, <1>3, <2>1 DEF Sources!Busy
    <3> QED
      BY <3>1
  <2>2. CASE c.op \notin Sources!Changing
    <3>1. ~Sources!Busy' => ~Sources!Busy
      BY <1>1, <2>2 DEF Sources!Busy
    <3> QED
      BY <2>2, <3>1 DEF SourcesCalm
  <2> QED
    BY <2>1, <2>2
<1>7. \A e, f \in sourceCalls' : {e.op, f.op} \subseteq Sources!Changing => e = f
  BY <1>4
<1> QED
  BY <1>1, <1>5, <1>6, <1>7 DEF SourcesCalm

\* An answer is used up, and only databases may be listed next.
LEMMA SourcesTold ==
  ASSUME SourcesCalm, NEW c \in sourceCalls, NEW more, sourceCalls' = (sourceCalls \ {c}) \cup more,
         \A d \in more : IsRequest(d) /\ d.op = "list",
         store' = store, screen' = IF c.op \in Sources!Changing THEN store ELSE screen,
         FormsFit(forms', screen'), AssignmentsFit(assignments', screen')
  PROVE  SourcesCalm'
<1>1. screen' \in Side
  BY DEF SourcesCalm
<1>2. \A d \in more : d.op \notin Sources!Changing
  BY DEF Sources!Changing
<1>3. ASSUME NEW e \in sourceCalls', e.op \in Sources!Changing
      PROVE  e \in sourceCalls /\ c.op \notin Sources!Changing
  BY <1>2, <1>3 DEF SourcesCalm
<1>4. \A e \in sourceCalls' : IsRequest(e) /\ (e.op \in Sources!Changing => InStep(e, screen', store'))
  BY <1>3 DEF SourcesCalm
<1>5. \A e, f \in sourceCalls' : {e.op, f.op} \subseteq Sources!Changing => e = f
  BY <1>3 DEF SourcesCalm
<1>6. ~Sources!Busy' => screen' = store'
  <2>1. CASE c.op \in Sources!Changing
    BY <2>1
  <2>2. CASE c.op \notin Sources!Changing
    <3>1. ~Sources!Busy' => ~Sources!Busy
      BY <2>2 DEF Sources!Busy
    <3> QED
      BY <2>2, <3>1 DEF SourcesCalm
  <2> QED
    BY <2>1, <2>2
<1> QED
  BY <1>1, <1>4, <1>5, <1>6 DEF SourcesCalm
LEMMA SourcesUsed ==
  ASSUME SourcesCalm, NEW c \in sourceCalls, sourceCalls' = sourceCalls \ {c},
         store' = store, screen' = IF c.op \in Sources!Changing THEN store ELSE screen,
         FormsFit(forms', screen'), AssignmentsFit(assignments', screen')
  PROVE  SourcesCalm'
<1>1. PICK more : more = {}
  OBVIOUS
<1>2. sourceCalls' = (sourceCalls \ {c}) \cup more /\ \A d \in more : IsRequest(d) /\ d.op = "list"
  BY <1>1
<1> QED
  BY <1>2, SourcesTold

----------------------------------------------------------------------------
(* Forms and tabs. *)

\* Some fields of an open form change.
LEMMA FormPatched ==
  ASSUME NEW s, FormsFit(forms, s), NEW t \in Sources!Tabs, NEW f, NEW g \in Form,
         g = [k \in DOMAIN forms[t] |-> IF k \in DOMAIN f THEN f[k] ELSE forms[t][k]],
         g.open = forms[t].open, forms[t].open => g.group \in NamedIn(s),
         NEW w, w = Sources!PatchForm(t, f)
  PROVE  /\ FormsFit(w, s)
         /\ \A u \in Sources!Tabs : w[u].open = forms[u].open /\ (u # t => w[u] = forms[u])
<1>1. forms \in [Sources!Tabs -> Form] /\ \A u \in Sources!Tabs : forms[u].open => forms[u].group \in NamedIn(s)
  BY DEF FormsFit
<1>2. w = IF ~forms[t].open THEN forms ELSE [forms EXCEPT ![t] = g]
  BY DEF Sources!PatchForm
<1>3. w \in [Sources!Tabs -> Form]
  BY <1>1, <1>2
<1>4. \A u \in Sources!Tabs : u # t => w[u] = forms[u]
  BY <1>1, <1>2
<1>5. w[t] = IF forms[t].open THEN g ELSE forms[t]
  BY <1>1, <1>2
<1>6. ASSUME NEW u \in Sources!Tabs PROVE w[u].open = forms[u].open /\ (w[u].open => w[u].group \in NamedIn(s))
  BY <1>1, <1>4, <1>5
<1> QED
  BY <1>3, <1>4, <1>6 DEF FormsFit

IsPatch(f, g, s) ==
  \/ \E busy \in BOOLEAN : f = [groupBusy |-> busy]
  \/ \E status \in {"ready", "testing", "saving"} : f = [status |-> status]
  \/ \E e \in GroupIds \cup {0} : f = [editing |-> e] \/ f = [groupBusy |-> FALSE, editing |-> e]
  \/ \E n \in GroupNames \cup {Sources!Ungrouped} :
       /\ g.open => n \in NamedIn(s)
       /\ \/ f = [group |-> n] \/ f = [groupBusy |-> FALSE, group |-> n]
          \/ \E e \in GroupIds \cup {0} : f = [groupBusy |-> FALSE, editing |-> e, group |-> n]
LEMMA PatchFits ==
  ASSUME NEW s, FormsFit(forms, s), NEW t \in Sources!Tabs, NEW f, IsPatch(f, forms[t], s),
         NEW w, w = Sources!PatchForm(t, f)
  PROVE  /\ FormsFit(w, s)
         /\ \A u \in Sources!Tabs : w[u].open = forms[u].open /\ (u # t => w[u] = forms[u])
<1>1. PICK r \in Form : r = forms[t]
  BY DEF FormsFit
<1>2. PICK g : g = [k \in DOMAIN r |-> IF k \in DOMAIN f THEN f[k] ELSE r[k]]
  OBVIOUS
<1>3. r.open => r.group \in NamedIn(s)
  BY <1>1 DEF FormsFit
<1>4. g \in Form /\ g.open = r.open /\ (r.open => g.group \in NamedIn(s))
  <2>1. ASSUME NEW busy \in BOOLEAN, f = [groupBusy |-> busy]
        PROVE  g \in Form /\ g.open = r.open /\ g.group = r.group
    BY <1>2, <2>1 DEF Form
  <2>2. ASSUME NEW status \in {"ready", "testing", "saving"}, f = [status |-> status]
        PROVE  g \in Form /\ g.open = r.open /\ g.group = r.group
    BY <1>2, <2>2 DEF Form
  <2>3. ASSUME NEW e \in GroupIds \cup {0}, f = [editing |-> e]
        PROVE  g \in Form /\ g.open = r.open /\ g.group = r.group
    BY <1>2, <2>3 DEF Form
  <2>4. ASSUME NEW e \in GroupIds \cup {0}, f = [groupBusy |-> FALSE, editing |-> e]
        PROVE  g \in Form /\ g.open = r.open /\ g.group = r.group
    BY <1>2, <2>4 DEF Form
  <2>5. ASSUME NEW n \in GroupNames \cup {Sources!Ungrouped}, f = [group |-> n]
        PROVE  g \in Form /\ g.open = r.open /\ g.group = n
    BY <1>2, <2>5 DEF Form
  <2>6. ASSUME NEW n \in GroupNames \cup {Sources!Ungrouped}, f = [groupBusy |-> FALSE, group |-> n]
        PROVE  g \in Form /\ g.open = r.open /\ g.group = n
    BY <1>2, <2>6 DEF Form
  <2>7. ASSUME NEW n \in GroupNames \cup {Sources!Ungrouped}, NEW e \in GroupIds \cup {0},
               f = [groupBusy |-> FALSE, editing |-> e, group |-> n]
        PROVE  g \in Form /\ g.open = r.open /\ g.group = n
    BY <1>2, <2>7 DEF Form
  <2> QED
    BY <1>1, <1>3, <2>1, <2>2, <2>3, <2>4, <2>5, <2>6, <2>7 DEF IsPatch
<1>5. g.open = forms[t].open /\ (forms[t].open => g.group \in NamedIn(s))
  BY <1>1, <1>4
<1>6. g = [k \in DOMAIN forms[t] |-> IF k \in DOMAIN f THEN f[k] ELSE forms[t][k]]
  BY <1>1, <1>2
<1> QED
  BY <1>4, <1>5, <1>6, FormPatched

\* A group has another name, in one form and in the others.
LEMMA Regrouped ==
  ASSUME NEW s, FormsFit(forms, s), NEW t \in Sources!Tabs, NEW f, IsPatch(f, forms[t], s), NEW old,
         NEW new \in GroupNames \cup {Sources!Ungrouped}, NEW w, new \in NamedIn(w),
         NamedIn(s) \ {old} \subseteq NamedIn(w)
  PROVE  FormsFit(Sources!Regroup(t, old, new, f), w)
<1>1. PICK p : p = Sources!PatchForm(t, f)
  OBVIOUS
<1>2. FormsFit(p, s) /\ \A u \in Sources!Tabs : p[u].open = forms[u].open /\ (u # t => p[u] = forms[u])
  BY <1>1, PatchFits
<1>3. PICK q : q = [u \in Sources!Tabs |-> IF forms[u].open /\ p[u].group = old THEN [p[u] EXCEPT !.group = new] ELSE p[u]]
  OBVIOUS
<1>4. Sources!Regroup(t, old, new, f) = q
  BY <1>1, <1>2, <1>3 DEF Sources!Regroup
<1>5. ASSUME NEW u \in Sources!Tabs PROVE q[u] \in Form /\ (q[u].open => q[u].group \in NamedIn(w))
  <2>1. PICK r \in Form : r = p[u]
    BY <1>2 DEF FormsFit
  <2>2. r.open => r.group \in NamedIn(s)
    BY <1>2, <2>1 DEF FormsFit
  <2>3. [r EXCEPT !.group = new] \in Form /\ [r EXCEPT !.group = new].group = new
    BY DEF Form
  <2>4. q[u] = IF r.open /\ r.group = old THEN [r EXCEPT !.group = new] ELSE r
    BY <1>2, <1>3, <2>1
  <2> QED
    BY <2>2, <2>3, <2>4
<1> QED
  BY <1>3, <1>4, <1>5 DEF FormsFit

\* A fresh form or tab takes the place of another.
LEMMA FormReplaced ==
  ASSUME NEW f, NEW s, FormsFit(f, s), NEW t \in Sources!Tabs, NEW g \in Form,
         g.open => g.group \in NamedIn(s)
  PROVE  FormsFit([f EXCEPT ![t] = g], s)
<1>1. f \in [Sources!Tabs -> Form] /\ \A u \in Sources!Tabs : f[u].open => f[u].group \in NamedIn(s)
  BY DEF FormsFit
<1>2. [f EXCEPT ![t] = g] \in [Sources!Tabs -> Form]
  BY <1>1
<1>3. \A u \in Sources!Tabs : [f EXCEPT ![t] = g][u] = IF u = t THEN g ELSE f[u]
  BY <1>1
<1> QED
  BY <1>1, <1>2, <1>3 DEF FormsFit
LEMMA AssignmentReplaced ==
  ASSUME NEW a, NEW s, AssignmentsFit(a, s), NEW g \in GroupIds, NEW b \in Assignment,
         b.open => g \in Sources!Listed(s)
  PROVE  AssignmentsFit([a EXCEPT ![g] = b], s)
<1>1. a \in [GroupIds -> Assignment] /\ \A h \in GroupIds : a[h].open => h \in Sources!Listed(s)
  BY DEF AssignmentsFit
<1>2. [a EXCEPT ![g] = b] \in [GroupIds -> Assignment]
  BY <1>1
<1>3. \A h \in GroupIds : [a EXCEPT ![g] = b][h] = IF h = g THEN b ELSE a[h]
  BY <1>1
<1> QED
  BY <1>1, <1>2, <1>3 DEF AssignmentsFit

----------------------------------------------------------------------------
(* The user's actions. *)

LEMMA SourcesForm ==
  ASSUME SourcesInv, NEW t \in Sources!Tabs,
         \/ Sources!openProfileEditorTab(t) \/ Sources!removeTab(t) \/ Sources!CancelRename(t)
         \/ \E n \in {Sources!Ungrouped} \cup GroupNames : Sources!updateProfileTabField(t, n)
         \/ \E g \in GroupIds : Sources!StartRename(t, g)
  PROVE  SourcesInv'
<1>1. /\ store' = store /\ screen' = screen /\ sourceCalls' = sourceCalls
      /\ raced' = raced /\ halfDone' = halfDone /\ assignments' = assignments
  BY DEF Sources!openProfileEditorTab, Sources!removeTab, Sources!CancelRename,
         Sources!updateProfileTabField, Sources!StartRename, Sources!Pure, Sources!NoSend
<1>2. ASSUME SourcesCalm PROVE FormsFit(forms', screen)
  <2>0. FormsFit(forms, screen) /\ screen \in Side
    BY <1>2 DEF SourcesCalm
  <2>1. CASE Sources!openProfileEditorTab(t)
    <3>1. PICK n : n = IF t = Sources!NewTab THEN Sources!Ungrouped ELSE screen.member[t]
      OBVIOUS
    <3>2. PICK g : g = [Sources!NoForm EXCEPT !.open = TRUE, !.group = n]
      OBVIOUS
    <3>3. forms' = [forms EXCEPT ![t] = g]
      BY <2>1, <3>1, <3>2 DEF Sources!openProfileEditorTab
    <3>4. n \in NamedIn(screen)
      <4>1. CASE t = Sources!NewTab
        BY <3>1, <4>1 DEF NamedIn
      <4>2. CASE t # Sources!NewTab
        <5>1. t \in Profiles /\ n = screen.member[t] /\ n >= 0
          BY <2>1, <3>1, <4>2 DEF Sources!openProfileEditorTab, Sources!Members, Sources!Tabs
        <5>2. n \in NamedIn(screen) \cup {Sources!NotYet, Sources!Gone}
          BY <2>0, <5>1 DEF Side
        <5> QED
          BY <5>1, <5>2, SourceNames
      <4> QED
        BY <4>1, <4>2
    <3>5. n \in GroupNames \cup {Sources!Ungrouped}
      BY <2>0, <3>4, SideIs, SideSides DEF NamedIn
    <3>6. g \in Form /\ g.group = n
      BY <3>2, <3>5 DEF Form, Sources!NoForm
    <3> QED
      BY <2>0, <3>3, <3>4, <3>6, FormReplaced
  <2>2. CASE Sources!removeTab(t)
    <3>1. Sources!NoForm \in Form /\ ~Sources!NoForm.open
      BY DEF Form, Sources!NoForm
    <3> QED
      BY <2>0, <2>2, <3>1, FormReplaced DEF Sources!removeTab
  <2>3. CASE Sources!CancelRename(t)
    <3>1. IsPatch([editing |-> 0], forms[t], screen)
      BY DEF IsPatch
    <3> QED
      BY <2>0, <2>3, <3>1, PatchFits DEF Sources!CancelRename
  <2>4. ASSUME NEW n \in {Sources!Ungrouped} \cup GroupNames, Sources!updateProfileTabField(t, n)
        PROVE  FormsFit(forms', screen)
    <3>1. n \in NamedIn(screen) /\ forms' = Sources!PatchForm(t, [group |-> n])
      BY <2>4 DEF Sources!updateProfileTabField, NamedIn
    <3>2. IsPatch([group |-> n], forms[t], screen)
      BY <3>1 DEF IsPatch
    <3> QED
      BY <2>0, <3>1, <3>2, PatchFits
  <2>5. ASSUME NEW g \in GroupIds, Sources!StartRename(t, g)
        PROVE  FormsFit(forms', screen)
    <3>1. IsPatch([editing |-> g], forms[t], screen)
      BY DEF IsPatch
    <3> QED
      BY <2>0, <2>5, <3>1, PatchFits DEF Sources!StartRename
  <2> QED
    BY <2>1, <2>2, <2>3, <2>4, <2>5
<1>3. SourcesCalm => AssignmentsFit(assignments', screen)
  BY <1>1 DEF SourcesCalm
<1> QED
  BY <1>1, <1>2, <1>3, SourcesTouch

LEMMA SourcesAssignment ==
  ASSUME SourcesInv, NEW g \in GroupIds,
         \/ Sources!openGroupAssignmentTab(g)
         \/ \E pids \in SUBSET Profiles : Sources!SelectForGroup(g, pids)
  PROVE  SourcesInv'
<1>1. /\ store' = store /\ screen' = screen /\ sourceCalls' = sourceCalls
      /\ raced' = raced /\ halfDone' = halfDone /\ forms' = forms
  BY DEF Sources!openGroupAssignmentTab, Sources!SelectForGroup, Sources!Pure, Sources!NoSend
<1>2. ASSUME SourcesCalm PROVE AssignmentsFit(assignments', screen)
  <2>0. AssignmentsFit(assignments, screen)
    BY <1>2 DEF SourcesCalm
  <2>1. CASE Sources!openGroupAssignmentTab(g)
    <3>1. PICK b : b = [Sources!NoAssignment EXCEPT !.open = TRUE]
      OBVIOUS
    <3>2. b \in Assignment
      BY <3>1 DEF Assignment, Sources!NoAssignment
    <3>3. assignments' = [assignments EXCEPT ![g] = b] /\ g \in Sources!Listed(screen)
      BY <2>1, <3>1 DEF Sources!openGroupAssignmentTab
    <3> QED
      BY <2>0, <3>2, <3>3, AssignmentReplaced
  <2>2. ASSUME NEW pids \in SUBSET Profiles, Sources!SelectForGroup(g, pids)
        PROVE  AssignmentsFit(assignments', screen)
    <3>1. assignments[g] \in Assignment /\ (assignments[g].open => g \in Sources!Listed(screen))
      BY <2>0 DEF AssignmentsFit
    <3>2. PICK b : b = [assignments[g] EXCEPT !.selected = pids]
      OBVIOUS
    <3>3. b \in Assignment /\ b.open = assignments[g].open
      BY <3>1, <3>2 DEF Assignment
    <3>4. assignments' = [assignments EXCEPT ![g] = b]
      BY <2>2, <3>2 DEF Sources!SelectForGroup
    <3> QED
      BY <2>0, <3>1, <3>3, <3>4, AssignmentReplaced
  <2> QED
    BY <2>1, <2>2
<1>3. SourcesCalm => FormsFit(forms', screen)
  BY <1>1 DEF SourcesCalm
<1> QED
  BY <1>1, <1>2, <1>3, SourcesTouch

\* What a handler sends.
LEMMA SourcesCalled ==
  ASSUME NEW op, NEW t, NEW body, NEW c, c = Sources!Call(op, t, body),
         IF op = "assign" THEN t \in GroupIds ELSE t \in Sources!Tabs,
         op \in {"create", "rename"} => body.name \in GroupNames,
         op = "delete" => body.pid \in Profiles
  PROVE  /\ c.op = op /\ c.tab = t /\ c.body = body /\ c.reply = Sources!NoReply
         /\ IsRequest(c)
<1>1. /\ c = [op |-> op, tab |-> t, body |-> body, reply |-> Sources!NoReply]
  BY DEF Sources!Call
<1>2. c.op = op /\ c.tab = t /\ c.body = body /\ c.reply = Sources!NoReply
  BY <1>1
<1>3. c = [op |-> c.op, tab |-> c.tab, body |-> c.body, reply |-> c.reply]
  BY <1>1, <1>2
<1> QED
  BY <1>2, <1>3 DEF IsRequest

LEMMA SourcesGroupCall ==
  ASSUME SourcesInv, NEW t \in Sources!Tabs, NEW op \in {"create", "rename", "remove"}, NEW body,
         op \in {"create", "rename"} => body.name \in GroupNames, Sources!GroupCall(t, op, body)
  PROVE  SourcesInv'
<1>1. PICK c : c = Sources!Call(op, t, body)
  OBVIOUS
<1>2. /\ Sources!Send(c) /\ forms' = Sources!PatchForm(t, [groupBusy |-> TRUE])
      /\ store' = store /\ screen' = screen /\ halfDone' = halfDone /\ assignments' = assignments
  BY <1>1 DEF Sources!GroupCall, Sources!Pure
<1>3. c.op = op /\ c.reply = Sources!NoReply /\ IsRequest(c)
  BY <1>1, SourcesCalled
<1>4. ASSUME SourcesCalm PROVE FormsFit(forms', screen) /\ AssignmentsFit(assignments', screen)
  <2>1. IsPatch([groupBusy |-> TRUE], forms[t], screen)
    BY DEF IsPatch
  <2> QED
    BY <1>2, <1>4, <2>1, PatchFits DEF SourcesCalm
<1> QED
  BY <1>2, <1>3, <1>4, SourcesAsk

LEMMA SourcesFormCall ==
  ASSUME SourcesInv, NEW t \in Sources!Tabs, Sources!testProfileTab(t) \/ Sources!saveProfileTab(t)
  PROVE  SourcesInv'
<1>1. ASSUME NEW op \in {"test", "save"}, NEW status \in {"testing", "saving"}, NEW body,
             op = "save" => body.name = forms[t].group, Sources!FormCall(t, op, status, body)
      PROVE  SourcesInv'
  <2>1. PICK c : c = Sources!Call(op, t, body)
    OBVIOUS
  <2>2. /\ Sources!Send(c) /\ forms' = Sources!PatchForm(t, [status |-> status]) /\ forms[t].open
        /\ store' = store /\ screen' = screen /\ halfDone' = halfDone /\ assignments' = assignments
    BY <1>1, <2>1 DEF Sources!FormCall, Sources!Pure
  <2>3. c.op = op /\ c.body = body /\ c.reply = Sources!NoReply /\ IsRequest(c)
    BY <2>1, SourcesCalled
  <2>4. ASSUME SourcesCalm
        PROVE  /\ FormsFit(forms', screen) /\ AssignmentsFit(assignments', screen)
               /\ c.op = "save" => c.body.name \in NamedIn(screen)
    <3>1. IsPatch([status |-> status], forms[t], screen)
      BY DEF IsPatch
    <3>2. forms[t].group \in NamedIn(screen)
      BY <2>2, <2>4 DEF SourcesCalm, FormsFit
    <3> QED
      BY <1>1, <2>2, <2>3, <2>4, <3>1, <3>2, PatchFits DEF SourcesCalm
  <2> QED
    BY <2>2, <2>3, <2>4, SourcesAsk
<1>2. [pid |-> t, name |-> forms[t].group, known |-> t \in loaded].name = forms[t].group
  OBVIOUS
<1> QED
  BY <1>1, <1>2 DEF Sources!testProfileTab, Sources!saveProfileTab

LEMMA SourcesPlainCall ==
  ASSUME SourcesInv, NEW t \in Sources!Tabs, NEW op \in {"delete", "import", "disconnect", "list", "createdb"},
         NEW body, op = "delete" => body.pid \in Profiles, Sources!Send(Sources!Call(op, t, body)),
         store' = store, screen' = screen, halfDone' = halfDone, forms' = forms, assignments' = assignments
  PROVE  SourcesInv'
<1>1. PICK c : c = Sources!Call(op, t, body)
  OBVIOUS
<1>2. c.op = op /\ c.reply = Sources!NoReply /\ IsRequest(c)
  BY <1>1, SourcesCalled
<1>3. SourcesCalm => FormsFit(forms', screen) /\ AssignmentsFit(assignments', screen)
  BY DEF SourcesCalm
<1> QED
  BY <1>1, <1>2, <1>3, SourcesAsk

LEMMA SourcesAssignCall ==
  ASSUME SourcesInv, NEW g \in GroupIds, Sources!applyProfilesToGroup(g)
  PROVE  SourcesInv'
<1>1. PICK c : c = Sources!Call("assign", g, [gid |-> g, pids |-> assignments[g].selected])
  OBVIOUS
<1>2. /\ Sources!Send(c) /\ assignments' = [assignments EXCEPT ![g].submitting = TRUE] /\ g \in Sources!Listed(screen)
      /\ store' = store /\ screen' = screen /\ halfDone' = halfDone /\ forms' = forms
  BY <1>1 DEF Sources!applyProfilesToGroup, Sources!Pure
<1>3. c.op = "assign" /\ c.reply = Sources!NoReply /\ IsRequest(c)
  BY <1>1, SourcesCalled
<1>4. ASSUME SourcesCalm PROVE FormsFit(forms', screen) /\ AssignmentsFit(assignments', screen)
  <2>1. assignments[g] \in Assignment /\ AssignmentsFit(assignments, screen)
    BY <1>4 DEF SourcesCalm, AssignmentsFit
  <2>2. PICK b : b = [assignments[g] EXCEPT !.submitting = TRUE]
    OBVIOUS
  <2>3. b \in Assignment
    BY <2>1, <2>2 DEF Assignment
  <2>4. assignments' = [assignments EXCEPT ![g] = b]
    BY <1>2, <2>2
  <2>5. AssignmentsFit([assignments EXCEPT ![g] = b], screen)
    BY <1>2, <2>1, <2>3, AssignmentReplaced
  <2> QED
    BY <1>2, <1>4, <2>4, <2>5 DEF SourcesCalm
<1> QED
  BY <1>2, <1>3, <1>4, SourcesAsk

----------------------------------------------------------------------------
(* The store. *)

LEMMA SourcesReplied ==
  ASSUME NEW c, IsRequest(c), NEW r, NEW d, d = [c EXCEPT !.reply = r]
  PROVE  d.op = c.op /\ d.body = c.body /\ d.reply = r
BY DEF IsRequest

\* Before it is executed, a change has left the store and the screen alike.
LEMMA SourcesBefore ==
  ASSUME SourcesCalm, NEW c \in sourceCalls, c.reply = Sources!NoReply
  PROVE  /\ IsRequest(c) /\ store \in Side
         /\ c.op \in Sources!Changing \ {"bootstrap"} => store = screen
         /\ c.op = "bootstrap" => Grown(screen, store)
         /\ c.op = "save" => c.body.name \in NamedIn(store)
<1>1. ~Answered(c)
  BY DEF Answered, Sources!NoReply
<1>2. IsRequest(c) /\ (c.op \in Sources!Changing => InStep(c, screen, store))
  BY DEF SourcesCalm
<1>3. {"import", "save", "bootstrap"} \subseteq Sources!Changing
  BY DEF Sources!Changing
<1>4. store \in Side
  BY DEF SourcesCalm
<1>5. c.op \in Sources!Changing \ {"bootstrap"} => store = screen
  BY <1>1, <1>2 DEF InStep
<1>6. c.op = "bootstrap" => Grown(screen, store)
  BY <1>2, <1>3 DEF InStep
<1>7. c.op = "save" => c.body.name \in NamedIn(store)
  BY <1>2, <1>3, <1>5 DEF InStep
<1> QED
  BY <1>2, <1>4, <1>5, <1>6, <1>7

LEMMA SourcesServeGroup ==
  ASSUME SourcesInv, NEW c \in sourceCalls, c.reply = Sources!NoReply,
         Sources!ServeCreate(c) \/ Sources!ServeRename(c) \/ Sources!ServeRemove(c)
  PROVE  SourcesInv'
<1>1. CASE Sources!ServeCreate(c)
  <2>1. PICK g \in GroupIds : /\ store.groups[g] = Sources!NotYet
          /\ Sources!Done(c, [store EXCEPT !.groups[g] = c.body.name], [status |-> "ok", gid |-> g, name |-> c.body.name])
    BY <1>1 DEF Sources!ServeCreate
  <2>2. PICK s, r : s = [store EXCEPT !.groups[g] = c.body.name] /\ r = [status |-> "ok", gid |-> g, name |-> c.body.name]
    OBVIOUS
  <2>3. PICK d : d = [c EXCEPT !.reply = r]
    OBVIOUS
  <2>4. ASSUME SourcesCalm PROVE s \in Side /\ InStep(d, screen, s)
    <3>1. c.op = "create" /\ IsRequest(c) /\ store \in Side /\ store = screen
      BY <1>1, <2>4, SourcesBefore DEF Sources!ServeCreate, Sources!Changing
    <3>2. c.body.name \in GroupNames /\ d.op = "create" /\ d.reply = r
      BY <2>3, <3>1, SourcesReplied DEF IsRequest
    <3>3. s \in Side
      BY <2>1, <2>2, <3>1, <3>2, GroupCreated
    <3>4. Answered(d) /\ Executed(d, screen, s)
      BY <2>1, <2>2, <3>1, <3>2 DEF Answered, Executed
    <3> QED
      BY <3>2, <3>3, <3>4 DEF InStep
  <2>5. Sources!Replied(c, r) /\ Sources!ScreenKeeps /\ store' = s /\ halfDone' = halfDone
    BY <2>1, <2>2 DEF Sources!Done
  <2>6. c.op \in Sources!Changing
    BY <1>1 DEF Sources!ServeCreate, Sources!Changing
  <2> QED
    BY <2>3, <2>4, <2>5, <2>6, SourcesServed DEF SourcesInv, Sources!ScreenKeeps
<1>2. CASE Sources!ServeRename(c)
  <2>1. PICK old : old = store.groups[c.body.gid]
    OBVIOUS
  <2>2. PICK s, r : /\ s = Sources!Renamed([store EXCEPT !.groups[c.body.gid] = c.body.name], old, c.body.name)
                    /\ r = [status |-> "ok", old |-> old, name |-> c.body.name]
    OBVIOUS
  <2>3. PICK d : d = [c EXCEPT !.reply = r]
    OBVIOUS
  <2>4. ASSUME SourcesCalm PROVE s \in Side /\ InStep(d, screen, s)
    <3>1. c.op = "rename" /\ IsRequest(c) /\ store \in Side /\ store = screen
      BY <1>2, <2>4, SourcesBefore DEF Sources!ServeRename, Sources!Changing
    <3>2. c.body.name \in GroupNames /\ d.op = "rename" /\ d.reply = r /\ d.body = c.body
      BY <2>3, <3>1, SourcesReplied DEF IsRequest
    <3>3. c.body.gid \in Sources!Listed(store)
      BY <1>2 DEF Sources!ServeRename
    <3>4. s \in Side
      BY <2>1, <2>2, <3>1, <3>2, <3>3, GroupRenamed
    <3>5. r.status = "ok" /\ r.old = old /\ r.name = c.body.name
      BY <2>2
    <3>6. Answered(d) /\ Executed(d, screen, s)
      BY <2>1, <2>2, <3>1, <3>2, <3>3, <3>5 DEF Answered, Executed
    <3> QED
      BY <3>2, <3>4, <3>6 DEF InStep
  <2>5. Sources!Replied(c, r) /\ Sources!ScreenKeeps /\ store' = s /\ halfDone' = halfDone
    BY <1>2, <2>1, <2>2 DEF Sources!Done, Sources!ServeRename
  <2>6. c.op \in Sources!Changing
    BY <1>2 DEF Sources!ServeRename, Sources!Changing
  <2> QED
    BY <2>3, <2>4, <2>5, <2>6, SourcesServed DEF SourcesInv, Sources!ScreenKeeps
<1>3. CASE Sources!ServeRemove(c)
  <2>1. PICK old : old = store.groups[c.body.gid]
    OBVIOUS
  <2>2. PICK s, r : /\ s = Sources!Renamed([store EXCEPT !.groups[c.body.gid] = Sources!Gone], old, Sources!Ungrouped)
                    /\ r = [status |-> "ok", old |-> old]
    OBVIOUS
  <2>3. PICK d : d = [c EXCEPT !.reply = r]
    OBVIOUS
  <2>4. ASSUME SourcesCalm PROVE s \in Side /\ InStep(d, screen, s)
    <3>1. c.op = "remove" /\ IsRequest(c) /\ store \in Side /\ store = screen
      BY <1>3, <2>4, SourcesBefore DEF Sources!ServeRemove, Sources!Changing
    <3>2. d.op = "remove" /\ d.reply = r /\ d.body = c.body
      BY <2>3, <3>1, SourcesReplied
    <3>3. c.body.gid \in Sources!Listed(store)
      BY <1>3 DEF Sources!ServeRemove
    <3>4. s \in Side
      BY <2>1, <2>2, <3>1, <3>3, GroupRemoved
    <3>5. r.status = "ok" /\ r.old = old
      BY <2>2
    <3>6. Answered(d) /\ Executed(d, screen, s)
      BY <2>1, <2>2, <3>1, <3>2, <3>3, <3>5 DEF Answered, Executed
    <3> QED
      BY <3>2, <3>4, <3>6 DEF InStep
  <2>5. Sources!Replied(c, r) /\ Sources!ScreenKeeps /\ store' = s /\ halfDone' = halfDone
    BY <1>3, <2>1, <2>2 DEF Sources!Done, Sources!ServeRemove
  <2>6. c.op \in Sources!Changing
    BY <1>3 DEF Sources!ServeRemove, Sources!Changing
  <2> QED
    BY <2>3, <2>4, <2>5, <2>6, SourcesServed DEF SourcesInv, Sources!ScreenKeeps
<1> QED
  BY <1>1, <1>2, <1>3

LEMMA SourcesServeAssign ==
  ASSUME SourcesInv, NEW c \in sourceCalls, c.reply = Sources!NoReply, Sources!ServeAssign(c)
  PROVE  SourcesInv'
<1>1. PICK name : name = store.groups[c.body.gid]
  OBVIOUS
<1>2. PICK s, r : s = Sources!Assigned(store, c.body.pids, name) /\ r = [status |-> "ok", name |-> name]
  OBVIOUS
<1>3. PICK d : d = [c EXCEPT !.reply = r]
  OBVIOUS
<1>4. ASSUME SourcesCalm PROVE s \in Side /\ InStep(d, screen, s)
  <2>1. c.op = "assign" /\ IsRequest(c) /\ store \in Side /\ store = screen
    BY <1>4, SourcesBefore DEF Sources!ServeAssign, Sources!Changing
  <2>2. d.op = "assign" /\ d.reply = r /\ d.body = c.body
    BY <1>3, <2>1, SourcesReplied
  <2>3. name \in Sources!NamesIn(store)
    BY <1>1 DEF Sources!ServeAssign, Sources!NamesIn
  <2>4. s \in Side
    BY <1>2, <2>1, <2>3, MembersAssigned DEF NamedIn
  <2>5. Answered(d) /\ Executed(d, screen, s)
    BY <1>2, <2>1, <2>2, <2>3 DEF Answered, Executed
  <2> QED
    BY <2>2, <2>4, <2>5 DEF InStep
<1>5. Sources!Replied(c, r) /\ Sources!ScreenKeeps /\ store' = s /\ halfDone' = halfDone
  BY <1>1, <1>2 DEF Sources!Done, Sources!ServeAssign
<1>6. c.op \in Sources!Changing
  BY DEF Sources!ServeAssign, Sources!Changing
<1> QED
  BY <1>3, <1>4, <1>5, <1>6, SourcesServed DEF SourcesInv, Sources!ScreenKeeps

LEMMA SourcesServeMember ==
  ASSUME SourcesInv, NEW c \in sourceCalls, c.reply = Sources!NoReply, NEW answered \in BOOLEAN,
         Sources!ServeSave(c, answered) \/ Sources!ServeDelete(c, answered)
  PROVE  SourcesInv'
<1> SUFFICES ASSUME ~raced', ~halfDone' PROVE SourcesCalm'
  BY DEF SourcesInv
<1>0. answered /\ SourcesCalm
  BY DEF Sources!ServeSave, Sources!ServeDelete, Sources!ScreenKeeps, SourcesInv
<1>1. CASE Sources!ServeSave(c, answered)
  <2>1. PICK p \in Profiles, s \in Sources!EnsureGroup(store, c.body.name) :
          /\ store' = Sources!upsertProfile(s, p, c.body.name)
          /\ Sources!Replied(c, [status |-> "ok", pid |-> p, name |-> c.body.name])
    BY <1>0, <1>1 DEF Sources!ServeSave
  <2>2. PICK r : r = [status |-> "ok", pid |-> p, name |-> c.body.name]
    OBVIOUS
  <2>3. PICK d : d = [c EXCEPT !.reply = r]
    OBVIOUS
  <2>4. c.op = "save" /\ c.op \in Sources!Changing /\ Sources!ScreenKeeps
    BY <1>1 DEF Sources!ServeSave, Sources!Changing
  <2>5. IsRequest(c) /\ store \in Side /\ store = screen /\ c.body.name \in NamedIn(store)
    BY <1>0, <2>4, SourcesBefore
  <2>6. c.body.name \in GroupNames \cup {Sources!Ungrouped}
    BY <2>5, SideIs, SideSides DEF NamedIn
  <2>7. s = store
    BY <2>1, <2>5, <2>6, GroupEnsured
  <2>8. store' \in Side
    BY <2>1, <2>5, <2>7, MemberPut
  <2>9. d.op = "save" /\ d.reply = r /\ d.body = c.body
    BY <2>3, <2>4, <2>5, SourcesReplied
  <2>10. r.status = "ok" /\ r.pid = p /\ r.name = c.body.name
    BY <2>2
  <2>11. Answered(d) /\ Executed(d, screen, store')
    BY <2>1, <2>5, <2>7, <2>9, <2>10 DEF Answered, Executed
  <2>12. InStep(d, screen, store')
    BY <2>5, <2>9, <2>11 DEF InStep
  <2> QED
    BY <1>0, <2>1, <2>2, <2>3, <2>4, <2>8, <2>12, SourcesServed
<1>2. CASE Sources!ServeDelete(c, answered)
  <2>1. PICK r : r = [status |-> "ok"]
    OBVIOUS
  <2>2. PICK d : d = [c EXCEPT !.reply = r]
    OBVIOUS
  <2>3. /\ c.op = "delete" /\ c.op \in Sources!Changing /\ Sources!ScreenKeeps
        /\ store' = Sources!upsertProfile(store, c.body.pid, Sources!Gone) /\ Sources!Replied(c, r)
    BY <1>0, <1>2, <2>1 DEF Sources!ServeDelete, Sources!Changing
  <2>4. IsRequest(c) /\ store \in Side /\ store = screen
    BY <1>0, <2>3, SourcesBefore
  <2>5. c.body.pid \in Profiles
    BY <2>3, <2>4 DEF IsRequest
  <2>6. store' \in Side
    BY <2>3, <2>4, <2>5, MemberPut
  <2>7. d.op = "delete" /\ d.reply = r /\ d.body = c.body
    BY <2>2, <2>3, <2>4, SourcesReplied
  <2>8. Answered(d) /\ Executed(d, screen, store')
    BY <2>1, <2>3, <2>4, <2>7 DEF Answered, Executed
  <2>9. InStep(d, screen, store')
    BY <2>7, <2>8 DEF InStep
  <2> QED
    BY <1>0, <2>2, <2>3, <2>6, <2>9, SourcesServed
<1> QED
  BY <1>1, <1>2

LEMMA SourcesServeRest ==
  ASSUME SourcesInv, NEW c \in sourceCalls, c.reply = Sources!NoReply,
         Sources!ServeImport(c) \/ Sources!ServeBootstrap(c) \/ Sources!ServeOther(c) \/ Sources!ServeNothing(c)
  PROVE  SourcesInv'
<1> SUFFICES ASSUME ~raced', ~halfDone' PROVE SourcesCalm'
  BY DEF SourcesInv
<1>0. /\ SourcesCalm /\ Sources!ScreenKeeps
      /\ IsRequest(c) /\ store \in Side
  BY SourcesBefore DEF Sources!ServeImport, Sources!ServeBootstrap, Sources!ServeOther, Sources!ServeNothing,
        Sources!Done, Sources!ScreenKeeps, SourcesInv
<1>1. CASE Sources!ServeImport(c)
  <2>0. PICK p \in Profiles, name \in GroupNames :
          \E s \in Sources!EnsureGroup(store, name) :
            store' = Sources!upsertProfile(s, p, name) /\ Sources!Replied(c, [status |-> "ok"])
    BY <1>1 DEF Sources!ServeImport, Sources!Done
  <2>1. PICK s \in Sources!EnsureGroup(store, name) :
          store' = Sources!upsertProfile(s, p, name) /\ Sources!Replied(c, [status |-> "ok"])
    BY <2>0
  <2>2. PICK d : d = [c EXCEPT !.reply = [status |-> "ok"]]
    OBVIOUS
  <2>3. c.op = "import" /\ c.op \in Sources!Changing /\ store = screen
    BY <1>0, <1>1, SourcesBefore DEF Sources!ServeImport, Sources!Changing
  <2>4. s \in Side /\ Grown(store, s) /\ name \in NamedIn(s)
    BY <1>0, <2>1, GroupEnsured
  <2>5. store' \in Side /\ store'.groups = s.groups
    BY <2>1, <2>4, MemberPut
  <2>6. Grown(screen, store')
    BY <2>3, <2>4, <2>5 DEF Grown
  <2>7. d.op = "import" /\ d.reply = [status |-> "ok"]
    BY <1>0, <2>2, <2>3, SourcesReplied
  <2>8. Answered(d) /\ Executed(d, screen, store')
    BY <2>7 DEF Answered, Executed
  <2>9. InStep(d, screen, store')
    BY <2>6, <2>7, <2>8 DEF InStep
  <2> QED
    BY <1>0, <2>1, <2>2, <2>3, <2>5, <2>9, SourcesServed
<1>2. CASE Sources!ServeBootstrap(c)
  <2>1. PICK r : r = [status |-> "ok", snapshot |-> store]
    OBVIOUS
  <2>2. PICK d : d = [c EXCEPT !.reply = r]
    OBVIOUS
  <2>3. c.op = "bootstrap" /\ c.op \in Sources!Changing /\ Sources!Replied(c, r) /\ store' = store
    BY <1>2, <2>1 DEF Sources!ServeBootstrap, Sources!Changing, Sources!Done
  <2>4. Grown(screen, store')
    BY <1>0, <2>3, SourcesBefore
  <2>5. d.op = "bootstrap" /\ d.reply = r
    BY <1>0, <2>2, <2>3, SourcesReplied
  <2>6. Answered(d) /\ Executed(d, screen, store')
    BY <2>1, <2>3, <2>5 DEF Answered, Executed
  <2>7. InStep(d, screen, store')
    BY <2>4, <2>5, <2>6 DEF InStep
  <2> QED
    BY <1>0, <2>2, <2>3, <2>7, SourcesServed
<1>3. CASE Sources!ServeOther(c)
  <2>1. c.op \notin Sources!Changing /\ Sources!Replied(c, [status |-> "ok"]) /\ store' = store
    BY <1>3 DEF Sources!ServeOther, Sources!Changing, Sources!Done
  <2> QED
    BY <1>0, <2>1, SourcesServed
<1>4. CASE Sources!ServeNothing(c)
  <2>1. PICK d : d = [c EXCEPT !.reply = [status |-> "error"]]
    OBVIOUS
  <2>2. c.op # "bootstrap" /\ Sources!Replied(c, [status |-> "error"]) /\ store' = store
    BY <1>4 DEF Sources!ServeNothing
  <2>3. d.op = c.op /\ d.body = c.body /\ ~Answered(d)
    BY <1>0, <2>1, SourcesReplied DEF Answered
  <2>4. c.op \in Sources!Changing => store = screen
    BY <1>0, <2>2, SourcesBefore
  <2>5. c.op = "save" => c.body.name \in NamedIn(store)
    BY <1>0, SourcesBefore
  <2>6. c.op \in Sources!Changing => InStep(d, screen, store')
    BY <2>2, <2>3, <2>4, <2>5 DEF InStep, Sources!Changing
  <2> QED
    BY <1>0, <2>1, <2>2, <2>6, SourcesServed
<1> QED
  BY <1>1, <1>2, <1>3, <1>4

----------------------------------------------------------------------------
(* The answers. *)

\* What an answer that is used says of the two sides.
LEMMA SourcesHeard ==
  ASSUME SourcesCalm, NEW c \in sourceCalls, c.op \in Sources!Changing, c.reply.status = "ok"
  PROVE  /\ IsRequest(c) /\ InStep(c, screen, store) /\ Executed(c, screen, store)
         /\ screen \in Side /\ store \in Side
         /\ FormsFit(forms, screen) /\ AssignmentsFit(assignments, screen)
<1>1. Answered(c)
  BY DEF Answered
<1>2. IsRequest(c) /\ InStep(c, screen, store)
  BY DEF SourcesCalm
<1>3. Executed(c, screen, store)
  BY <1>1, <1>2 DEF InStep
<1> QED
  BY <1>2, <1>3 DEF SourcesCalm

LEMMA SourcesCreateAnswer ==
  ASSUME SourcesCalm, NEW c \in sourceCalls, Sources!CreateAnswer(c)
  PROVE  SourcesCalm'
<1>1. /\ c.op = "create" /\ c.op \in Sources!Changing /\ c.reply.status = "ok"
      /\ store' = store /\ sourceCalls' = sourceCalls \ {c} /\ assignments' = assignments
      /\ screen' = [screen EXCEPT !.groups[c.reply.gid] = c.reply.name]
      /\ forms' = Sources!PatchForm(c.tab, [groupBusy |-> FALSE, group |-> c.reply.name])
  BY DEF Sources!CreateAnswer, Sources!Received, Sources!Consumed, Sources!Changing
<1>2. /\ IsRequest(c) /\ Executed(c, screen, store) /\ screen \in Side
      /\ FormsFit(forms, screen) /\ AssignmentsFit(assignments, screen)
  BY <1>1, SourcesHeard
<1>3. /\ c.reply.gid \in GroupIds /\ c.reply.name \in GroupNames
      /\ screen.groups[c.reply.gid] = Sources!NotYet /\ screen' = store
  BY <1>1, <1>2 DEF Executed
<1>4. /\ Sources!Listed(screen) \subseteq Sources!Listed(store) /\ Sources!NamesIn(screen) \subseteq Sources!NamesIn(store)
      /\ c.reply.name \in Sources!NamesIn(store)
  BY <1>1, <1>2, <1>3, GroupCreated
<1>5. FormsFit(forms, store) /\ AssignmentsFit(assignments, store)
  BY <1>2, <1>4, StillFit
<1>6. IsPatch([groupBusy |-> FALSE, group |-> c.reply.name], forms[c.tab], store)
  BY <1>3, <1>4 DEF IsPatch, NamedIn
<1>7. FormsFit(forms', store)
  BY <1>1, <1>2, <1>5, <1>6, PatchFits DEF IsRequest
<1> QED
  BY <1>1, <1>3, <1>5, <1>7, SourcesUsed

LEMMA SourcesRenameAnswer ==
  ASSUME SourcesCalm, NEW c \in sourceCalls, Sources!RenameAnswer(c)
  PROVE  SourcesCalm'
<1>1. /\ c.op = "rename" /\ c.op \in Sources!Changing /\ c.reply.status = "ok"
      /\ store' = store /\ sourceCalls' = sourceCalls \ {c} /\ assignments' = assignments
      /\ screen' = Sources!Renamed([screen EXCEPT !.groups[c.body.gid] = IF @ > 0 THEN c.reply.name ELSE @],
                                   c.reply.old, c.reply.name)
      /\ forms' = Sources!Regroup(c.tab, c.reply.old, c.reply.name, [groupBusy |-> FALSE, editing |-> 0])
  BY DEF Sources!RenameAnswer, Sources!Received, Sources!Consumed, Sources!Changing
<1>2. /\ IsRequest(c) /\ Executed(c, screen, store) /\ screen \in Side
      /\ FormsFit(forms, screen) /\ AssignmentsFit(assignments, screen)
  BY <1>1, SourcesHeard
<1>3. /\ c.body.gid \in Sources!Listed(screen) /\ c.reply.name \in GroupNames
      /\ c.reply.old = screen.groups[c.body.gid]
      /\ store = Sources!Renamed([screen EXCEPT !.groups[c.body.gid] = c.reply.name], c.reply.old, c.reply.name)
  BY <1>1, <1>2 DEF Executed
<1>4. screen' = store
  <2>1. screen.groups[c.body.gid] > 0
    BY <1>3 DEF Sources!Listed
  <2>2. [screen EXCEPT !.groups[c.body.gid] = IF @ > 0 THEN c.reply.name ELSE @]
          = [screen EXCEPT !.groups[c.body.gid] = c.reply.name]
    BY <2>1
  <2> QED
    BY <1>1, <1>3, <2>2
<1>5. /\ Sources!Listed(store) = Sources!Listed(screen) /\ c.reply.name \in Sources!NamesIn(store)
      /\ Sources!NamesIn(screen) \ {c.reply.old} \subseteq Sources!NamesIn(store)
  BY <1>2, <1>3, GroupRenamed
<1>6. IsPatch([groupBusy |-> FALSE, editing |-> 0], forms[c.tab], screen)
  BY DEF IsPatch
<1>7. c.reply.name \in NamedIn(store) /\ NamedIn(screen) \ {c.reply.old} \subseteq NamedIn(store)
  BY <1>5 DEF NamedIn
<1>8. FormsFit(forms', store)
  BY <1>1, <1>2, <1>3, <1>6, <1>7, Regrouped DEF IsRequest
<1>9. AssignmentsFit(assignments', store)
  BY <1>1, <1>2, <1>5 DEF AssignmentsFit
<1> QED
  BY <1>1, <1>4, <1>8, <1>9, SourcesUsed

LEMMA SourcesRemoveAnswer ==
  ASSUME SourcesCalm, NEW c \in sourceCalls, Sources!RemoveAnswer(c)
  PROVE  SourcesCalm'
<1>0. PICK editing, group : /\ editing = IF forms[c.tab].editing = c.body.gid THEN 0 ELSE forms[c.tab].editing
                            /\ group = IF forms[c.tab].group = c.body.name THEN Sources!Ungrouped ELSE forms[c.tab].group
  OBVIOUS
<1>1. /\ c.op = "remove" /\ c.op \in Sources!Changing /\ c.reply.status = "ok"
      /\ store' = store /\ sourceCalls' = sourceCalls \ {c}
      /\ assignments' = [assignments EXCEPT ![c.body.gid] = Sources!NoAssignment]
      /\ screen' = Sources!Renamed([screen EXCEPT !.groups[c.body.gid] = Sources!Gone], c.reply.old, Sources!Ungrouped)
  BY DEF Sources!RemoveAnswer, Sources!Received, Sources!Consumed, Sources!Changing
<1>2. forms' = Sources!Regroup(c.tab, c.reply.old, Sources!Ungrouped, [groupBusy |-> FALSE, editing |-> editing, group |-> group])
  BY <1>0 DEF Sources!RemoveAnswer
<1>3. /\ IsRequest(c) /\ Executed(c, screen, store) /\ screen \in Side
      /\ FormsFit(forms, screen) /\ AssignmentsFit(assignments, screen)
  BY <1>1, SourcesHeard
<1>4. c.body.gid \in Sources!Listed(screen) /\ c.reply.old = screen.groups[c.body.gid] /\ screen' = store
  BY <1>1, <1>3 DEF Executed
<1>5. /\ Sources!Listed(store) = Sources!Listed(screen) \ {c.body.gid}
      /\ Sources!NamesIn(screen) \ {c.reply.old} \subseteq Sources!NamesIn(store)
  BY <1>1, <1>3, <1>4, GroupRemoved
<1>6. c.tab \in Sources!Tabs
  BY <1>1, <1>3 DEF IsRequest
<1>7. IsPatch([groupBusy |-> FALSE, editing |-> editing, group |-> group], forms[c.tab], screen)
  <2>1. forms[c.tab] \in Form /\ (forms[c.tab].open => forms[c.tab].group \in NamedIn(screen))
    BY <1>3, <1>6 DEF FormsFit
  <2>2. editing \in GroupIds \cup {0} /\ group \in GroupNames \cup {Sources!Ungrouped}
    BY <1>0, <2>1 DEF Form
  <2>3. forms[c.tab].open => group \in NamedIn(screen)
    BY <1>0, <2>1 DEF NamedIn
  <2> QED
    BY <2>2, <2>3 DEF IsPatch
<1>8. Sources!Ungrouped \in NamedIn(store) /\ NamedIn(screen) \ {c.reply.old} \subseteq NamedIn(store)
  BY <1>5 DEF NamedIn
<1>9. FormsFit(forms', store)
  BY <1>2, <1>3, <1>6, <1>7, <1>8, Regrouped
<1>10. AssignmentsFit(assignments', store)
  <2>1. Sources!NoAssignment \in Assignment /\ ~Sources!NoAssignment.open
    BY DEF Assignment, Sources!NoAssignment
  <2>2. assignments \in [GroupIds -> Assignment] /\ \A h \in GroupIds : assignments[h].open => h \in Sources!Listed(screen)
    BY <1>3 DEF AssignmentsFit
  <2>3. assignments' \in [GroupIds -> Assignment]
    BY <1>1, <2>1, <2>2
  <2>4. \A h \in GroupIds : assignments'[h] = IF h = c.body.gid THEN Sources!NoAssignment ELSE assignments[h]
    BY <1>1, <2>2
  <2>5. \A h \in GroupIds : assignments'[h].open => h \in Sources!Listed(store)
    BY <1>5, <2>1, <2>2, <2>4
  <2> QED
    BY <2>3, <2>5 DEF AssignmentsFit
<1> QED
  BY <1>1, <1>4, <1>9, <1>10, SourcesUsed

LEMMA SourcesAssignAnswer ==
  ASSUME SourcesCalm, NEW c \in sourceCalls, Sources!AssignAnswer(c)
  PROVE  SourcesCalm'
<1>1. /\ c.op = "assign" /\ c.op \in Sources!Changing /\ c.reply.status = "ok"
      /\ store' = store /\ sourceCalls' = sourceCalls \ {c}
      /\ screen' = Sources!Assigned(screen, c.body.pids, c.reply.name)
  BY DEF Sources!AssignAnswer, Sources!Received, Sources!Consumed, Sources!Changing
<1>2. forms' = [t \in Sources!Tabs |-> IF t \in c.body.pids /\ forms[t].open
                                       THEN [forms[t] EXCEPT !.group = c.reply.name] ELSE forms[t]]
  BY DEF Sources!AssignAnswer
<1>3. /\ IsRequest(c) /\ Executed(c, screen, store) /\ screen \in Side
      /\ FormsFit(forms, screen) /\ AssignmentsFit(assignments, screen)
  BY <1>1, SourcesHeard
<1>4. c.reply.name \in Sources!NamesIn(screen) /\ screen' = store /\ c.tab \in GroupIds
  BY <1>1, <1>3 DEF Executed, IsRequest
<1>5. Sources!NamesIn(store) = Sources!NamesIn(screen) /\ Sources!Listed(store) = Sources!Listed(screen)
  BY <1>1, <1>3, <1>4, MembersAssigned DEF NamedIn
<1>6. FormsFit(forms, store) /\ AssignmentsFit(assignments, store) /\ c.reply.name \in NamedIn(store)
  BY <1>3, <1>4, <1>5, StillFit DEF NamedIn
<1>7. FormsFit(forms', store)
  <2>1. c.reply.name \in GroupNames
    BY <1>3, <1>4, SideIs, SideSides
  <2>2. ASSUME NEW t \in Sources!Tabs
        PROVE  forms'[t] \in Form /\ (forms'[t].open => forms'[t].group \in NamedIn(store))
    <3>1. PICK r \in Form : r = forms[t]
      BY <1>6 DEF FormsFit
    <3>2. r.open => r.group \in NamedIn(store)
      BY <1>6, <3>1 DEF FormsFit
    <3>3. [r EXCEPT !.group = c.reply.name] \in Form /\ [r EXCEPT !.group = c.reply.name].group = c.reply.name
      BY <2>1 DEF Form
    <3>4. forms'[t] = IF t \in c.body.pids /\ r.open THEN [r EXCEPT !.group = c.reply.name] ELSE r
      BY <1>2, <3>1
    <3> QED
      BY <1>6, <3>2, <3>3, <3>4
  <2> QED
    BY <1>2, <2>2 DEF FormsFit
<1>8. AssignmentsFit(assignments', store)
  <2>1. PICK b : b = [Sources!NoAssignment EXCEPT !.open = TRUE]
    OBVIOUS
  <2>2. b \in Assignment
    BY <2>1 DEF Assignment, Sources!NoAssignment
  <2>3. assignments' = IF assignments[c.tab].open THEN [assignments EXCEPT ![c.tab] = b] ELSE assignments
    BY <2>1 DEF Sources!AssignAnswer
  <2>4. CASE assignments[c.tab].open
    <3>1. c.tab \in Sources!Listed(store)
      BY <1>4, <1>6, <2>4 DEF AssignmentsFit
    <3> QED
      BY <1>4, <1>6, <2>2, <2>3, <2>4, <3>1, AssignmentReplaced
  <2>5. CASE ~assignments[c.tab].open
    BY <1>6, <2>3, <2>5
  <2> QED
    BY <2>4, <2>5
<1> QED
  BY <1>1, <1>4, <1>7, <1>8, SourcesUsed

LEMMA SourcesSaveAnswer ==
  ASSUME SourcesCalm, NEW c \in sourceCalls, Sources!SaveAnswer(c)
  PROVE  SourcesCalm'
<1>0. PICK p, saved, more : /\ p = c.reply.pid
                            /\ saved = [Sources!NoForm EXCEPT !.open = TRUE, !.group = c.reply.name]
                            /\ more = IF c.body.known THEN {} ELSE {Sources!Call("list", Sources!NewTab, [pid |-> p])}
  OBVIOUS
<1>1. /\ c.op = "save" /\ c.op \in Sources!Changing /\ c.reply.status = "ok"
      /\ store' = store /\ assignments' = assignments
      /\ screen' = Sources!upsertProfile(screen, p, c.reply.name)
  BY <1>0 DEF Sources!SaveAnswer, Sources!Received, Sources!Changing
<1>2. /\ forms' = IF forms[c.tab].open THEN [forms EXCEPT ![c.tab] = Sources!NoForm, ![p] = saved] ELSE forms
      /\ sourceCalls' = (sourceCalls \ {c}) \cup more
  BY <1>0 DEF Sources!SaveAnswer
<1>3. /\ IsRequest(c) /\ InStep(c, screen, store) /\ Executed(c, screen, store) /\ screen \in Side
      /\ FormsFit(forms, screen) /\ AssignmentsFit(assignments, screen)
  BY <1>1, SourcesHeard
<1>4. p \in Profiles /\ screen' = store /\ c.tab \in Sources!Tabs /\ c.reply.name \in NamedIn(screen)
  BY <1>0, <1>1, <1>3 DEF Executed, IsRequest, InStep
<1>5. Sources!NamesIn(store) = Sources!NamesIn(screen) /\ Sources!Listed(store) = Sources!Listed(screen)
  <2>1. store = Sources!upsertProfile(screen, p, c.reply.name)
    BY <1>1, <1>4
  <2> QED
    BY <1>3, <1>4, <2>1, MemberPut
<1>6. FormsFit(forms, store) /\ AssignmentsFit(assignments, store) /\ c.reply.name \in NamedIn(store)
  BY <1>3, <1>4, <1>5, StillFit DEF NamedIn
<1>7. FormsFit(forms', store)
  <2>1. Sources!NoForm \in Form /\ ~Sources!NoForm.open
    BY DEF Form, Sources!NoForm
  <2>2. c.reply.name \in GroupNames \cup {Sources!Ungrouped}
    BY <1>3, <1>4, SideIs, SideSides DEF NamedIn
  <2>3. saved \in Form /\ saved.group = c.reply.name
    BY <1>0, <2>2 DEF Form, Sources!NoForm
  <2>4. PICK f : f = [forms EXCEPT ![c.tab] = Sources!NoForm]
    OBVIOUS
  <2>5. FormsFit(f, store)
    BY <1>4, <1>6, <2>1, <2>4, FormReplaced
  <2>6. FormsFit([f EXCEPT ![p] = saved], store)
    BY <1>4, <1>6, <2>3, <2>5, FormReplaced DEF Sources!Tabs
  <2> QED
    BY <1>2, <1>6, <2>4, <2>6
<1>8. \A d \in more : IsRequest(d) /\ d.op = "list"
  BY <1>0, SourcesCalled DEF Sources!Tabs
<1> QED
  BY <1>1, <1>2, <1>4, <1>6, <1>7, <1>8, SourcesTold

LEMMA SourcesDeleteAnswer ==
  ASSUME SourcesCalm, NEW c \in sourceCalls, Sources!DeleteAnswer(c)
  PROVE  SourcesCalm'
<1>1. /\ c.op = "delete" /\ c.op \in Sources!Changing /\ c.reply.status = "ok"
      /\ store' = store /\ assignments' = assignments /\ sourceCalls' = sourceCalls \ {c}
      /\ screen' = Sources!upsertProfile(screen, c.body.pid, Sources!Gone)
      /\ forms' = [forms EXCEPT ![c.tab] = Sources!NoForm]
  BY DEF Sources!DeleteAnswer, Sources!Received, Sources!Consumed, Sources!Changing
<1>2. /\ IsRequest(c) /\ Executed(c, screen, store) /\ screen \in Side
      /\ FormsFit(forms, screen) /\ AssignmentsFit(assignments, screen)
  BY <1>1, SourcesHeard
<1>3. c.body.pid \in Profiles /\ screen' = store /\ c.tab \in Sources!Tabs
  BY <1>1, <1>2 DEF Executed, IsRequest
<1>4. Sources!NamesIn(store) = Sources!NamesIn(screen) /\ Sources!Listed(store) = Sources!Listed(screen)
  <2>1. store = Sources!upsertProfile(screen, c.body.pid, Sources!Gone)
    BY <1>1, <1>3
  <2> QED
    BY <1>2, <1>3, <2>1, MemberPut
<1>5. FormsFit(forms, store) /\ AssignmentsFit(assignments, store)
  BY <1>2, <1>4, StillFit
<1>6. Sources!NoForm \in Form /\ ~Sources!NoForm.open
  BY DEF Form, Sources!NoForm
<1>7. FormsFit(forms', store)
  BY <1>1, <1>3, <1>5, <1>6, FormReplaced
<1> QED
  BY <1>1, <1>3, <1>5, <1>7, SourcesUsed

\* An import is followed by a reading of the whole store.
LEMMA SourcesImportAnswer ==
  ASSUME SourcesCalm, NEW c \in sourceCalls, Sources!ImportAnswer(c)
  PROVE  SourcesCalm'
<1>1. PICK d : d = Sources!Call("bootstrap", Sources!NewTab, [pid |-> 0])
  OBVIOUS
<1>2. /\ c.op = "import" /\ c.op \in Sources!Changing /\ c.reply.status = "ok"
      /\ store' = store /\ screen' = screen /\ forms' = forms /\ assignments' = assignments
      /\ sourceCalls' = (sourceCalls \ {c}) \cup {d}
  BY <1>1 DEF Sources!ImportAnswer, Sources!Received, Sources!Changing
<1>3. InStep(c, screen, store) /\ Answered(c)
  BY <1>2, SourcesHeard DEF Answered
<1>4. Grown(screen, store)
  BY <1>2, <1>3 DEF InStep
<1>5. d.op = "bootstrap" /\ d.reply = Sources!NoReply /\ IsRequest(d)
  BY <1>1, SourcesCalled DEF Sources!Tabs
<1>6. ~Answered(d)
  BY <1>5 DEF Answered, Sources!NoReply
<1>7. InStep(d, screen, store)
  BY <1>4, <1>5, <1>6 DEF InStep
<1>8. \A e \in sourceCalls' : e.op \in Sources!Changing => e = d
  BY <1>2 DEF SourcesCalm
<1>9. \A e \in sourceCalls' : IsRequest(e) /\ (e.op \in Sources!Changing => InStep(e, screen, store))
  BY <1>2, <1>5, <1>7 DEF SourcesCalm
<1>10. Sources!Busy'
  BY <1>2, <1>5 DEF Sources!Busy, Sources!Changing
<1>11. \A e, f \in sourceCalls' : {e.op, f.op} \subseteq Sources!Changing => e = f
  BY <1>8
<1> QED
  BY <1>2, <1>9, <1>10, <1>11 DEF SourcesCalm

LEMMA SourcesBootstrapAnswer ==
  ASSUME SourcesCalm, NEW c \in sourceCalls, Sources!BootstrapAnswer(c)
  PROVE  SourcesCalm'
<1>1. /\ c.op = "bootstrap" /\ c.op \in Sources!Changing /\ c.reply.status = "ok"
      /\ store' = store /\ forms' = forms /\ assignments' = assignments /\ sourceCalls' = sourceCalls \ {c}
      /\ screen' = c.reply.snapshot
  BY DEF Sources!BootstrapAnswer, Sources!Received, Sources!Consumed, Sources!Changing
<1>2. /\ InStep(c, screen, store) /\ Executed(c, screen, store) /\ screen \in Side /\ store \in Side
      /\ FormsFit(forms, screen) /\ AssignmentsFit(assignments, screen)
  BY <1>1, SourcesHeard
<1>3. screen' = store /\ Grown(screen, store)
  BY <1>1, <1>2 DEF Executed, InStep
<1>4. FormsFit(forms, store) /\ AssignmentsFit(assignments, store)
  BY <1>2, <1>3, MoreListed, StillFit
<1> QED
  BY <1>1, <1>3, <1>4, SourcesUsed

LEMMA SourcesOtherAnswer ==
  ASSUME SourcesCalm, NEW c \in sourceCalls,
         \/ Sources!TestAnswer(c) \/ Sources!ListAnswer(c) \/ Sources!DisconnectAnswer(c)
         \/ Sources!CreateDbAnswer(c)
  PROVE  SourcesCalm'
<1>1. /\ c.op \notin Sources!Changing /\ store' = store /\ screen' = screen /\ assignments' = assignments
      /\ c.op \in {"test", "list", "disconnect", "createdb"}
  BY DEF Sources!TestAnswer, Sources!ListAnswer, Sources!DisconnectAnswer, Sources!CreateDbAnswer,
         Sources!Received, Sources!Changing
<1>2. IsRequest(c) /\ FormsFit(forms, screen) /\ AssignmentsFit(assignments, screen)
  BY DEF SourcesCalm
<1>3. CASE Sources!TestAnswer(c)
  <2>1. forms' = Sources!PatchForm(c.tab, [status |-> "ready"]) /\ sourceCalls' = sourceCalls \ {c} /\ c.op = "test"
    BY <1>3 DEF Sources!TestAnswer, Sources!Consumed, Sources!Received
  <2>2. IsPatch([status |-> "ready"], forms[c.tab], screen) /\ c.tab \in Sources!Tabs
    BY <1>2, <2>1 DEF IsPatch, IsRequest
  <2>3. FormsFit(forms', screen)
    BY <1>2, <2>1, <2>2, PatchFits
  <2> QED
    BY <1>1, <1>2, <2>1, <2>3, SourcesUsed
<1>4. CASE Sources!ListAnswer(c) \/ Sources!DisconnectAnswer(c)
  <2>1. forms' = forms /\ sourceCalls' = sourceCalls \ {c}
    BY <1>4 DEF Sources!ListAnswer, Sources!DisconnectAnswer, Sources!Consumed
  <2> QED
    BY <1>1, <1>2, <2>1, SourcesUsed
<1>5. CASE Sources!CreateDbAnswer(c)
  <2>1. PICK more : more = {Sources!Call("list", Sources!NewTab, [pid |-> c.body.pid])}
    OBVIOUS
  <2>2. forms' = forms /\ sourceCalls' = (sourceCalls \ {c}) \cup more
    BY <1>5, <2>1 DEF Sources!CreateDbAnswer
  <2>3. \A d \in more : IsRequest(d) /\ d.op = "list"
    BY <2>1, SourcesCalled DEF Sources!Tabs
  <2> QED
    BY <1>1, <1>2, <2>2, <2>3, SourcesTold
<1> QED
  BY <1>3, <1>4, <1>5

LEMMA SourcesErrorAnswer ==
  ASSUME SourcesCalm, NEW c \in sourceCalls, Sources!ErrorAnswer(c)
  PROVE  SourcesCalm'
<1>1. /\ c.reply.status = "error" /\ store' = store /\ screen' = screen /\ sourceCalls' = sourceCalls \ {c}
      /\ forms' = CASE c.op \in {"create", "rename", "remove"} -> Sources!PatchForm(c.tab, [groupBusy |-> FALSE])
                    [] c.op \in {"test", "save"} -> Sources!PatchForm(c.tab, [status |-> "ready"])
                    [] OTHER -> forms
      /\ assignments' = IF c.op = "assign" /\ assignments[c.tab].open
                        THEN [assignments EXCEPT ![c.tab].submitting = FALSE] ELSE assignments
  BY DEF Sources!ErrorAnswer, Sources!Consumed
<1>2. IsRequest(c) /\ FormsFit(forms, screen) /\ AssignmentsFit(assignments, screen)
  BY DEF SourcesCalm
<1>3. c.op \in Sources!Changing => screen = store
  <2>1. ~Answered(c) /\ c.reply # Sources!NoReply
    BY <1>1 DEF Answered, Sources!NoReply
  <2>2. c.op \in Sources!Changing => InStep(c, screen, store)
    BY DEF SourcesCalm
  <2> QED
    BY <2>1, <2>2 DEF InStep
<1>4. FormsFit(forms', screen)
  <2>1. IsPatch([groupBusy |-> FALSE], forms[c.tab], screen) /\ IsPatch([status |-> "ready"], forms[c.tab], screen)
    BY DEF IsPatch
  <2>2. CASE c.op \in {"create", "rename", "remove"}
    <3>1. forms' = Sources!PatchForm(c.tab, [groupBusy |-> FALSE]) /\ c.tab \in Sources!Tabs
      BY <1>1, <1>2, <2>2 DEF IsRequest
    <3> QED
      BY <1>2, <2>1, <3>1, PatchFits
  <2>3. CASE c.op \in {"test", "save"}
    <3>1. forms' = Sources!PatchForm(c.tab, [status |-> "ready"]) /\ c.tab \in Sources!Tabs
      BY <1>1, <1>2, <2>3 DEF IsRequest
    <3> QED
      BY <1>2, <2>1, <3>1, PatchFits
  <2>4. CASE c.op \notin {"create", "rename", "remove", "test", "save"}
    BY <1>1, <1>2, <2>4
  <2> QED
    BY <2>2, <2>3, <2>4
<1>5. AssignmentsFit(assignments', screen)
  <2>1. CASE c.op = "assign" /\ assignments[c.tab].open
    <3>1. c.tab \in GroupIds
      BY <1>2, <2>1 DEF IsRequest
    <3>2. assignments[c.tab] \in Assignment /\ c.tab \in Sources!Listed(screen)
      BY <1>2, <2>1, <3>1 DEF AssignmentsFit
    <3>3. PICK b : b = [assignments[c.tab] EXCEPT !.submitting = FALSE]
      OBVIOUS
    <3>4. b \in Assignment
      BY <3>2, <3>3 DEF Assignment
    <3>5. assignments' = [assignments EXCEPT ![c.tab] = b]
      BY <1>1, <2>1, <3>3
    <3>6. AssignmentsFit([assignments EXCEPT ![c.tab] = b], screen)
      BY <1>2, <3>1, <3>2, <3>4, AssignmentReplaced
    <3> QED
      BY <3>5, <3>6
  <2> QED
    BY <1>1, <1>2, <2>1
<1> QED
  BY <1>1, <1>3, <1>4, <1>5, SourcesUsed

LEMMA SourcesServe ==
  ASSUME SourcesInv, NEW c \in sourceCalls, Sources!Serve(c)
  PROVE  SourcesInv'
<1>1. c.reply = Sources!NoReply
  BY DEF Sources!Serve
<1> QED
  BY <1>1, SourcesServeGroup, SourcesServeAssign, SourcesServeMember, SourcesServeRest DEF Sources!Serve

LEMMA SourcesAnswer ==
  ASSUME SourcesInv, NEW c \in sourceCalls, Sources!Answer(c)
  PROVE  SourcesInv'
<1>1. raced' = raced /\ halfDone' = halfDone
  BY DEF Sources!Answer, Sources!CreateAnswer, Sources!RenameAnswer, Sources!RemoveAnswer, Sources!AssignAnswer,
         Sources!TestAnswer, Sources!SaveAnswer, Sources!DeleteAnswer, Sources!ImportAnswer,
         Sources!BootstrapAnswer, Sources!ListAnswer, Sources!DisconnectAnswer, Sources!CreateDbAnswer,
         Sources!ErrorAnswer, Sources!Received, Sources!Consumed
<1>2. SourcesCalm => SourcesCalm'
  BY SourcesCreateAnswer, SourcesRenameAnswer, SourcesRemoveAnswer, SourcesAssignAnswer, SourcesSaveAnswer,
     SourcesDeleteAnswer, SourcesImportAnswer, SourcesBootstrapAnswer, SourcesOtherAnswer, SourcesErrorAnswer
     DEF Sources!Answer
<1> QED
  BY <1>1, <1>2 DEF SourcesInv

LEMMA SourcesAct ==
  ASSUME SourcesInv, Sources!Next
  PROVE  SourcesInv'
<1>1. ASSUME NEW t \in Sources!Tabs,
             \/ Sources!openProfileEditorTab(t) \/ Sources!removeTab(t) \/ Sources!testProfileTab(t)
             \/ Sources!saveProfileTab(t) \/ Sources!deleteProfileFromTab(t) \/ Sources!CancelRename(t)
      PROVE  SourcesInv'
  <2>1. CASE Sources!deleteProfileFromTab(t)
    <3>1. /\ t \in Profiles /\ Sources!Send(Sources!Call("delete", t, [pid |-> t]))
          /\ store' = store /\ screen' = screen /\ halfDone' = halfDone /\ forms' = forms /\ assignments' = assignments
      BY <2>1 DEF Sources!deleteProfileFromTab, Sources!SourceCall, Sources!Pure, Sources!Tabs
    <3> QED
      BY <3>1, SourcesPlainCall
  <2> QED
    BY <1>1, <2>1, SourcesForm, SourcesFormCall
<1>2. ASSUME NEW t \in Sources!Tabs, NEW n \in {Sources!Ungrouped} \cup GroupNames, Sources!updateProfileTabField(t, n)
      PROVE  SourcesInv'
  BY <1>2, SourcesForm
<1>3. ASSUME NEW t \in Sources!Tabs, NEW n \in GroupNames,
             Sources!createProfileGroupFromTab(t, n) \/ Sources!renameProfileGroupFromTab(t, n)
      PROVE  SourcesInv'
  <2>1. CASE Sources!createProfileGroupFromTab(t, n)
    <3>1. Sources!GroupCall(t, "create", [name |-> n]) /\ [name |-> n].name \in GroupNames
      BY <2>1 DEF Sources!createProfileGroupFromTab
    <3> QED
      BY <3>1, SourcesGroupCall
  <2>2. CASE Sources!renameProfileGroupFromTab(t, n)
    <3>1. PICK body : body = [gid |-> forms[t].editing, name |-> n]
      OBVIOUS
    <3>2. Sources!GroupCall(t, "rename", body) /\ body.name \in GroupNames
      BY <2>2, <3>1 DEF Sources!renameProfileGroupFromTab
    <3> QED
      BY <3>2, SourcesGroupCall
  <2> QED
    BY <1>3, <2>1, <2>2
<1>4. ASSUME NEW t \in Sources!Tabs, NEW g \in GroupIds,
             Sources!StartRename(t, g) \/ Sources!deleteProfileGroupFromTab(t, g)
      PROVE  SourcesInv'
  <2>1. CASE Sources!deleteProfileGroupFromTab(t, g)
    BY <2>1, SourcesGroupCall DEF Sources!deleteProfileGroupFromTab
  <2> QED
    BY <1>4, <2>1, SourcesForm
<1>5. ASSUME NEW g \in GroupIds, Sources!openGroupAssignmentTab(g) \/ Sources!applyProfilesToGroup(g)
      PROVE  SourcesInv'
  BY <1>5, SourcesAssignment, SourcesAssignCall
<1>6. ASSUME NEW g \in GroupIds, NEW pids \in SUBSET Profiles, Sources!SelectForGroup(g, pids)
      PROVE  SourcesInv'
  BY <1>6, SourcesAssignment
<1>7. ASSUME Sources!importNavicatProfiles PROVE SourcesInv'
  <2>1. /\ Sources!NewTab \in Sources!Tabs /\ Sources!Send(Sources!Call("import", Sources!NewTab, [pid |-> 0]))
        /\ store' = store /\ screen' = screen /\ halfDone' = halfDone /\ forms' = forms /\ assignments' = assignments
    BY <1>7 DEF Sources!importNavicatProfiles, Sources!SourceCall, Sources!Pure, Sources!Tabs
  <2> QED
    BY <2>1, SourcesPlainCall
<1>8. ASSUME Sources!CloseCreateDatabase \/ \E p \in Profiles : Sources!openCreateDatabaseDialog(p) PROVE SourcesInv'
  <2>1. /\ store' = store /\ screen' = screen /\ halfDone' = halfDone /\ forms' = forms /\ assignments' = assignments
        /\ sourceCalls' = sourceCalls /\ raced' = raced
    BY <1>8 DEF Sources!CloseCreateDatabase, Sources!openCreateDatabaseDialog, Sources!Pure, Sources!NoSend
  <2>2. SourcesCalm => FormsFit(forms', screen) /\ AssignmentsFit(assignments', screen)
    BY <2>1 DEF SourcesCalm
  <2> QED
    BY <2>1, <2>2, SourcesTouch
<1>9. ASSUME Sources!saveCreateDatabaseDialog PROVE SourcesInv'
  <2>1. /\ Sources!NewTab \in Sources!Tabs /\ Sources!Send(Sources!Call("createdb", Sources!NewTab, [pid |-> createDb.pid]))
        /\ store' = store /\ screen' = screen /\ halfDone' = halfDone /\ forms' = forms /\ assignments' = assignments
    BY <1>9 DEF Sources!saveCreateDatabaseDialog, Sources!Pure, Sources!Tabs
  <2> QED
    BY <2>1, SourcesPlainCall
<1>10. ASSUME NEW p \in Profiles, Sources!disconnectSelectedProfile(p) \/ Sources!ensureDatabasesLoaded(p)
       PROVE  SourcesInv'
  <2>1. /\ Sources!NewTab \in Sources!Tabs
        /\ \E op \in {"disconnect", "list"} : Sources!Send(Sources!Call(op, Sources!NewTab, [pid |-> p]))
        /\ store' = store /\ screen' = screen /\ halfDone' = halfDone /\ forms' = forms /\ assignments' = assignments
    BY <1>10 DEF Sources!disconnectSelectedProfile, Sources!ensureDatabasesLoaded, Sources!SourceCall, Sources!Pure,
                 Sources!Tabs
  <2> QED
    BY <2>1, SourcesPlainCall
<1> QED
  BY <1>1, <1>2, <1>3, <1>4, <1>5, <1>6, <1>7, <1>8, <1>9, <1>10, SourcesServe, SourcesAnswer DEF Sources!Next

LEMMA SourcesNext ==
  ASSUME SourcesInv, SourcesStep \/ UNCHANGED sourceVars
  PROVE  SourcesInv'
<1>1. CASE SourcesStep
  BY <1>1, SourcesAct DEF SourcesStep
<1>2. CASE UNCHANGED sourceVars
  BY <1>2 DEF sourceVars, SourcesInv, SourcesCalm, Sources!Busy
<1> QED
  BY <1>1, <1>2

LEMMA SourcesHolds == SourcesInv => ScreenMatchesStore
<1> SUFFICES ASSUME SourcesInv PROVE Sources!ScreenMatchesStore /\ Sources!FormsNameListedGroups
  BY DEF ScreenMatchesStore
<1>1. Sources!ScreenMatchesStore
  BY DEF SourcesInv, SourcesCalm, Sources!ScreenMatchesStore
<1>2. Sources!FormsNameListedGroups
  BY DEF SourcesInv, SourcesCalm, FormsFit, AssignmentsFit, NamedIn, Sources!FormsNameListedGroups
<1> QED
  BY <1>1, <1>2

\* Between two changes, when none was half done and no two were on their way together, the
\* screen's groups and data sources are the store's, and what its forms and tabs name is listed
\* (ScreenMatchesStore).
THEOREM ScreensMatchTheStore == Spec => []ScreenMatchesStore
<1>1. Init => SourcesInv
  BY SourcesInit DEF Init
<1>2. SourcesInv /\ [Next]_vars => SourcesInv'
  BY SourcesNext, Interleaves
<1>3. SourcesInv => ScreenMatchesStore
  BY SourcesHolds
<1> QED
  BY <1>1, <1>2, <1>3, PTL DEF Spec
=============================================================================
