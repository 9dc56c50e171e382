------------------------------ MODULE ShareDraft ------------------------------
(***************************************************************************)
(* Sharing files with other nodes from the data transfer workspace         *)
(* (features/data-transfer/DataTransferWorkspace.tsx): the draft of a      *)
(* share, its two steps and its publication, the list of shares, and the   *)
(* favourite nodes.  One text tells the whole workspace what it is doing:  *)
(* a handler that begins replaces it, one that ends empties it, and only   *)
(* a text that speaks of sharing disables the buttons of the draft.  The   *)
(* time a share is valid for is chosen in the draft and sent to nobody; it *)
(* is left out.                                                            *)
(***************************************************************************)
EXTENDS Integers, FiniteSets

CONSTANTS Files,          \* files on the disk
          Friends,        \* nodes a share can be for
          MaxShares,      \* bound: shares published
          MaxShareSteps,  \* bound: gestures
          MaxShareCalls   \* bound: handlers waiting at a time

Scopes == {"all", "selected_nodes", "password_protected"}
ShareIds == 1..MaxShares

VARIABLES shares,      \* the service: id -> share
          favorites,   \* the service: favourite nodes
          desk,        \* the screen
          sharePoll,   \* the snapshot on its way to the screen
          shareCalls,  \* handlers that wait for an answer
          shareSteps,  \* gestures spent
          made,        \* ghost: files and draft of every share there ever was
          draft,       \* ghost: number of the draft
          taken,       \* ghost: files the user chose for this draft and did not take out
          mixed        \* ghost: another handler took or emptied the text, or files came, while one published

shareVars == <<shares, favorites, desk, sharePoll, shareCalls, shareSteps, made, draft, taken, mixed>>

NoSnapshot == [shares |-> {}, favorites |-> {}]
Current == [shares |-> DOMAIN shares, favorites |-> favorites]

\* without files nothing of the draft is kept (clearShareDraft, and the effect on the files)
Cleared(d) ==
  [d EXCEPT !.files = {}, !.step = 1, !.scope = "all", !.password = FALSE, !.targets = {}]
Rendered(d) == IF d.files = {} THEN Cleared(d) ELSE d

isShareBusy == desk.busy = "sharing"
\* the dialog of the draft covers the screen, in the section it belongs to
ModalShown == desk.section = "dashboard" /\ desk.files # {}
Publishing(calls) == \E c \in calls : c.op = "publish"

Init ==
  /\ shares = [id \in {} |-> {}] /\ favorites = {} /\ sharePoll = {}
  /\ desk = [snap |-> [shares |-> {}, favorites |-> {}], section |-> "dashboard", busy |-> "",
             files |-> {}, step |-> 1, scope |-> "all", password |-> FALSE, targets |-> {}]
  /\ shareCalls = {} /\ shareSteps = 0 /\ made = {} /\ draft = 1 /\ taken = {} /\ mixed = FALSE

(* The poll: the service's answer, and its arrival. *)
ServeSharePoll ==
  /\ sharePoll = {} /\ sharePoll' = {Current}
  /\ UNCHANGED <<shares, favorites, desk, shareCalls, shareSteps, made, draft, taken, mixed>>
SharePollAnswer ==
  /\ sharePoll # {} /\ sharePoll' = {}
  /\ desk' \in {desk} \cup {[desk EXCEPT !.snap = s] : s \in sharePoll}
  /\ UNCHANGED <<shares, favorites, shareCalls, shareSteps, made, draft, taken, mixed>>

----------------------------------------------------------------------------
(* The user. *)

Pressed == shareSteps < MaxShareSteps /\ shareSteps' = shareSteps + 1
Gesture(d) == /\ Pressed /\ desk' = Rendered(d)
              /\ UNCHANGED <<shares, favorites, sharePoll, shareCalls, made, mixed>>
Edit(d) == Gesture(d) /\ UNCHANGED <<draft, taken>>

Request(op) == [op |-> op, files |-> {}, draft |-> 0, id |-> 0, node |-> 0, stage |-> "sent",
                snap |-> [shares |-> {}, favorites |-> {}]]
\* withBusy
Send(c, text) ==
  /\ Pressed /\ Cardinality(shareCalls) < MaxShareCalls /\ c \notin shareCalls
  /\ shareCalls' = shareCalls \cup {c} /\ desk' = [desk EXCEPT !.busy = text]
  /\ mixed' = (mixed \/ (text = "other" /\ Publishing(shareCalls)))
  /\ UNCHANGED <<shares, favorites, sharePoll, made, draft, taken>>

ShowSection(section) ==
  /\ ~ModalShown /\ section # desk.section /\ Edit([desk EXCEPT !.section = section])
handleChooseShareFiles ==
  /\ desk.section = "dashboard" /\ ~isShareBusy /\ Pressed
  /\ Cardinality(shareCalls) < MaxShareCalls /\ Request("files") \notin shareCalls
  /\ shareCalls' = shareCalls \cup {Request("files")}
  /\ UNCHANGED <<shares, favorites, desk, sharePoll, made, draft, taken, mixed>>
removeSelectedShareFile(f) ==
  /\ ModalShown /\ desk.step = 1 /\ f \in desk.files
  /\ Gesture([desk EXCEPT !.files = @ \ {f}]) /\ taken' = taken \ {f}
  /\ draft' = draft + (IF desk.files = {f} THEN 1 ELSE 0)
\* 取消, and × which does not look at what is going on
clearShareDraft ==
  /\ ModalShown /\ Gesture(Cleared(desk)) /\ taken' = {} /\ draft' = draft + 1
goToSharePermissionStep ==
  ModalShown /\ ~isShareBusy /\ desk.step = 1 /\ Edit([desk EXCEPT !.step = 2])
BackToFiles ==
  ModalShown /\ ~isShareBusy /\ desk.step = 2 /\ Edit([desk EXCEPT !.step = 1])
ChooseScope(scope) ==
  ModalShown /\ desk.step = 2 /\ scope # desk.scope /\ Edit([desk EXCEPT !.scope = scope])
TypePassword ==
  /\ ModalShown /\ desk.step = 2 /\ desk.scope = "password_protected"
  /\ Edit([desk EXCEPT !.password = ~@])
toggleShareTargetFingerprint(n) ==
  /\ ModalShown /\ desk.step = 2 /\ desk.scope = "selected_nodes"
  /\ Edit([desk EXCEPT !.targets = IF n \in @ THEN @ \ {n} ELSE @ \cup {n}])

\* Slip: the button does not wait
PublishableAnyTime ==
  /\ ModalShown /\ desk.step = 2
  /\ desk.scope = "selected_nodes" => desk.targets # {}
  /\ desk.scope = "password_protected" => desk.password
Publishable ==
  /\ ModalShown /\ desk.step = 2 /\ ~isShareBusy
  /\ desk.scope = "selected_nodes" => desk.targets # {}
  /\ desk.scope = "password_protected" => desk.password
handlePublishShare ==
  Publishable /\ Send([Request("publish") EXCEPT !.files = desk.files, !.draft = draft], "sharing")
handleRemovePublishedShare(id) ==
  /\ desk.section = "dashboard" /\ ~ModalShown /\ ~isShareBusy /\ id \in desk.snap.shares
  /\ Send([Request("remove") EXCEPT !.id = id], "sharing")
\* a favourite is set to the opposite of what the screen shows
handleToggleFavoriteEntry(n) ==
  /\ desk.section = "nodes"
  /\ Send([Request(IF n \in desk.snap.favorites THEN "unfavorite" ELSE "favorite") EXCEPT !.node = n], "other")
\* 注册到网络 in the side bar, and 刷新节点
handleToggleRegistration == ~ModalShown /\ Send(Request("registration"), "other")

----------------------------------------------------------------------------
(* Requests and answers. *)

Publishes(c) ==
  /\ c.op = "publish" /\ Cardinality(made) < MaxShares /\ UNCHANGED favorites
  /\ LET id == Cardinality(made) + 1
     IN /\ shares' = [i \in DOMAIN shares \cup {id} |-> IF i = id THEN c.files ELSE shares[i]]
        /\ made' = made \cup {[id |-> id, draft |-> c.draft]}
Removes(c) ==
  /\ c.op = "remove" /\ shares' = [i \in DOMAIN shares \ {c.id} |-> shares[i]]
  /\ UNCHANGED <<favorites, made>>
SetsFavorite(c) ==
  /\ c.op \in {"favorite", "unfavorite"} /\ UNCHANGED <<shares, made>>
  /\ favorites' = IF c.op = "favorite" THEN favorites \cup {c.node} ELSE favorites \ {c.node}
Registers(c) == c.op = "registration" /\ UNCHANGED <<shares, favorites, made>>
Serves(c) ==
  /\ Publishes(c) \/ Removes(c) \/ SetsFavorite(c) \/ Registers(c)
  /\ shareCalls' = (shareCalls \ {c}) \cup
       {[c EXCEPT !.stage = "done", !.snap = [shares |-> DOMAIN shares', favorites |-> favorites']]}
Refuses(c) == /\ shareCalls' = (shareCalls \ {c}) \cup {[c EXCEPT !.stage = "refused"]}
              /\ UNCHANGED <<shares, favorites, made>>
Serve(c) == /\ c.op # "files" /\ c.stage = "sent" /\ (Serves(c) \/ Refuses(c))
            /\ UNCHANGED <<desk, sharePoll, shareSteps, draft, taken, mixed>>

\* the screen takes the snapshot; a published draft is emptied, a refused one stays
Ended(d, c) ==
  LET shown == [d EXCEPT !.busy = "", !.snap = IF c.stage = "done" THEN c.snap ELSE @]
  IN IF c.op = "publish" /\ c.stage = "done" THEN Cleared(shown) ELSE shown
Answer(c) ==
  /\ c.stage # "sent" /\ shareCalls' = shareCalls \ {c} /\ desk' = Ended(desk, c)
  /\ mixed' = (mixed \/ (c.op # "publish" /\ Publishing(shareCalls)))
  /\ IF c.op = "publish" /\ c.stage = "done"
     THEN taken' = taken \ c.files /\ draft' = draft + 1 ELSE UNCHANGED <<taken, draft>>
  /\ UNCHANGED <<shares, favorites, sharePoll, shareSteps, made>>
\* the system's file dialog and the sizes of the files picked: they join the draft
FilesAnswer(c) ==
  /\ c.op = "files" /\ shareCalls' = shareCalls \ {c}
  /\ \E picked \in SUBSET Files :
       /\ desk' = [desk EXCEPT !.files = @ \cup picked] /\ taken' = taken \cup picked
       /\ mixed' = (mixed \/ (picked # {} /\ Publishing(shareCalls)))
  /\ UNCHANGED <<shares, favorites, sharePoll, shareSteps, made, draft>>

Next ==
  \/ ServeSharePoll \/ SharePollAnswer
  \/ \E section \in {"dashboard", "nodes"} : ShowSection(section)
  \/ handleChooseShareFiles \/ clearShareDraft \/ goToSharePermissionStep \/ BackToFiles
  \/ TypePassword \/ handlePublishShare \/ handleToggleRegistration
  \/ \E f \in Files : removeSelectedShareFile(f)
  \/ \E scope \in Scopes : ChooseScope(scope)
  \/ \E n \in Friends : toggleShareTargetFingerprint(n) \/ handleToggleFavoriteEntry(n)
  \/ \E id \in ShareIds : handleRemovePublishedShare(id)
  \/ \E c \in shareCalls : Serve(c) \/ Answer(c) \/ FilesAnswer(c)

\* requests are executed or refused, and answers are handled
Fairness == WF_shareVars(\E c \in shareCalls : Serve(c) \/ Answer(c))

Spec == Init /\ [][Next]_shareVars /\ Fairness

----------------------------------------------------------------------------
\* Type invariant: the screen shows shares there were, and a draft without files is a fresh one.
ShareTypeOK ==
  /\ DOMAIN shares \subseteq ShareIds /\ favorites \subseteq Friends
  /\ desk.snap.shares \subseteq {m.id : m \in made} /\ desk.files \subseteq Files
  /\ desk.scope \in Scopes /\ desk.busy \in {"", "sharing", "other"}
  /\ desk.files = {} => Cleared(desk) = desk

\* What the user gathers is shared once and not lost on the way: no two shares come from one
\* draft, and a file that was chosen stays in the draft until the user takes it out or a
\* share with it is published; a publication that fails leaves the draft as it is.  Left out
\* is what happens once another handler has ended, or begun, or files have come in, while a
\* draft was being published.
DraftIsSharedOnce ==
  ~mixed => /\ taken \subseteq desk.files
            /\ \A m \in made : \A other \in made : m.draft = other.draft => m = other

\* A handler of the workspace is under way.
ShareBusy == desk.busy # ""
=============================================================================
