------------------------------- MODULE Posting -------------------------------
(***************************************************************************)
(* A client's write on its way to the thread: the call over the bus, the   *)
(* retries and the timeout, the spool the client falls back on, the drain  *)
(* that replays it, and the idempotency key that keeps a write which had   *)
(* in fact gone through from landing twice.                                *)
(*                                                                         *)
(* A write stands for its key, drawn once before the first attempt.  The   *)
(* daemon runs message.post without a pause, but not in one transaction:   *)
(* the message is inserted first, its fan-out runs, and the key is stored  *)
(* last (posting is the write between the two).  Keys are kept a week;     *)
(* that no file waits longer in the spool is the code's own assumption     *)
(* (db/idempotency.ts), and the model's.                                   *)
(***************************************************************************)
EXTENDS Naturals, Sequences, FiniteSets, SequencesExt

CONSTANTS
    Writes, Nothing,
    Invalid,            \* writes the daemon refuses (4xx)
    MaxBoots            \* bound on the daemon's starts

ASSUME PostingParameters ==
    /\ IsFiniteSet(Writes) /\ Nothing \notin Writes
    /\ Invalid \subseteq Writes
    /\ MaxBoots \in Nat

VARIABLES
    client,     \* what the author knows: idle, waiting, queued, told, refused
    calls,      \* calls that reached the daemon's connections, not yet run
    spool,      \* the spool directory, oldest first
    drain,      \* what is left of the listing the running drain took
    nudged,     \* the watcher's timer is set
    posting,    \* the write whose post is running, and where it came from
    copies,     \* messages of the thread each write made
    keyed,      \* writes whose key the daemon remembers
    failed,     \* spool/failed
    up, boots,
    broken      \* history: writes whose post broke between insert and key

vars == <<client, calls, spool, drain, nudged, posting, copies, keyed, failed, up, boots,
          broken>>
daemonVars == <<drain, nudged, posting, copies, keyed, failed, up, boots, broken>>

NoPost == [write |-> Nothing, from |-> "none"]

Init ==
    /\ client = [w \in Writes |-> "idle"]
    /\ calls = {} /\ spool = <<>> /\ drain = <<>> /\ nudged = FALSE
    /\ posting = NoPost
    /\ copies = [w \in Writes |-> 0]
    /\ keyed = {} /\ failed = {}
    /\ up = FALSE /\ boots = 0 /\ broken = {}

-----------------------------------------------------------------------------
(* The client.                                                             *)

\* A connection is opened, or opened again by a retry, and the call sent.
Call(w) ==
    /\ client[w] = "idle"
    /\ client' = [client EXCEPT ![w] = "waiting"]
    /\ calls' = IF up THEN calls \cup {w} ELSE calls
    /\ UNCHANGED <<spool, daemonVars>>

\* Nothing ran of a call the daemon never got: it is sent again.
Retry(w) ==
    /\ client[w] = "waiting" /\ up /\ w \notin calls /\ posting.write # w
    /\ calls' = calls \cup {w}
    /\ UNCHANGED <<client, spool, daemonVars>>

SpoolDrop(w) ==
    /\ client' = [client EXCEPT ![w] = "queued"]
    /\ spool' = Append(spool, w)
    /\ nudged' = up

\* The retries are spent, or 15 s went by: the daemon may still run the call.
GiveUp(w) ==
    /\ client[w] = "waiting"
    /\ SpoolDrop(w)
    /\ UNCHANGED <<calls, drain, posting, copies, keyed, failed, up, boots, broken>>

-----------------------------------------------------------------------------
(* message.post: a known key is answered, an invalid write refused, and    *)
(* any other inserted; the key is remembered once it is.                   *)

Told(w, answer) ==
    client' = IF client[w] = "waiting" THEN [client EXCEPT ![w] = answer] ELSE client

\* The file of w is removed from the directory.
Unlinked(s, w) == RemoveAt(s, CHOOSE i \in DOMAIN s : s[i] = w)

Leaves(from) ==
    /\ drain' = IF from = "spool" THEN Tail(drain) ELSE drain
    /\ spool' = IF from = "spool" THEN Unlinked(spool, Head(drain)) ELSE spool

\* Variant: a refused file is removed and not kept.
AnsweredForgetting(w, from, answer) ==
    /\ IF from = "bus" THEN Told(w, answer) ELSE UNCHANGED client
    /\ UNCHANGED failed
    /\ calls' = IF from = "bus" THEN calls \ {w} ELSE calls
    /\ Leaves(from)

Answered(w, from, answer) ==
    /\ IF from = "bus" THEN Told(w, answer) ELSE UNCHANGED client
    /\ failed' = IF from = "spool" /\ answer = "refused" THEN failed \cup {w} ELSE failed
    /\ calls' = IF from = "bus" THEN calls \ {w} ELSE calls
    /\ Leaves(from)

\* Variant: the key is not looked up.
RunUnkeyed(w, from) ==
    \/ /\ w \in Invalid
       /\ Answered(w, from, "refused")
       /\ UNCHANGED <<posting, copies>>
    \/ /\ w \notin Invalid
       /\ copies' = [copies EXCEPT ![w] = @ + 1]
       /\ posting' = [write |-> w, from |-> from]
       /\ calls' = IF from = "bus" THEN calls \ {w} ELSE calls
       /\ UNCHANGED <<client, spool, drain, failed>>

Run(w, from) ==
    \/ /\ w \in keyed
       /\ Answered(w, from, "told")
       /\ UNCHANGED <<posting, copies>>
    \/ /\ w \in Invalid
       /\ Answered(w, from, "refused")
       /\ UNCHANGED <<posting, copies>>
    \/ /\ w \notin keyed \cup Invalid
       /\ copies' = [copies EXCEPT ![w] = @ + 1]
       /\ posting' = [write |-> w, from |-> from]
       /\ calls' = IF from = "bus" THEN calls \ {w} ELSE calls
       /\ UNCHANGED <<client, spool, drain, failed>>

Serve(w) ==
    /\ up /\ posting = NoPost /\ w \in calls
    /\ Run(w, "bus")
    /\ UNCHANGED <<nudged, keyed, up, boots, broken>>

\* Variant: of the post that ended, where it came from is not reset.
RememberKeyHalfReset ==
    /\ posting # NoPost
    /\ keyed' = keyed \cup {posting.write}
    /\ Answered(posting.write, posting.from, "told")
    /\ posting' = [posting EXCEPT !.write = Nothing]
    /\ UNCHANGED <<nudged, copies, up, boots, broken>>

RememberKey ==
    /\ posting # NoPost
    /\ keyed' = keyed \cup {posting.write}
    /\ Answered(posting.write, posting.from, "told")
    /\ posting' = NoPost
    /\ UNCHANGED <<nudged, copies, up, boots, broken>>

\* Something after the insert throws: the caller reads a 500 and spools the
\* write; a replayed file goes to spool/failed.
BreakMidPost ==
    /\ posting # NoPost
    /\ broken' = broken \cup {posting.write}
    /\ LET w == posting.write IN
       IF posting.from = "spool"
       THEN Answered(w, "spool", "refused") /\ UNCHANGED nudged
       ELSE /\ IF client[w] = "waiting" THEN SpoolDrop(w) ELSE UNCHANGED <<client, spool, nudged>>
            /\ UNCHANGED <<calls, drain, failed>>
    /\ posting' = NoPost
    /\ UNCHANGED <<copies, keyed, up, boots>>

-----------------------------------------------------------------------------
(* The drain: at boot, and 100 ms after the watcher saw a file arrive.     *)

DrainSpool ==
    /\ up /\ nudged /\ drain = <<>> /\ posting = NoPost
    /\ nudged' = FALSE /\ drain' = spool
    /\ UNCHANGED <<client, calls, spool, posting, copies, keyed, failed, up, boots, broken>>

ProcessOne ==
    /\ up /\ posting = NoPost /\ drain # <<>>
    /\ Run(Head(drain), "spool")
    /\ UNCHANGED <<nudged, keyed, up, boots, broken>>

\* Variant: the files of before the start are left for the next drop.
BootUndrained ==
    /\ ~up /\ boots < MaxBoots
    /\ up' = TRUE /\ boots' = boots + 1
    /\ UNCHANGED <<client, calls, spool, drain, nudged, posting, copies, keyed, failed, broken>>

Boot ==
    /\ ~up /\ boots < MaxBoots
    /\ up' = TRUE /\ boots' = boots + 1
    /\ nudged' = TRUE
    /\ UNCHANGED <<client, calls, spool, drain, posting, copies, keyed, failed, broken>>

\* The daemon dies, between two posts or within one: the connections close, and a call in
\* flight on one is not sent again, for it may have run: its author spools it (GiveUp).
Die ==
    /\ up /\ boots < MaxBoots
    /\ broken' = broken \cup ({posting.write} \ {Nothing})
    /\ up' = FALSE /\ nudged' = FALSE
    /\ calls' = {} /\ drain' = <<>> /\ posting' = NoPost
    /\ LET cut == {w \in Writes : /\ client[w] = "waiting"
                                  /\ w \in calls \/ posting = [write |-> w, from |-> "bus"]}
       IN /\ client' = [w \in Writes |-> IF w \in cut THEN "queued" ELSE client[w]]
          /\ spool' = spool \o SetToSeq(cut)
    /\ UNCHANGED <<copies, keyed, failed, boots>>

Next ==
    \/ \E w \in Writes : Call(w) \/ Retry(w) \/ GiveUp(w) \/ Serve(w)
    \/ RememberKey \/ BreakMidPost
    \/ DrainSpool \/ ProcessOne
    \/ Boot \/ Die

\* The daemon is started again and runs what it holds; a client waits for
\* an answer or gives up; a drain goes through its files.
Fairness ==
    /\ \A w \in Writes : WF_vars(Serve(w)) /\ WF_vars(Retry(w) \/ GiveUp(w))
    /\ WF_vars(RememberKey) /\ WF_vars(DrainSpool) /\ WF_vars(ProcessOne) /\ WF_vars(Boot)

Spec == Init /\ [][Next]_vars /\ Fairness

-----------------------------------------------------------------------------
TypeOK ==
    /\ client \in [Writes -> {"idle", "waiting", "queued", "told", "refused"}]
    /\ calls \subseteq Writes /\ keyed \subseteq Writes /\ failed \subseteq Writes
    /\ broken \subseteq Writes
    /\ spool \in Seq(Writes) /\ drain \in Seq(Writes)
    /\ posting \in [write : Writes, from : {"bus", "spool"}] \cup {NoPost}
    /\ copies \in [Writes -> Nat]
    /\ nudged \in BOOLEAN /\ up \in BOOLEAN /\ boots \in Nat

(* A write whose call was cut, timed out or answered too late is replayed   *)
(* from the spool, and still lands once: it lands twice only if its own     *)
(* post broke between the insert and the key (bus/methods/message.ts).      *)
OnceUnlessBroken == \A w \in Writes : copies[w] > 1 => w \in broken

(* What the author is told is so: a write it was told about is in the       *)
(* thread, a write refused to it never gets there, and a write it was told  *)
(* is queued is in the spool, in the thread or in spool/failed.             *)
AnswersAreTrue == \A w \in Writes :
    /\ client[w] = "told" => copies[w] > 0
    /\ client[w] = "refused" => copies[w] = 0 /\ w \in Invalid
    /\ client[w] = "queued" => w \in Range(spool) \cup failed \/ copies[w] > 0

Fate(w) ==
    IF copies[w] > 1 /\ w \notin broken THEN "doubled"
    ELSE IF copies[w] > 0 THEN "landed"
    ELSE IF client[w] = "refused" \/ w \in failed THEN "rejected"
    ELSE IF client[w] = "idle" THEN "unsent"
    ELSE "pending"

Promise == INSTANCE ExactlyOnce WITH fate <- [w \in Writes |-> Fate(w)]

(* Whatever is lost, late or repeated between the client, its spool and the *)
(* daemon, a write has one fate, and comes to it.                           *)
OneFate == Promise!Spec

=============================================================================
