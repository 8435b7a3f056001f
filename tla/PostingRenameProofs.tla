------------------------ MODULE PostingRenameProofs ------------------------
(***************************************************************************)
(* Theorems about the two commands that are several writes, may be cut     *)
(* short between any two of them, and are then simply given again: posting *)
(* a message (Posting) and renaming a project (Rename).                    *)
(*                                                                         *)
(* A write lands once, for any writes, any number of starts of the daemon  *)
(* and whatever the spool holds: the argument reads the key table, the     *)
(* post under way and the posts that broke, and nothing of the spool.      *)
(*                                                                         *)
(* A rename that says it is done is, for any runs, folders and             *)
(* transcripts: what a run has passed is done, and all that is left to do  *)
(* is in the rest of its plan, unless something crossed it.                *)
(***************************************************************************)
EXTENDS Posting, Rename, FiniteSetTheorems, SequenceTheorems, TLAPS

\* What is in the thread has its key, or is being posted, or broke on the way.
Accounted(w) ==
    w \notin broken => /\ copies[w] <= 1
                       /\ copies[w] > 0 => w \in keyed \/ posting.write = w

\* What has its key, or is being posted, is in the thread; what the daemon refuses is not.
Backed(w) ==
    /\ w \in keyed \/ posting.write = w => copies[w] > 0
    /\ w \in Invalid => copies[w] = 0

\* What an author was told is so.
Honest(w) ==
    /\ client[w] = "told" => copies[w] > 0
    /\ client[w] = "refused" => w \in Invalid

Inv ==
    /\ copies \in [Writes -> Nat]
    /\ DOMAIN client = Writes
    /\ \A w \in Writes : Accounted(w) /\ Backed(w) /\ Honest(w)

LEMMA NothingPosts == ASSUME NEW w \in Writes PROVE NoPost.write # w
  BY PostingParameters DEF NoPost

\* An answer to the author changes what it knows of that write alone.
LEMMA AnsweredKeepsHonest ==
    ASSUME Inv, NEW w, NEW from, NEW answer, Answered(w, from, answer),
           copies' \in [Writes -> Nat], \A v \in Writes : copies'[v] >= copies[v],
           from = "bus" /\ answer = "told" /\ w \in Writes => copies'[w] > 0,
           from = "bus" /\ answer = "refused" => w \in Invalid,
           answer \in {"told", "refused"}
    PROVE  DOMAIN client' = Writes /\ \A v \in Writes : Honest(v)'
<1>1. DOMAIN client' = Writes
  BY DEF Inv, Answered, Told
<1>2. ASSUME NEW v \in Writes PROVE Honest(v)'
  <2>1. Honest(v) /\ copies[v] \in Nat /\ copies'[v] \in Nat /\ copies'[v] >= copies[v]
    BY DEF Inv
  <2>2. client'[v] = client[v] \/ (v = w /\ from = "bus" /\ client'[v] = answer)
    BY DEF Inv, Answered, Told
  <2> QED
    BY <2>1, <2>2 DEF Honest
<1> QED
  BY <1>1, <1>2

LEMMA RunKeeps ==
    ASSUME Inv, NEW w, NEW from, posting = NoPost, Run(w, from),
           UNCHANGED <<keyed, broken>>, w \in Writes \/ from = "spool"
    PROVE  Inv'
<1>1. CASE w \in keyed /\ Answered(w, from, "told") /\ UNCHANGED <<posting, copies>>
  <2>1. \A v \in Writes : copies[v] \in Nat
    BY DEF Inv
  <2>2. w \in Writes => copies[w] > 0
    BY <1>1 DEF Inv, Backed
  <2>3. DOMAIN client' = Writes /\ \A v \in Writes : Honest(v)'
    BY <1>1, <2>1, <2>2, AnsweredKeepsHonest DEF Inv
  <2> QED
    BY <1>1, <2>3 DEF Inv, Accounted, Backed
<1>2. CASE w \in Invalid /\ Answered(w, from, "refused") /\ UNCHANGED <<posting, copies>>
  <2>1. \A v \in Writes : copies[v] \in Nat
    BY DEF Inv
  <2>2. DOMAIN client' = Writes /\ \A v \in Writes : Honest(v)'
    BY <1>2, <2>1, AnsweredKeepsHonest DEF Inv
  <2> QED
    BY <1>2, <2>2 DEF Inv, Accounted, Backed
<1>3. CASE /\ w \notin keyed \cup Invalid
           /\ copies' = [copies EXCEPT ![w] = @ + 1]
           /\ posting' = [write |-> w, from |-> from]
           /\ UNCHANGED client
  <2>1. copies' \in [Writes -> Nat] /\ DOMAIN client' = Writes
    <3>1. copies \in [Writes -> Nat] /\ \A v \in Writes : copies[v] + 1 \in Nat
      BY DEF Inv
    <3>2. [copies EXCEPT ![w] = @ + 1] \in [Writes -> Nat]
      BY <3>1
    <3>3. client' = client /\ DOMAIN client = Writes
      BY <1>3 DEF Inv
    <3> QED
      BY <1>3, <3>2, <3>3
  <2>2. ASSUME NEW v \in Writes PROVE (Accounted(v) /\ Backed(v) /\ Honest(v))'
    <3>1. Accounted(v) /\ Backed(v) /\ Honest(v) /\ copies[v] \in Nat
      BY DEF Inv
    <3>2. posting.write # v
      BY NothingPosts
    <3>3. CASE v = w
      <4>1. copies'[v] = copies[v] + 1 /\ posting'.write = v
        BY <1>3, <3>3 DEF Inv
      <4>2. v \notin broken => copies[v] = 0
        BY <1>3, <3>1, <3>2, <3>3 DEF Accounted
      <4> QED
        BY <1>3, <3>1, <3>3, <4>1, <4>2 DEF Accounted, Backed, Honest
    <3>4. CASE v # w
      <4>1. copies'[v] = copies[v] /\ posting'.write # v
        BY <1>3, <3>4 DEF Inv
      <4> QED
        BY <1>3, <3>1, <3>2, <4>1 DEF Accounted, Backed, Honest
    <3> QED
      BY <3>3, <3>4
  <2> QED
    BY <2>1, <2>2 DEF Inv
<1> QED
  BY <1>1, <1>2, <1>3 DEF Run

\* A write that is being posted and whose post ends, well or badly.
LEMMA RememberKeyKeeps == ASSUME Inv, RememberKey PROVE Inv'
<1>1. \A v \in Writes : copies[v] \in Nat
  BY DEF Inv
<1>2. posting.write \in Writes => copies[posting.write] > 0
  BY DEF Inv, Backed
<1>3. DOMAIN client' = Writes /\ \A v \in Writes : Honest(v)'
  BY <1>1, <1>2, AnsweredKeepsHonest DEF RememberKey, Inv
<1>4. ASSUME NEW v \in Writes PROVE (Accounted(v) /\ Backed(v))'
  <2>1. posting'.write # v
    BY NothingPosts DEF RememberKey
  <2> QED
    BY <2>1 DEF Inv, RememberKey, Accounted, Backed
<1> QED
  BY <1>3, <1>4 DEF Inv, RememberKey

\* A client that is cut or that gives up is queued; the rest of it stands.
LEMMA QueueingKeepsHonest ==
    ASSUME Inv, NEW cut, client' = [v \in Writes |-> IF v \in cut THEN "queued" ELSE client[v]],
           UNCHANGED copies
    PROVE  DOMAIN client' = Writes /\ \A v \in Writes : Honest(v)'
  BY DEF Inv, Honest

LEMMA SpoolDropKeepsHonest ==
    ASSUME Inv, NEW w, SpoolDrop(w), UNCHANGED copies
    PROVE  DOMAIN client' = Writes /\ \A v \in Writes : Honest(v)'
  BY DEF Inv, Honest, SpoolDrop

LEMMA BreakKeeps == ASSUME Inv, BreakMidPost PROVE Inv'
<1>1. DOMAIN client' = Writes /\ \A v \in Writes : Honest(v)'
  <2>1. CASE posting.from = "spool"
    BY <2>1 DEF BreakMidPost, Answered, Inv, Honest
  <2>2. CASE posting.from # "spool"
    BY <2>2, SpoolDropKeepsHonest DEF BreakMidPost, Inv, Honest
  <2> QED
    BY <2>1, <2>2
<1>2. ASSUME NEW v \in Writes PROVE (Accounted(v) /\ Backed(v))'
  <2>1. posting'.write # v
    BY NothingPosts DEF BreakMidPost
  <2> QED
    BY <2>1 DEF Inv, BreakMidPost, Accounted, Backed
<1> QED
  BY <1>1, <1>2 DEF Inv, BreakMidPost

LEMMA DieKeeps == ASSUME Inv, Die PROVE Inv'
<1>1. DOMAIN client' = Writes /\ \A v \in Writes : Honest(v)'
  BY QueueingKeepsHonest DEF Die
<1>2. ASSUME NEW v \in Writes PROVE (Accounted(v) /\ Backed(v))'
  <2>1. posting'.write # v
    BY NothingPosts DEF Die
  <2>2. posting.write = v => v \in broken'
    BY PostingParameters DEF Die
  <2> QED
    BY <2>1, <2>2 DEF Inv, Die, Accounted, Backed
<1> QED
  BY <1>1, <1>2 DEF Inv, Die

\* The rest of what a client and a drain do touches neither the thread nor the keys.
LEMMA IdleKeeps ==
    ASSUME Inv, UNCHANGED <<copies, keyed, posting, broken>>,
           DOMAIN client' = Writes, \A v \in Writes : Honest(v)'
    PROVE  Inv'
  BY DEF Inv, Accounted, Backed

LEMMA CallKeeps == ASSUME Inv, NEW w \in Writes, Call(w) PROVE Inv'
<1>1. DOMAIN client' = Writes /\ \A v \in Writes : Honest(v)'
  BY DEF Call, daemonVars, Inv, Honest
<1> QED
  BY <1>1, IdleKeeps DEF Call, daemonVars

LEMMA InvHolds == Spec => []Inv
<1>1. Init => Inv
  BY NothingPosts DEF Init, Inv, Accounted, Backed, Honest
<1>2. Inv /\ [Next]_vars => Inv'
  <2> SUFFICES ASSUME Inv, [Next]_vars PROVE Inv'
    OBVIOUS
  <2>1. ASSUME NEW w \in Writes, Call(w) PROVE Inv'
    BY <2>1, CallKeeps
  <2>2. ASSUME NEW w \in Writes, Retry(w) PROVE Inv'
    BY <2>2, IdleKeeps DEF Retry, daemonVars, Inv, Honest
  <2>3. ASSUME NEW w \in Writes, GiveUp(w) PROVE Inv'
    BY <2>3, IdleKeeps, SpoolDropKeepsHonest DEF GiveUp
  <2>4. ASSUME NEW w \in Writes, Serve(w) PROVE Inv'
    BY <2>4, RunKeeps DEF Serve
  <2>5. CASE RememberKey
    BY <2>5, RememberKeyKeeps
  <2>6. CASE BreakMidPost
    BY <2>6, BreakKeeps
  <2>7. CASE DrainSpool
    BY <2>7, IdleKeeps DEF DrainSpool, Inv, Honest
  <2>8. CASE ProcessOne
    BY <2>8, RunKeeps DEF ProcessOne
  <2>9. CASE Boot
    BY <2>9, IdleKeeps DEF Boot, Inv, Honest
  <2>10. CASE Die
    BY <2>10, DieKeeps
  <2>11. CASE UNCHANGED vars
    BY <2>11, IdleKeeps DEF vars, Inv, Honest
  <2> QED
    BY <2>1, <2>2, <2>3, <2>4, <2>5, <2>6, <2>7, <2>8, <2>9, <2>10, <2>11 DEF Next
<1> QED
  BY <1>1, <1>2, PTL DEF Spec

(* However calls are cut, repeated, timed out, spooled and replayed, and   *)
(* however often the daemon dies, a write is in the thread once, unless    *)
(* its own post broke between the message and its key (message.post).      *)
THEOREM LandsOnce == Spec => []OnceUnlessBroken
<1>1. Inv => OnceUnlessBroken
  BY DEF Inv, Accounted, OnceUnlessBroken
<1> QED
  BY <1>1, InvHolds, PTL

-----------------------------------------------------------------------------
(* Listings: the spool and what is left of a drain's listing of it are     *)
(* sequences in which no file stands twice.                                *)

Listing(s) == s \in Seq(Writes) /\ IsInjective(s)

LEMMA RangeIs ==
    ASSUME NEW s \in Seq(Writes)
    PROVE  /\ Range(s) = {s[i] : i \in 1..Len(s)} /\ Range(s) \subseteq Writes
           /\ DOMAIN s = 1..Len(s) /\ Len(s) \in Nat
  BY DEF Range

LEMMA AppendLists ==
    ASSUME NEW s, Listing(s), NEW w \in Writes, w \notin Range(s)
    PROVE  Listing(Append(s, w)) /\ Range(Append(s, w)) = Range(s) \cup {w}
<1> DEFINE t == Append(s, w)
<1>1. s \in Seq(Writes) /\ IsInjective(s)
  BY DEF Listing
<1>2. t \in Seq(Writes) /\ Len(t) = Len(s) + 1 /\ Len(s) \in Nat
      /\ DOMAIN t = 1..Len(t) /\ t[Len(s) + 1] = w /\ \A i \in 1..Len(s) : t[i] = s[i]
  BY <1>1
<1>3. Range(s) = {s[i] : i \in 1..Len(s)} /\ DOMAIN s = 1..Len(s)
  BY <1>1, RangeIs
<1> HIDE DEF t
<1>4. Range(t) = Range(s) \cup {w}
  <2>1. Range(t) = {t[i] : i \in 1..Len(t)}
    BY <1>2, RangeIs
  <2>2. \A i \in 1..Len(t) : i \in 1..Len(s) \/ i = Len(s) + 1
    BY <1>2
  <2> QED
    BY <2>1, <2>2, <1>2, <1>3
<1>5. IsInjective(t)
  <2> SUFFICES ASSUME NEW i \in 1..Len(t), NEW j \in 1..Len(t), t[i] = t[j] PROVE i = j
    BY <1>2 DEF IsInjective
  <2>1. CASE i \in 1..Len(s) /\ j \in 1..Len(s)
    BY <2>1, <1>1, <1>2, <1>3 DEF IsInjective
  <2>2. CASE i \in 1..Len(s) /\ j = Len(s) + 1
    BY <2>2, <1>2, <1>3
  <2>3. CASE i = Len(s) + 1 /\ j \in 1..Len(s)
    BY <2>3, <1>2, <1>3
  <2>4. CASE i = Len(s) + 1 /\ j = Len(s) + 1
    BY <2>4
  <2> QED
    BY <2>1, <2>2, <2>3, <2>4, <1>2
<1> QED
  BY <1>2, <1>4, <1>5 DEF Listing, t

LEMMA TailLists ==
    ASSUME NEW s, Listing(s), s # <<>>
    PROVE  /\ Listing(Tail(s)) /\ Range(Tail(s)) = Range(s) \ {Head(s)}
           /\ Head(s) \in Range(s) /\ Head(s) \in Writes
<1> DEFINE t == Tail(s)
<1>1. s \in Seq(Writes) /\ IsInjective(s)
  BY DEF Listing
<1>2. t \in Seq(Writes) /\ Len(t) = Len(s) - 1 /\ Len(s) \in Nat /\ Len(s) > 0
      /\ DOMAIN t = 1..Len(t) /\ \A i \in 1..Len(t) : t[i] = s[i + 1]
  BY <1>1
<1>3. Range(s) = {s[i] : i \in 1..Len(s)} /\ DOMAIN s = 1..Len(s) /\ Head(s) = s[1] /\ s[1] \in Writes
  BY <1>1, <1>2, RangeIs
<1> HIDE DEF t
<1>4. Range(t) = Range(s) \ {Head(s)}
  <2>1. Range(t) = {t[i] : i \in 1..Len(t)}
    BY <1>2, RangeIs
  <2>2. \A i \in 1..Len(t) : i + 1 \in 1..Len(s) /\ i + 1 # 1
    BY <1>2
  <2>3. \A i \in 1..Len(s) : i # 1 => i - 1 \in 1..Len(t) /\ t[i - 1] = s[i]
    BY <1>2
  <2>4. \A i \in 1..Len(s) : s[i] = s[1] => i = 1
    BY <1>1, <1>2, <1>3 DEF IsInjective
  <2>5. Range(t) \subseteq Range(s) \ {Head(s)}
    BY <2>1, <2>2, <2>4, <1>2, <1>3
  <2>6. Range(s) \ {Head(s)} \subseteq Range(t)
    BY <2>1, <2>3, <1>3
  <2> QED
    BY <2>5, <2>6
<1>5. IsInjective(t)
  <2> SUFFICES ASSUME NEW i \in 1..Len(t), NEW j \in 1..Len(t), t[i] = t[j] PROVE i = j
    BY <1>2 DEF IsInjective
  <2>1. s[i + 1] = s[j + 1] /\ i + 1 \in 1..Len(s) /\ j + 1 \in 1..Len(s)
    BY <1>2
  <2> QED
    BY <2>1, <1>1, <1>3 DEF IsInjective
<1> QED
  BY <1>2, <1>3, <1>4, <1>5 DEF Listing, t

LEMMA UnlinkLists ==
    ASSUME NEW s, Listing(s), NEW w \in Range(s)
    PROVE  Listing(Unlinked(s, w)) /\ Range(Unlinked(s, w)) = Range(s) \ {w}
<1> DEFINE k == CHOOSE i \in DOMAIN s : s[i] = w
           t == Unlinked(s, w)
<1>1. s \in Seq(Writes) /\ IsInjective(s)
  BY DEF Listing
<1>2. Range(s) = {s[i] : i \in 1..Len(s)} /\ DOMAIN s = 1..Len(s) /\ Len(s) \in Nat
  BY <1>1, RangeIs
<1>3. k \in 1..Len(s) /\ s[k] = w
  BY <1>2
<1>4. \A i \in 1..Len(s) : s[i] = w => i = k
  BY <1>1, <1>2, <1>3 DEF IsInjective
<1>5. t = SubSeq(s, 1, k - 1) \o SubSeq(s, k + 1, Len(s))
  BY DEF Unlinked, RemoveAt
<1> HIDE DEF k, t
<1>6. t \in Seq(Writes) /\ Len(t) = Len(s) - 1 /\ DOMAIN t = 1..Len(t)
      /\ \A i \in 1..Len(t) : t[i] = IF i < k THEN s[i] ELSE s[i + 1]
  <2> DEFINE a == SubSeq(s, 1, k - 1)
             b == SubSeq(s, k + 1, Len(s))
  <2>1. a \in Seq(Writes) /\ Len(a) = k - 1 /\ \A i \in 1..k - 1 : a[i] = s[i]
    <3>1. 1 \in Int /\ k - 1 \in Int /\ \A i \in 1..k - 1 : s[i] \in Writes
      BY <1>1, <1>2, <1>3
    <3>2. /\ a \in Seq(Writes) /\ Len(a) = IF 1 <= k - 1 THEN k - 1 - 1 + 1 ELSE 0
          /\ \A i \in 1..k - 1 - 1 + 1 : a[i] = s[1 + i - 1]
      BY <3>1, SubSeqProperties
    <3> HIDE DEF a
    <3> QED
      BY <3>2, <1>2, <1>3
  <2>2. b \in Seq(Writes) /\ Len(b) = Len(s) - k /\ \A i \in 1..Len(s) - k : b[i] = s[k + i]
    <3>1. k + 1 \in Int /\ Len(s) \in Int /\ \A i \in k + 1..Len(s) : s[i] \in Writes
      BY <1>1, <1>2, <1>3
    <3>2. /\ b \in Seq(Writes) /\ Len(b) = IF k + 1 <= Len(s) THEN Len(s) - (k + 1) + 1 ELSE 0
          /\ \A i \in 1..Len(s) - (k + 1) + 1 : b[i] = s[k + 1 + i - 1]
      BY <3>1, SubSeqProperties
    <3> HIDE DEF b
    <3>3. Len(s) - (k + 1) + 1 = Len(s) - k /\ (k # Len(s) => k + 1 <= Len(s))
      <4>1. k \in Int /\ Len(s) \in Int /\ k <= Len(s)
        BY <1>2, <1>3
      <4> QED
        BY <4>1
    <3>4. Len(b) = Len(s) - k
      <4>1. CASE k = Len(s)
        BY <4>1, <3>2, <1>2
      <4>2. CASE k # Len(s)
        BY <4>2, <3>2, <3>3, <1>2, <1>3
      <4> QED
        BY <4>1, <4>2
    <3> QED
      <4>1. ASSUME NEW i \in 1..Len(s) - k PROVE b[i] = s[k + i]
        <5>1. k + 1 + i - 1 = k + i
          BY <1>2, <1>3
        <5> QED
          BY <5>1, <3>2, <3>3
      <4> QED
        BY <4>1, <3>2, <3>4
  <2> HIDE DEF a, b
  <2>3. a \o b \in Seq(Writes) /\ Len(a \o b) = Len(a) + Len(b)
        /\ \A i \in 1..Len(a) + Len(b) : (a \o b)[i] = IF i <= Len(a) THEN a[i] ELSE b[i - Len(a)]
    BY <2>1, <2>2, ConcatProperties
  <2>4. t = a \o b
    BY <1>5 DEF a, b
  <2>5. Len(t) = Len(s) - 1 /\ t \in Seq(Writes) /\ DOMAIN t = 1..Len(t)
    <3>1. Len(a) + Len(b) = Len(s) - 1
      BY <2>1, <2>2, <1>2, <1>3
    <3>2. t \in Seq(Writes) /\ Len(t) = Len(s) - 1
      BY <3>1, <2>3, <2>4
    <3> QED
      BY <3>2, RangeIs
  <2>6. ASSUME NEW i \in 1..Len(t) PROVE t[i] = IF i < k THEN s[i] ELSE s[i + 1]
    <3>1. CASE i < k
      BY <3>1, <2>1, <2>2, <2>3, <2>4, <2>5, <1>2, <1>3
    <3>2. CASE i >= k
      <4>1. t[i] = b[i - (k - 1)] /\ i - (k - 1) \in 1..Len(s) - k
        BY <3>2, <2>1, <2>2, <2>3, <2>4, <2>5, <1>2, <1>3
      <4>2. k + (i - (k - 1)) = i + 1
        BY <1>2, <1>3
      <4> QED
        BY <4>1, <4>2, <3>2, <2>2, <1>2, <1>3
    <3> QED
      BY <3>1, <3>2, <1>2, <1>3, <2>5
  <2> QED
    BY <2>5, <2>6
<1>7. \A i \in 1..Len(t) : /\ i \in 1..Len(s) /\ i + 1 \in 1..Len(s)
                           /\ i < k => i # k
                           /\ i >= k => i + 1 # k
  BY <1>2, <1>3, <1>6
<1>8. Range(t) = Range(s) \ {w}
  <2>1. Range(t) = {t[i] : i \in 1..Len(t)}
    BY <1>6, RangeIs
  <2>2. Range(t) \subseteq Range(s) \ {w}
    BY <2>1, <1>2, <1>3, <1>4, <1>6, <1>7
  <2>3. ASSUME NEW i \in 1..Len(s), s[i] # w PROVE s[i] \in Range(t)
    <3>1. CASE i < k
      <4>1. i \in 1..Len(t) /\ t[i] = s[i]
        BY <3>1, <1>2, <1>3, <1>6
      <4> QED
        BY <4>1, <2>1
    <3>2. CASE i > k
      <4>1. i - 1 \in 1..Len(t) /\ t[i - 1] = s[i]
        BY <3>2, <1>2, <1>3, <1>6
      <4> QED
        BY <4>1, <2>1
    <3> QED
      BY <2>3, <3>1, <3>2, <1>2, <1>3
  <2> QED
    BY <2>2, <2>3, <1>2
<1>9. IsInjective(t)
  <2> SUFFICES ASSUME NEW i \in 1..Len(t), NEW j \in 1..Len(t), t[i] = t[j] PROVE i = j
    BY <1>6 DEF IsInjective
  <2>1. \A a, b \in 1..Len(s) : s[a] = s[b] => a = b
    BY <1>1, <1>2 DEF IsInjective
  <2>2. CASE i < k /\ j < k
    BY <2>1, <2>2, <1>6, <1>7
  <2>3. CASE i >= k /\ j >= k
    <3>1. s[i + 1] = s[j + 1]
      BY <2>3, <1>3, <1>6, <1>7
    <3> QED
      BY <3>1, <2>1, <1>7
  <2>4. CASE i < k /\ j >= k
    <3>1. s[i] = s[j + 1]
      BY <2>4, <1>3, <1>6, <1>7
    <3> QED
      BY <3>1, <2>1, <2>4, <1>3, <1>7
  <2>5. CASE i >= k /\ j < k
    <3>1. s[j] = s[i + 1]
      BY <2>5, <1>3, <1>6, <1>7
    <3> QED
      BY <3>1, <2>1, <2>5, <1>3, <1>7
  <2> QED
    BY <2>2, <2>3, <2>4, <2>5, <1>3, <1>6
<1> QED
  BY <1>6, <1>8, <1>9 DEF Listing, t

\* The files of the calls that a dying daemon cuts, in whatever order they are written.
LEMMA CutLists ==
    ASSUME NEW cut \in SUBSET Writes
    PROVE  Listing(SetToSeq(cut)) /\ Range(SetToSeq(cut)) = cut
<1> DEFINE n == Cardinality(cut)
           f == SetToSeq(cut)
<1>1. IsFiniteSet(cut) /\ n \in Nat
  BY PostingParameters, FS_Subset, FS_CardinalityType
<1>2. \E g \in [1..n -> cut] : IsInjective(g)
  BY <1>1, FS_CardinalityType DEF ExistsBijection, Bijection, Injection
<1>3. f \in [1..n -> cut] /\ IsInjective(f)
  BY <1>2 DEF SetToSeq
<1> HIDE DEF f
<1>4. IsFiniteSet(1..n) /\ Cardinality(1..n) = n
  <2>1. IsFiniteSet(1..n) /\ Cardinality(1..n) = IF 1 > n THEN 0 ELSE n - 1 + 1
    BY <1>1, FS_Interval
  <2> QED
    BY <2>1, <1>1
<1>5. f \in Surjection(1..n, cut)
  <2>1. f \in Injection(1..n, cut)
    BY <1>3 DEF Injection
  <2>2. Cardinality(1..n) = Cardinality(cut)
    BY <1>4
  <2> HIDE DEF n
  <2> QED
    BY <2>1, <2>2, <1>1, FS_Injection
<1>6. Range(f) = cut
  BY <1>3, <1>5 DEF Range, Surjection
<1>7. f \in Seq(Writes)
  BY <1>1, <1>3
<1> QED
  BY <1>3, <1>6, <1>7 DEF Listing, f

LEMMA JoinLists ==
    ASSUME NEW s, Listing(s), NEW r, Listing(r), Range(s) \cap Range(r) = {}
    PROVE  Listing(s \o r) /\ Range(s \o r) = Range(s) \cup Range(r)
<1> DEFINE t == s \o r
<1>1. s \in Seq(Writes) /\ IsInjective(s) /\ r \in Seq(Writes) /\ IsInjective(r)
  BY DEF Listing
<1>2. /\ Range(s) = {s[i] : i \in 1..Len(s)} /\ DOMAIN s = 1..Len(s) /\ Len(s) \in Nat
      /\ Range(r) = {r[i] : i \in 1..Len(r)} /\ DOMAIN r = 1..Len(r) /\ Len(r) \in Nat
  BY <1>1, RangeIs
<1>3. t \in Seq(Writes) /\ Len(t) = Len(s) + Len(r) /\ DOMAIN t = 1..Len(t)
      /\ \A i \in 1..Len(t) : t[i] = IF i <= Len(s) THEN s[i] ELSE r[i - Len(s)]
  BY <1>1, <1>2, ConcatProperties
<1>4. Range(t) = Range(s) \cup Range(r)
  BY <1>1, RangeConcatenation
<1> HIDE DEF t
<1>5. \A i \in 1..Len(t) : \/ i \in 1..Len(s) /\ t[i] = s[i]
                           \/ i > Len(s) /\ i - Len(s) \in 1..Len(r) /\ t[i] = r[i - Len(s)]
  BY <1>2, <1>3
<1>6. IsInjective(t)
  <2> SUFFICES ASSUME NEW i \in 1..Len(t), NEW j \in 1..Len(t), t[i] = t[j] PROVE i = j
    BY <1>3 DEF IsInjective
  <2>1. CASE i \in 1..Len(s) /\ t[i] = s[i]
    <3>1. j \in 1..Len(s) /\ t[j] = s[j]
      BY <2>1, <1>2, <1>5
    <3> QED
      BY <2>1, <3>1, <1>1, <1>2 DEF IsInjective
  <2>2. CASE i > Len(s) /\ i - Len(s) \in 1..Len(r) /\ t[i] = r[i - Len(s)]
    <3>1. j > Len(s) /\ j - Len(s) \in 1..Len(r) /\ t[j] = r[j - Len(s)]
      BY <2>2, <1>2, <1>5
    <3>2. i - Len(s) = j - Len(s)
      BY <2>2, <3>1, <1>1, <1>2 DEF IsInjective
    <3> QED
      BY <3>2, <1>2
  <2> QED
    BY <2>1, <2>2, <1>5
<1> QED
  BY <1>3, <1>4, <1>6 DEF Listing, t

LEMMA NoneListed == Listing(<<>>) /\ Range(<<>>) = {}
  BY DEF Listing, IsInjective, Range

-----------------------------------------------------------------------------
(* The spool and what authors know of it.                                  *)

SpoolFiles == Listing(spool) /\ Listing(drain) /\ Range(drain) \subseteq Range(spool)

\* A post of the drain is of the first file of what is left.
FromTheHead == posting.from = "spool" => drain # <<>> /\ posting.write = Head(drain)

\* A file is that of a queued write, and a queued write's file is kept until its fate is known;
\* a write nobody sent is nowhere; what is set aside without being in the thread is invalid.
Kept(w) ==
    /\ w \in Range(spool) => client[w] = "queued"
    /\ client[w] = "queued" => w \in Range(spool) \cup failed \/ copies[w] > 0
    /\ w \in calls => client[w] # "idle"
    /\ client[w] = "idle" => copies[w] = 0 /\ w \notin failed
    /\ w \in failed => copies[w] > 0 \/ w \in Invalid

Stored == SpoolFiles /\ FromTheHead /\ \A w \in Writes : Kept(w)

WholePosting == TypeOK /\ Inv /\ Stored

Answers == {"idle", "waiting", "queued", "told", "refused"}

\* The part of TypeOK that an answered call or file can disturb.
Answerable ==
    /\ client \in [Writes -> Answers] /\ calls \subseteq Writes /\ failed \subseteq Writes

LEMMA SameFiles ==
    ASSUME SpoolFiles, UNCHANGED <<spool, drain>>
    PROVE  SpoolFiles' /\ Range(spool)' = Range(spool)
<1>1. Listing(spool)' /\ Listing(drain)'
  BY DEF SpoolFiles, Listing, IsInjective
<1>2. Range(spool)' = Range(spool) /\ Range(drain)' = Range(drain)
  BY DEF Range
<1> QED
  BY <1>1, <1>2 DEF SpoolFiles

LEMMA LeavesListed ==
    ASSUME SpoolFiles, NEW from, from = "spool" => drain # <<>>, Leaves(from)
    PROVE  /\ SpoolFiles'
           /\ Range(spool)' = IF from = "spool" THEN Range(spool) \ {Head(drain)} ELSE Range(spool)
<1>1. CASE from = "spool"
  <2>1. Listing(drain') /\ Range(drain') = Range(drain) \ {Head(drain)} /\ Head(drain) \in Range(drain)
    BY <1>1, TailLists DEF SpoolFiles, Leaves
  <2>2. Listing(spool') /\ Range(spool') = Range(spool) \ {Head(drain)}
    BY <1>1, <2>1, UnlinkLists DEF SpoolFiles, Leaves
  <2> QED
    BY <1>1, <2>1, <2>2 DEF SpoolFiles, Listing, Range, IsInjective
<1>2. CASE from # "spool"
  BY <1>2, SameFiles DEF Leaves
<1> QED
  BY <1>1, <1>2

LEMMA AnsweredKeepsKept ==
    ASSUME WholePosting, NEW w \in Writes, NEW from \in {"bus", "spool"}, NEW answer \in {"told", "refused"},
           Answered(w, from, answer), UNCHANGED copies,
           from = "spool" => drain # <<>> /\ w = Head(drain),
           from = "bus" => client[w] # "idle",
           answer = "told" => copies[w] > 0,
           answer = "refused" => copies[w] > 0 \/ w \in Invalid
    PROVE  Answerable' /\ SpoolFiles' /\ \A v \in Writes : Kept(v)'
<1>1. SpoolFiles' /\ Range(spool)' = IF from = "spool" THEN Range(spool) \ {Head(drain)} ELSE Range(spool)
  BY LeavesListed DEF WholePosting, Stored, Answered
<1>2. client \in [Writes -> Answers] /\ calls \subseteq Writes /\ failed \subseteq Writes
  BY DEF WholePosting, TypeOK, Answers
<1>3. CASE from = "bus"
  <2>1. UNCHANGED <<failed, spool>> /\ calls' = calls \ {w} /\ Range(spool)' = Range(spool)
    BY <1>1, <1>3 DEF Answered, Leaves
  <2>2. client' \in [Writes -> Answers]
    <3>1. answer \in Answers
      BY DEF Answers
    <3>2. [client EXCEPT ![w] = answer] \in [Writes -> Answers]
      BY <1>2, <3>1
    <3> QED
      BY <1>2, <1>3, <3>2 DEF Answered, Told
  <2>3. ASSUME NEW v \in Writes PROVE Kept(v)'
    <3>1. Kept(v)
      BY DEF WholePosting, Stored
    <3>2. client'[v] = client[v] \/ (v = w /\ client[v] = "waiting" /\ client'[v] = answer)
      BY <1>2, <1>3 DEF Answered, Told
    <3> QED
      BY <2>1, <3>1, <3>2 DEF Kept
  <2> QED
    BY <1>1, <1>2, <2>1, <2>2, <2>3 DEF Answerable
<1>4. CASE from = "spool"
  <2>1. /\ UNCHANGED <<client, calls>> /\ Range(spool)' = Range(spool) \ {w}
        /\ failed' = IF answer = "refused" THEN failed \cup {w} ELSE failed
    BY <1>1, <1>4 DEF Answered
  <2>2. client[w] = "queued"
    <3>1. w \in Range(spool)
      BY <1>4, TailLists DEF WholePosting, Stored, SpoolFiles
    <3> QED
      BY <3>1 DEF WholePosting, Stored, Kept
  <2>3. ASSUME NEW v \in Writes PROVE Kept(v)'
    <3>1. Kept(v)
      BY DEF WholePosting, Stored
    <3>2. CASE v = w
      <4>1. copies[w] > 0 \/ (w \in failed' /\ w \in Invalid)
        BY <2>1
      <4> QED
        BY <2>1, <2>2, <3>1, <3>2, <4>1 DEF Kept
    <3>3. CASE v # w
      BY <2>1, <3>1, <3>3 DEF Kept
    <3> QED
      BY <3>2, <3>3
  <2> QED
    BY <1>1, <1>2, <2>1, <2>3 DEF Answerable
<1> QED
  BY <1>3, <1>4

LEMMA RunKeepsStored ==
    ASSUME WholePosting, NEW w \in Writes, NEW from \in {"bus", "spool"}, posting = NoPost, Run(w, from),
           from = "spool" => drain # <<>> /\ w = Head(drain),
           from = "bus" => client[w] # "idle"
    PROVE  /\ Answerable' /\ Stored' /\ copies' \in [Writes -> Nat]
           /\ posting' \in [write : Writes, from : {"bus", "spool"}] \cup {NoPost}
<1>1. CASE w \in keyed /\ Answered(w, from, "told") /\ UNCHANGED <<posting, copies>>
  <2>1. copies[w] > 0
    BY <1>1 DEF WholePosting, Inv, Backed
  <2>2. Answerable' /\ SpoolFiles' /\ \A v \in Writes : Kept(v)'
    BY <1>1, <2>1, AnsweredKeepsKept
  <2> QED
    BY <1>1, <2>2 DEF Stored, FromTheHead, NoPost, WholePosting, TypeOK
<1>2. CASE w \in Invalid /\ Answered(w, from, "refused") /\ UNCHANGED <<posting, copies>>
  <2>1. Answerable' /\ SpoolFiles' /\ \A v \in Writes : Kept(v)'
    BY <1>2, AnsweredKeepsKept
  <2> QED
    BY <1>2, <2>1 DEF Stored, FromTheHead, NoPost, WholePosting, TypeOK
<1>3. CASE /\ w \notin keyed \cup Invalid
           /\ copies' = [copies EXCEPT ![w] = @ + 1]
           /\ posting' = [write |-> w, from |-> from]
           /\ calls' = IF from = "bus" THEN calls \ {w} ELSE calls
           /\ UNCHANGED <<client, spool, drain, failed>>
  <2>1. copies \in [Writes -> Nat] /\ copies[w] + 1 \in Nat
    BY DEF WholePosting, TypeOK
  <2>2. copies' \in [Writes -> Nat]
    BY <1>3, <2>1
  <2>3. Answerable' /\ posting' \in [write : Writes, from : {"bus", "spool"}] \cup {NoPost}
    BY <1>3 DEF WholePosting, TypeOK, Answerable, Answers
  <2>4. SpoolFiles' /\ FromTheHead' /\ Range(spool)' = Range(spool)
    BY <1>3, SameFiles DEF WholePosting, Stored, FromTheHead
  <2>5. ASSUME NEW v \in Writes PROVE Kept(v)'
    <3>1. Kept(v) /\ copies[v] \in Nat
      BY <2>1 DEF WholePosting, Stored
    <3>2. copies'[v] = copies[v] \/ (v = w /\ copies'[v] > 0)
      BY <1>3, <2>1
    <3>3. client[w] # "idle"
      <4>1. CASE from = "spool"
        <5>1. w \in Range(spool)
          BY <4>1, TailLists DEF WholePosting, Stored, SpoolFiles
        <5> QED
          BY <5>1 DEF WholePosting, Stored, Kept
      <4> QED
        BY <4>1
    <3>4. v \in calls' => v \in calls
      BY <1>3
    <3> QED
      BY <1>3, <2>4, <3>1, <3>2, <3>3, <3>4 DEF Kept
  <2> QED
    BY <2>2, <2>3, <2>4, <2>5 DEF Stored
<1> QED
  BY <1>1, <1>2, <1>3 DEF Run

LEMMA InitStored == Init => TypeOK /\ Stored
<1> SUFFICES ASSUME Init PROVE TypeOK /\ Stored
  OBVIOUS
<1>1. SpoolFiles /\ Range(spool) = {}
  BY NoneListed DEF Init, SpoolFiles
<1>2. \A w \in Writes : Kept(w)
  BY <1>1 DEF Init, Kept
<1>3. FromTheHead
  BY DEF Init, NoPost, FromTheHead
<1>4. TypeOK
  <2>1. /\ client \in [Writes -> {"idle", "waiting", "queued", "told", "refused"}]
        /\ copies \in [Writes -> Nat]
    BY DEF Init
  <2>2. spool \in Seq(Writes) /\ drain \in Seq(Writes)
    BY <1>1 DEF SpoolFiles, Listing
  <2> QED
    BY <2>1, <2>2 DEF Init, TypeOK
<1> QED
  BY <1>1, <1>2, <1>3, <1>4 DEF Stored

LEMMA CallKeepsStored == ASSUME WholePosting, NEW w \in Writes, Call(w) PROVE (TypeOK /\ Stored)'
<1>1. client \in [Writes -> Answers] /\ client[w] = "idle" /\ client' = [client EXCEPT ![w] = "waiting"]
  BY DEF WholePosting, TypeOK, Answers, Call
<1>2. TypeOK'
  <2>1. client' \in [Writes -> Answers]
    BY <1>1 DEF Answers
  <2>2. calls' \subseteq Writes
    BY DEF Call, WholePosting, TypeOK
  <2> QED
    BY <2>1, <2>2 DEF Call, daemonVars, WholePosting, TypeOK, Answers
<1>3. SpoolFiles' /\ Range(spool)' = Range(spool)
  BY SameFiles DEF WholePosting, Stored, Call, daemonVars
<1>4. FromTheHead'
  BY DEF WholePosting, Stored, Call, daemonVars, FromTheHead
<1>5. ASSUME NEW v \in Writes PROVE Kept(v)'
  <2>1. Kept(v) /\ Kept(w)
    BY DEF WholePosting, Stored
  <2>2. client'[v] = IF v = w THEN "waiting" ELSE client[v]
    BY <1>1
  <2>3. v \in calls' => v \in calls \/ v = w
    BY DEF Call
  <2>4. UNCHANGED <<failed, copies>>
    BY DEF Call, daemonVars
  <2> QED
    BY <1>1, <1>3, <2>1, <2>2, <2>3, <2>4 DEF Kept
<1> QED
  BY <1>2, <1>3, <1>4, <1>5 DEF Stored

LEMMA RetryKeepsStored == ASSUME WholePosting, NEW w \in Writes, Retry(w) PROVE (TypeOK /\ Stored)'
<1>1. TypeOK' /\ FromTheHead'
  BY DEF WholePosting, Stored, TypeOK, Retry, daemonVars, FromTheHead
<1>2. SpoolFiles' /\ Range(spool)' = Range(spool)
  BY SameFiles DEF WholePosting, Stored, Retry, daemonVars
<1>3. ASSUME NEW v \in Writes PROVE Kept(v)'
  BY <1>2 DEF WholePosting, Stored, Retry, daemonVars, Kept
<1> QED
  BY <1>1, <1>2, <1>3 DEF Stored

\* A client that gives up, or reads a 500, leaves a file that was not there.
LEMMA DropListed ==
    ASSUME WholePosting, NEW w \in Writes, client[w] = "waiting", SpoolDrop(w),
           UNCHANGED <<drain, calls, failed, copies>>
    PROVE  /\ client' \in [Writes -> Answers] /\ nudged' = up
           /\ SpoolFiles' /\ \A v \in Writes : Kept(v)'
<1>1. client \in [Writes -> Answers]
  BY DEF WholePosting, TypeOK, Answers
<1>2. client' \in [Writes -> Answers] /\ \A v \in Writes : client'[v] = IF v = w THEN "queued" ELSE client[v]
  BY <1>1 DEF SpoolDrop, Answers
<1>3. w \notin Range(spool)
  BY DEF WholePosting, Stored, Kept
<1>4. Listing(spool') /\ Range(spool') = Range(spool) \cup {w}
  BY <1>3, AppendLists DEF WholePosting, Stored, SpoolFiles, SpoolDrop
<1>5. SpoolFiles' /\ Range(spool)' = Range(spool) \cup {w}
  <2>1. Range(drain') = Range(drain) /\ Listing(drain')
    BY DEF WholePosting, Stored, SpoolFiles
  <2> QED
    BY <1>4, <2>1 DEF WholePosting, Stored, SpoolFiles, Listing, Range, IsInjective
<1>6. ASSUME NEW v \in Writes PROVE Kept(v)'
  <2>1. Kept(v)
    BY DEF WholePosting, Stored
  <2> QED
    BY <2>1, <1>2, <1>5 DEF Kept
<1> QED
  BY <1>2, <1>5, <1>6 DEF SpoolDrop

LEMMA GiveUpKeepsStored == ASSUME WholePosting, NEW w \in Writes, GiveUp(w) PROVE (TypeOK /\ Stored)'
<1>1. client' \in [Writes -> Answers] /\ nudged' = up /\ SpoolFiles' /\ \A v \in Writes : Kept(v)'
  BY DropListed DEF GiveUp
<1>2. FromTheHead'
  BY DEF WholePosting, Stored, GiveUp, FromTheHead
<1>3. TypeOK'
  BY <1>1 DEF WholePosting, TypeOK, Answers, GiveUp, SpoolFiles, Listing
<1> QED
  BY <1>1, <1>2, <1>3 DEF Stored

LEMMA ServeKeepsStored == ASSUME WholePosting, NEW w \in Writes, Serve(w) PROVE (TypeOK /\ Stored)'
<1>1. client[w] # "idle"
  BY DEF WholePosting, Stored, Kept, Serve
<1>2. /\ Answerable' /\ Stored' /\ copies' \in [Writes -> Nat]
      /\ posting' \in [write : Writes, from : {"bus", "spool"}] \cup {NoPost}
  BY <1>1, RunKeepsStored DEF Serve
<1> QED
  BY <1>2 DEF WholePosting, TypeOK, Answerable, Answers, Stored, SpoolFiles, Listing, Serve

LEMMA ProcessOneKeepsStored == ASSUME WholePosting, ProcessOne PROVE (TypeOK /\ Stored)'
<1>1. Head(drain) \in Writes
  BY TailLists DEF WholePosting, Stored, SpoolFiles, ProcessOne
<1>2. /\ Answerable' /\ Stored' /\ copies' \in [Writes -> Nat]
      /\ posting' \in [write : Writes, from : {"bus", "spool"}] \cup {NoPost}
  BY <1>1, RunKeepsStored DEF ProcessOne
<1> QED
  BY <1>2 DEF WholePosting, TypeOK, Answerable, Answers, Stored, SpoolFiles, Listing, ProcessOne

\* The write whose post is running is in the thread, and its author sent it.
LEMMA PostedIs ==
    ASSUME WholePosting, posting # NoPost
    PROVE  /\ posting.write \in Writes /\ posting.from \in {"bus", "spool"}
           /\ copies[posting.write] > 0 /\ client[posting.write] # "idle"
           /\ posting.from = "spool" => drain # <<>> /\ posting.write = Head(drain)
<1>1. posting.write \in Writes /\ posting.from \in {"bus", "spool"}
  BY DEF WholePosting, TypeOK
<1>2. copies[posting.write] > 0 /\ copies[posting.write] \in Nat
  BY <1>1 DEF WholePosting, Inv, Backed
<1>3. client[posting.write] # "idle"
  BY <1>1, <1>2 DEF WholePosting, Stored, Kept
<1> QED
  BY <1>1, <1>2, <1>3 DEF WholePosting, Stored, FromTheHead

LEMMA RememberKeyKeepsStored == ASSUME WholePosting, RememberKey PROVE (TypeOK /\ Stored)'
<1>1. Answerable' /\ SpoolFiles' /\ \A v \in Writes : Kept(v)'
  BY PostedIs, AnsweredKeepsKept DEF RememberKey
<1>2. FromTheHead'
  BY DEF FromTheHead, RememberKey, NoPost
<1>3. TypeOK'
  BY <1>1, PostedIs DEF WholePosting, TypeOK, Answerable, Answers, SpoolFiles, Listing, RememberKey
<1> QED
  BY <1>1, <1>2, <1>3 DEF Stored

LEMMA BreakKeepsStored == ASSUME WholePosting, BreakMidPost PROVE (TypeOK /\ Stored)'
<1> DEFINE w == posting.write
<1>1. FromTheHead'
  BY DEF FromTheHead, BreakMidPost, NoPost
<1>2. Answerable' /\ SpoolFiles' /\ nudged' \in BOOLEAN /\ \A v \in Writes : Kept(v)'
  <2>1. CASE posting.from = "spool"
    <3>1. Answered(w, "spool", "refused") /\ UNCHANGED <<nudged, copies>>
      BY <2>1 DEF BreakMidPost
    <3>2. Answerable' /\ SpoolFiles' /\ \A v \in Writes : Kept(v)'
      BY <2>1, <3>1, PostedIs, AnsweredKeepsKept DEF BreakMidPost
    <3> QED
      BY <3>1, <3>2 DEF WholePosting, TypeOK
  <2>2. CASE posting.from # "spool" /\ client[w] = "waiting"
    <3>1. SpoolDrop(w) /\ UNCHANGED <<drain, calls, failed, copies>>
      BY <2>2 DEF BreakMidPost
    <3>2. w \in Writes
      BY PostedIs DEF BreakMidPost
    <3>3. client' \in [Writes -> Answers] /\ nudged' = up /\ SpoolFiles' /\ \A v \in Writes : Kept(v)'
      BY <2>2, <3>1, <3>2, DropListed
    <3> QED
      BY <3>1, <3>3 DEF WholePosting, TypeOK, Answerable
  <2>3. CASE posting.from # "spool" /\ client[w] # "waiting"
    <3>1. UNCHANGED <<client, spool, nudged, calls, drain, failed, copies>>
      BY <2>3 DEF BreakMidPost
    <3>2. SpoolFiles' /\ Range(spool)' = Range(spool)
      BY <3>1, SameFiles DEF WholePosting, Stored
    <3>3. \A v \in Writes : Kept(v)'
      BY <3>1, <3>2 DEF WholePosting, Stored, Kept
    <3> QED
      BY <3>1, <3>2, <3>3 DEF WholePosting, TypeOK, Answerable, Answers
  <2> QED
    BY <2>1, <2>2, <2>3
<1>3. TypeOK'
  BY <1>2, PostedIs DEF WholePosting, TypeOK, Answerable, Answers, SpoolFiles, Listing, BreakMidPost
<1> QED
  BY <1>1, <1>2, <1>3 DEF Stored

LEMMA DrainKeepsStored == ASSUME WholePosting, DrainSpool PROVE (TypeOK /\ Stored)'
<1>1. Listing(drain') /\ Range(drain') = Range(spool) /\ UNCHANGED <<spool>>
  BY DEF WholePosting, Stored, SpoolFiles, DrainSpool
<1>2. SpoolFiles' /\ Range(spool)' = Range(spool)
  <2>1. Listing(spool)'
    BY <1>1 DEF WholePosting, Stored, SpoolFiles, Listing, IsInjective
  <2>2. Range(spool)' = Range(spool)
    BY <1>1 DEF Range
  <2> QED
    BY <1>1, <2>1, <2>2 DEF SpoolFiles, Listing, Range, IsInjective
<1>3. FromTheHead'
  BY DEF FromTheHead, DrainSpool, NoPost
<1>4. \A v \in Writes : Kept(v)'
  BY <1>2 DEF WholePosting, Stored, DrainSpool, Kept
<1>5. TypeOK'
  BY <1>2 DEF WholePosting, TypeOK, DrainSpool
<1> QED
  BY <1>2, <1>3, <1>4, <1>5 DEF Stored

LEMMA BootKeepsStored == ASSUME WholePosting, Boot PROVE (TypeOK /\ Stored)'
<1>1. TypeOK' /\ FromTheHead'
  BY DEF WholePosting, Stored, TypeOK, Boot, FromTheHead
<1>2. SpoolFiles' /\ Range(spool)' = Range(spool)
  BY SameFiles DEF WholePosting, Stored, Boot
<1>3. \A v \in Writes : Kept(v)'
  BY <1>2 DEF WholePosting, Stored, Boot, Kept
<1> QED
  BY <1>1, <1>2, <1>3 DEF Stored

LEMMA DieKeepsStored == ASSUME WholePosting, Die PROVE (TypeOK /\ Stored)'
<1> DEFINE cut == {w \in Writes : /\ client[w] = "waiting"
                                  /\ w \in calls \/ posting = [write |-> w, from |-> "bus"]}
<1>1. /\ client' = [w \in Writes |-> IF w \in cut THEN "queued" ELSE client[w]]
      /\ spool' = spool \o SetToSeq(cut)
  BY DEF Die
<1>2. cut \in SUBSET Writes /\ \A v \in cut : client[v] = "waiting"
  OBVIOUS
<1> HIDE DEF cut
<1>3. Listing(SetToSeq(cut)) /\ Range(SetToSeq(cut)) = cut
  BY <1>2, CutLists
<1>4. Range(spool) \cap cut = {}
  BY <1>2 DEF WholePosting, Stored, Kept
<1>5. Listing(spool') /\ Range(spool') = Range(spool) \cup cut
  BY <1>1, <1>3, <1>4, JoinLists DEF WholePosting, Stored, SpoolFiles
<1>6. SpoolFiles' /\ Range(spool)' = Range(spool) \cup cut
  <2>1. Listing(drain') /\ Range(drain') = {}
    BY NoneListed DEF Die
  <2> QED
    BY <1>5, <2>1 DEF SpoolFiles, Listing, Range, IsInjective
<1>7. FromTheHead'
  BY DEF FromTheHead, Die, NoPost
<1>8. ASSUME NEW v \in Writes PROVE Kept(v)'
  <2>1. Kept(v)
    BY DEF WholePosting, Stored
  <2>2. client'[v] = IF v \in cut THEN "queued" ELSE client[v]
    BY <1>1
  <2>3. UNCHANGED <<copies, failed>> /\ calls' = {}
    BY DEF Die
  <2> QED
    BY <1>2, <1>6, <2>1, <2>2, <2>3 DEF Kept
<1>9. TypeOK'
  <2>1. client' \in [Writes -> Answers]
    BY <1>1 DEF WholePosting, TypeOK, Answers
  <2>2. broken' \subseteq Writes
    BY DEF WholePosting, TypeOK, Die, NoPost
  <2> QED
    BY <1>6, <2>1, <2>2 DEF WholePosting, TypeOK, Answers, SpoolFiles, Listing, Die
<1> QED
  BY <1>6, <1>7, <1>8, <1>9 DEF Stored

LEMMA StoredHolds == Spec => [](TypeOK /\ Stored)
<1>1. WholePosting /\ [Next]_vars => (TypeOK /\ Stored)'
  <2> SUFFICES ASSUME WholePosting, [Next]_vars PROVE (TypeOK /\ Stored)'
    OBVIOUS
  <2>1. ASSUME NEW w \in Writes, Call(w) PROVE (TypeOK /\ Stored)'
    BY <2>1, CallKeepsStored
  <2>2. ASSUME NEW w \in Writes, Retry(w) PROVE (TypeOK /\ Stored)'
    BY <2>2, RetryKeepsStored
  <2>3. ASSUME NEW w \in Writes, GiveUp(w) PROVE (TypeOK /\ Stored)'
    BY <2>3, GiveUpKeepsStored
  <2>4. ASSUME NEW w \in Writes, Serve(w) PROVE (TypeOK /\ Stored)'
    BY <2>4, ServeKeepsStored
  <2>5. CASE RememberKey
    BY <2>5, RememberKeyKeepsStored
  <2>6. CASE BreakMidPost
    BY <2>6, BreakKeepsStored
  <2>7. CASE DrainSpool
    BY <2>7, DrainKeepsStored
  <2>8. CASE ProcessOne
    BY <2>8, ProcessOneKeepsStored
  <2>9. CASE Boot
    BY <2>9, BootKeepsStored
  <2>10. CASE Die
    BY <2>10, DieKeepsStored
  <2>11. CASE UNCHANGED vars
    <3>1. TypeOK' /\ FromTheHead'
      BY <2>11 DEF WholePosting, Stored, TypeOK, vars, FromTheHead
    <3>2. SpoolFiles' /\ Range(spool)' = Range(spool)
      BY <2>11, SameFiles DEF WholePosting, Stored, vars
    <3>3. \A v \in Writes : Kept(v)'
      BY <2>11, <3>2 DEF WholePosting, Stored, vars, Kept
    <3> QED
      BY <3>1, <3>2, <3>3 DEF Stored
  <2> QED
    BY <2>1, <2>2, <2>3, <2>4, <2>5, <2>6, <2>7, <2>8, <2>9, <2>10, <2>11 DEF Next
<1>2. WholePosting <=> (TypeOK /\ Inv /\ Stored)
  BY DEF WholePosting
<1> QED
  BY <1>1, <1>2, InitStored, InvHolds, PTL DEF Spec

(* The state of the client, its spool and the daemon is well formed: no    *)
(* file is listed that does not exist, no post runs of a write nobody made *)
(* (client.ts, spool.ts, bus/methods/message.ts).                          *)
THEOREM TypeCorrect == Spec => []TypeOK
  BY StoredHolds, PTL

(* What the author is told is so, for any writes: posted means in the      *)
(* thread, refused means never there, and queued means that the file is    *)
(* in the spool or set aside, or that the write has landed: none is lost   *)
(* when the daemon dies with it, when its drain removes the file or when   *)
(* the call timed out while it ran (client.ts, spool.ts).                  *)
THEOREM AnswersHold == Spec => []AnswersAreTrue
<1>1. Inv /\ TypeOK /\ Stored => AnswersAreTrue
  BY DEF Inv, Honest, Backed, Stored, Kept, AnswersAreTrue
<1> QED
  BY <1>1, InvHolds, StoredHolds, PTL

-----------------------------------------------------------------------------
(* The abstract promise: what a step does to the fates.                    *)

PlainFate(w) ==
    IF copies[w] > 0 THEN "landed"
    ELSE IF client[w] = "refused" \/ w \in failed THEN "rejected"
    ELSE IF client[w] = "idle" THEN "unsent" ELSE "pending"

\* No write is ever doubled without its post having broken.
LEMMA FateIs == ASSUME WholePosting, NEW w \in Writes PROVE Fate(w) = PlainFate(w)
<1>1. copies[w] \in Nat /\ ~(copies[w] > 1 /\ w \notin broken)
  BY DEF WholePosting, TypeOK, Inv, Accounted
<1>2. CASE copies[w] > 0
  BY <1>1, <1>2 DEF Fate, PlainFate
<1>3. CASE ~(copies[w] > 0) /\ (client[w] = "refused" \/ w \in failed)
  BY <1>1, <1>3 DEF Fate, PlainFate
<1>4. CASE ~(copies[w] > 0) /\ ~(client[w] = "refused" \/ w \in failed) /\ client[w] = "idle"
  BY <1>1, <1>4 DEF Fate, PlainFate
<1>5. CASE ~(copies[w] > 0) /\ ~(client[w] = "refused" \/ w \in failed) /\ client[w] # "idle"
  BY <1>1, <1>5 DEF Fate, PlainFate
<1> QED
  BY <1>2, <1>3, <1>4, <1>5

LEMMA FatesAre == WholePosting => \A w \in Writes : Fate(w) = PlainFate(w)
  BY FateIs

\* What may happen to the fates in a step: w is sent, or its fate is settled, or nothing.
Moves(w) ==
    /\ \A v \in Writes \ {w} : PlainFate(v)' = PlainFate(v)
    /\ \/ PlainFate(w)' = PlainFate(w)
       \/ PlainFate(w) = "unsent" /\ PlainFate(w)' = "pending"
       \/ PlainFate(w) = "pending" /\ PlainFate(w)' \in {"landed", "rejected"}

Stands == \A v \in Writes : PlainFate(v)' = PlainFate(v)

\* Nothing but an answer or a queueing is told to a client: no fate is in that.
LEMMA QueuedStands ==
    ASSUME WholePosting, UNCHANGED <<copies, failed>>,
           \A v \in Writes : client'[v] = client[v]
                             \/ (client[v] = "waiting" /\ client'[v] = "queued")
    PROVE  Stands
  BY DEF Stands, PlainFate

LEMMA AnsweredMoves ==
    ASSUME WholePosting, NEW w \in Writes, NEW from \in {"bus", "spool"}, NEW answer \in {"told", "refused"},
           Answered(w, from, answer), UNCHANGED copies,
           from = "spool" => drain # <<>> /\ w = Head(drain),
           answer = "told" => copies[w] > 0
    PROVE  Moves(w)
<1>1. client \in [Writes -> Answers]
  BY DEF WholePosting, TypeOK, Answers
<1>2. /\ \A v \in Writes \ {w} : client'[v] = client[v] /\ (v \in failed' <=> v \in failed)
      /\ client'[w] = client[w] \/ (client[w] = "waiting" /\ client'[w] = answer)
      /\ w \in failed => w \in failed'
  BY <1>1 DEF Answered, Told
<1>3. from = "spool" => client'[w] = client[w] /\ client[w] = "queued"
  <2>1. from = "spool" => w \in Range(spool)
    BY TailLists DEF WholePosting, Stored, SpoolFiles
  <2> QED
    BY <2>1 DEF Answered, WholePosting, Stored, Kept
<1>4. from = "bus" => failed' = failed
  BY DEF Answered
<1>5. copies' = copies
  OBVIOUS
<1>6. \A v \in Writes \ {w} : PlainFate(v)' = PlainFate(v)
  BY <1>2, <1>5 DEF PlainFate
<1>7. CASE copies[w] > 0
  BY <1>5, <1>6, <1>7 DEF Moves, PlainFate
<1>8. CASE ~(copies[w] > 0)
  <2>1. answer = "refused"
    BY <1>8
  <2>2. CASE from = "bus"
    <3>1. CASE client'[w] = client[w]
      BY <1>4, <1>5, <1>6, <1>8, <2>2, <3>1 DEF Moves, PlainFate
    <3>2. CASE client[w] = "waiting" /\ client'[w] = "refused"
      BY <1>4, <1>5, <1>6, <1>8, <2>2, <3>2 DEF Moves, PlainFate
    <3> QED
      BY <1>2, <2>1, <3>1, <3>2
  <2>3. CASE from = "spool"
    <3>1. w \in failed'
      BY <2>1, <2>3 DEF Answered
    <3>2. PlainFate(w)' = "rejected" /\ PlainFate(w) \in {"pending", "rejected"}
      BY <1>3, <1>5, <1>8, <2>3, <3>1 DEF PlainFate
    <3> QED
      BY <1>6, <3>2 DEF Moves
  <2> QED
    BY <2>2, <2>3
<1> QED
  BY <1>7, <1>8

LEMMA RunMoves ==
    ASSUME WholePosting, NEW w \in Writes, NEW from \in {"bus", "spool"}, posting = NoPost, Run(w, from),
           from = "spool" => drain # <<>> /\ w = Head(drain),
           from = "bus" => client[w] # "idle"
    PROVE  Moves(w)
<1>1. CASE w \in keyed /\ Answered(w, from, "told") /\ UNCHANGED <<posting, copies>>
  <2>1. copies[w] > 0
    BY <1>1 DEF WholePosting, Inv, Backed
  <2> QED
    BY <1>1, <2>1, AnsweredMoves
<1>2. CASE w \in Invalid /\ Answered(w, from, "refused") /\ UNCHANGED <<posting, copies>>
  BY <1>2, AnsweredMoves
<1>3. CASE /\ w \notin keyed \cup Invalid
           /\ copies' = [copies EXCEPT ![w] = @ + 1]
           /\ UNCHANGED <<client, failed>>
  <2>1. copies \in [Writes -> Nat]
    BY DEF WholePosting, TypeOK
  <2>2. copies'[w] > 0 /\ \A v \in Writes \ {w} : copies'[v] = copies[v]
    BY <1>3, <2>1
  <2>3. Kept(w) /\ Honest(w)
    BY DEF WholePosting, Inv, Stored
  <2>4. client[w] # "idle"
    <3>1. from = "spool" => w \in Range(spool)
      BY TailLists DEF WholePosting, Stored, SpoolFiles
    <3> QED
      BY <2>3, <3>1 DEF Kept
  <2>5. \A v \in Writes \ {w} : PlainFate(v)' = PlainFate(v)
    BY <1>3, <2>2 DEF PlainFate
  <2>6. PlainFate(w)' = "landed" /\ PlainFate(w) \in {"pending", "landed"}
    <3>1. copies[w] > 0 \/ (client[w] # "refused" /\ w \notin failed)
      BY <1>3, <2>3 DEF Kept, Honest
    <3> QED
      BY <2>2, <2>4, <3>1 DEF PlainFate
  <2> QED
    BY <2>5, <2>6 DEF Moves
<1> QED
  BY <1>1, <1>2, <1>3 DEF Run

LEMMA CallMoves == ASSUME WholePosting, NEW w \in Writes, Call(w) PROVE Moves(w)
<1>1. client \in [Writes -> Answers] /\ client[w] = "idle" /\ client' = [client EXCEPT ![w] = "waiting"]
  BY DEF WholePosting, TypeOK, Answers, Call
<1>2. UNCHANGED <<failed, copies>>
  BY DEF Call, daemonVars
<1>3. copies[w] = 0 /\ w \notin failed
  BY <1>1 DEF WholePosting, Stored, Kept
<1>4. \A v \in Writes \ {w} : PlainFate(v)' = PlainFate(v)
  BY <1>1, <1>2 DEF PlainFate
<1>5. PlainFate(w) = "unsent" /\ PlainFate(w)' = "pending"
  BY <1>1, <1>2, <1>3 DEF PlainFate
<1> QED
  BY <1>4, <1>5 DEF Moves

LEMMA BreakStands == ASSUME WholePosting, BreakMidPost PROVE Stands
<1> DEFINE w == posting.write
<1>1. w \in Writes /\ copies[w] > 0 /\ UNCHANGED copies
  BY PostedIs DEF BreakMidPost
<1>2. \A v \in Writes \ {w} : client'[v] = client[v] /\ (v \in failed' <=> v \in failed)
  <2>1. CASE posting.from = "spool"
    BY <2>1 DEF BreakMidPost, Answered
  <2>2. CASE posting.from # "spool"
    BY <1>1, <2>2 DEF BreakMidPost, SpoolDrop, WholePosting, TypeOK
  <2> QED
    BY <2>1, <2>2
<1> HIDE DEF w
<1>3. ASSUME NEW v \in Writes PROVE PlainFate(v)' = PlainFate(v)
  <2>1. CASE v = w
    BY <1>1, <2>1 DEF PlainFate
  <2>2. CASE v # w
    BY <1>1, <1>2, <2>2 DEF PlainFate
  <2> QED
    BY <2>1, <2>2
<1> QED
  BY <1>3 DEF Stands

LEMMA FatesMove == ASSUME WholePosting, [Next]_vars PROVE Stands \/ \E w \in Writes : Moves(w)
<1>1. ASSUME NEW w \in Writes, Call(w) PROVE Moves(w)
  BY <1>1, CallMoves
<1>2. ASSUME NEW w \in Writes, Retry(w) PROVE Stands
  BY <1>2, QueuedStands DEF Retry, daemonVars
<1>3. ASSUME NEW w \in Writes, GiveUp(w) PROVE Stands
  <2>1. \A v \in Writes : client'[v] = client[v]
                          \/ (client[v] = "waiting" /\ client'[v] = "queued")
    BY <1>3 DEF GiveUp, SpoolDrop, WholePosting, TypeOK
  <2> QED
    BY <1>3, <2>1, QueuedStands DEF GiveUp
<1>4. ASSUME NEW w \in Writes, Serve(w) PROVE Moves(w)
  <2>1. client[w] # "idle"
    BY <1>4 DEF WholePosting, Stored, Kept, Serve
  <2> QED
    BY <1>4, <2>1, RunMoves DEF Serve
<1>5. CASE RememberKey
  <2>1. Moves(posting.write) /\ posting.write \in Writes
    BY <1>5, PostedIs, AnsweredMoves DEF RememberKey
  <2> QED
    BY <2>1
<1>6. CASE BreakMidPost
  BY <1>6, BreakStands
<1>7. CASE DrainSpool
  BY <1>7, QueuedStands DEF DrainSpool
<1>8. CASE ProcessOne
  <2>1. Head(drain) \in Writes
    BY <1>8, TailLists DEF WholePosting, Stored, SpoolFiles, ProcessOne
  <2>2. Moves(Head(drain))
    BY <1>8, <2>1, RunMoves DEF ProcessOne
  <2> QED
    BY <2>1, <2>2
<1>9. CASE Boot
  BY <1>9, QueuedStands DEF Boot
<1>10. CASE Die
  BY <1>10, QueuedStands DEF Die
<1>11. CASE UNCHANGED vars
  BY <1>11, QueuedStands DEF vars
<1> QED
  BY <1>1, <1>2, <1>3, <1>4, <1>5, <1>6, <1>7, <1>8, <1>9, <1>10, <1>11 DEF Next

(* The detailed system implements the promise made to an author: a write   *)
(* goes from unsent to pending and from there, once and for all, to landed *)
(* or rejected, whatever the client, its spool and the daemon do; that it  *)
(* does so in the end is left to the model checker (OneFate).              *)
THEOREM OneFateSafely == Spec => Promise!Safety
<1>1. WholePosting <=> (TypeOK /\ Inv /\ Stored)
  BY DEF WholePosting
<1>2. Init => Promise!Init
  BY DEF Init, Promise!Init, Fate
<1>3. (WholePosting => \A w \in Writes : Fate(w) = PlainFate(w))'
  BY FatesAre, PTL
<1>4. WholePosting /\ WholePosting' /\ [Next]_vars => [Promise!Next]_([w \in Writes |-> Fate(w)])
  <2> SUFFICES ASSUME WholePosting, WholePosting', [Next]_vars
               PROVE  [Promise!Next]_([w \in Writes |-> Fate(w)])
    OBVIOUS
  <2> DEFINE fates == [w \in Writes |-> PlainFate(w)]
  <2>1. [w \in Writes |-> Fate(w)] = fates
    BY FateIs
  <2>2. [w \in Writes |-> Fate(w)]' = fates'
    <3>1. \A w \in Writes : Fate(w)' = PlainFate(w)'
      BY <1>3
    <3> QED
      BY <3>1
  <2>3. CASE Stands
    <3>1. fates' = fates
      BY <2>3 DEF Stands
    <3> QED
      BY <2>1, <2>2, <3>1
  <2>4. ASSUME NEW w \in Writes, Moves(w)
        PROVE  [Promise!Next]_([v \in Writes |-> Fate(v)])
    <3>1. CASE PlainFate(w)' = PlainFate(w)
      <4>1. fates' = fates
        BY <2>4, <3>1 DEF Moves
      <4> QED
        BY <2>1, <2>2, <4>1
    <3>2. CASE PlainFate(w) = "unsent" /\ PlainFate(w)' = "pending"
      <4>1. \A v \in Writes : fates'[v] = IF v = w THEN "pending" ELSE fates[v]
        BY <2>4, <3>2 DEF Moves
      <4>2. fates' = [fates EXCEPT ![w] = "pending"] /\ fates[w] = "unsent"
        BY <3>2, <4>1
      <4> QED
        BY <2>1, <2>2, <4>2 DEF Promise!Next, Promise!Send
    <3>3. CASE PlainFate(w) = "pending" /\ PlainFate(w)' \in {"landed", "rejected"}
      <4>1. /\ fates' = [fates EXCEPT ![w] = PlainFate(w)'] /\ fates[w] = "pending"
            /\ PlainFate(w)' \in {"landed", "rejected"}
        BY <2>4, <3>3 DEF Moves
      <4> QED
        BY <2>1, <2>2, <4>1 DEF Promise!Next, Promise!Settle
    <3> QED
      BY <2>4, <3>1, <3>2, <3>3 DEF Moves
  <2> QED
    BY <2>3, <2>4, FatesMove
<1> QED
  BY <1>1, <1>2, <1>4, InvHolds, StoredHolds, PTL DEF Spec, Promise!Safety

-----------------------------------------------------------------------------
(* Rename: a project under its two names, in any number of runs.           *)

\* What Rename assumes of its constants.
LEMMA RenameParameters ==
    /\ Root \in Folders
    /\ FolderOf \in [Transcripts -> Folders] /\ Begun \subseteq Transcripts
    /\ {"plate", "history"} \cap Transcripts = {}
    /\ None \notin Transcripts \cup {"old", "new", "plate", "history"}
    /\ AgainWay \in Ways /\ Budgets \subseteq [Things -> Nat]
  BY RootAssumption, TranscriptsAssumption, NoneAssumption, AgainAssumption,
     BudgetsAssumption

\* A file that names the new project names an agent.
AgentNamed == yaml.project = "new" => yaml.agent

\* A transcript is empty until it is begun, and one that waits at the old path
\* still records it: what a second plan goes by.
Traced(t) ==
    /\ home[t] = None => holds[t] = {}
    /\ home[t] = "old" => "old" \in holds[t]

\* What a run has passed is done: the folder, the name, the file.
Behind(r) ==
    /\ run[r].phase \in {"dirs", "files"} => place = "new" /\ run[r].mode # "stay"
    /\ Active(r) /\ run[r].mode = "state" => place = "new"
    /\ Active(r) =>
        /\ run[r].phase # "rename" \/ ~run[r].name => names = {"new"}
        /\ run[r].phase \notin {"rename", "patch"} \/ ~run[r].file => yaml.project = "new"
        /\ run[r].file /\ ~run[r].agent => yaml.agent

\* The transcripts it will write exist, and by then their directories are renamed.
Reachable(r) ==
    /\ run[r].phase # "files" => run[r].reading = None
    /\ run[r].phase = "files" => run[r].dirs = {}
    /\ Active(r) =>
        \A x \in Transcripts \cap (run[r].files \cup {run[r].reading}) :
            home[x] # None /\ (home[x] = "old" => FolderOf[x] \in run[r].dirs)

\* All that is left at the old path is in what remains of its plan.
Ahead(r) ==
    Active(r) /\ ~run[r].crossed /\ run[r].mode # "stay" =>
        /\ session = None
        /\ \A t \in Transcripts : home[t] = "old" => FolderOf[t] \in run[r].dirs
        /\ ~run[r].skipped =>
            \A x \in Files : "old" \in holds[x] => x \in run[r].files \cup {run[r].reading}

\* What it said when it ended stays so: no session is left to write the old path.
Said(r) ==
    run[r].phase = "over" /\ ~run[r].skipped /\ ~run[r].crossed =>
        /\ Renaming
        /\ run[r].mode = "stay" \/ (Relocated /\ session # "old")

Sound(r) == Behind(r) /\ Reachable(r) /\ Ahead(r) /\ Said(r)

RenameInv ==
    /\ RenameTypeOK /\ AgentNamed
    /\ \A t \in Transcripts : Traced(t)
    /\ \A r \in Runs : Sound(r)

-----------------------------------------------------------------------------
(* The record of a run, and what types it.                                 *)

RunType ==
    [phase : Phases, bus : BOOLEAN, mode : Modes, at : Paths,
     name : BOOLEAN, file : BOOLEAN, agent : BOOLEAN,
     dirs : SUBSET Folders, files : SUBSET Files,
     reading : Files \cup {None}, stale : BOOLEAN,
     skipped : BOOLEAN, crossed : BOOLEAN]

LEMMA NoRunTyped == NoRun \in RunType
  BY DEF NoRun, RunType, Phases, Steps, Modes, Paths

LEMMA WrittenTyped ==
    ASSUME RenameTypeOK, NEW xs
    PROVE  Written(xs) \in [Runs -> RunType] /\ Crossed(xs) \in [Runs -> RunType]
<1>1. \A r \in Runs : run[r] \in RunType
  BY DEF RenameTypeOK, RunType
<1>2. \A r \in Runs : [run[r] EXCEPT !.stale = @ \/ run[r].reading \in xs] \in RunType
  BY <1>1 DEF RunType
<1>3. Written(xs) \in [Runs -> RunType]
  BY <1>2 DEF Written
<1>4. \A r \in Runs : [Written(xs)[r] EXCEPT !.crossed = @ \/ Active(r)] \in RunType
  BY <1>3 DEF RunType
<1> QED
  BY <1>3, <1>4 DEF Crossed

LEMMA PlanTyped ==
    ASSUME RenameTypeOK, NEW way, NEW stay \in BOOLEAN
    PROVE  PlanOf(way, stay) \in RunType
<1> DEFINE ph == "rename"  b == (way = "known")  m == Mode(stay)  n == ("old" \in names)
           f == (yaml.project # "new")  a == ~yaml.agent  p == NoRun  d == place
           ds == IF stay THEN {} ELSE Claimed  fs == IF stay THEN {} ELSE Rewrites
<1>1. Claimed \subseteq Folders /\ Rewrites \subseteq Files
  BY DEF Claimed, Rewrites
<1>2. m \in Modes /\ d \in Paths /\ ph \in Phases
  BY DEF Mode, Modes, RenameTypeOK, Phases, Steps
<1>3. /\ p \in RunType /\ b \in BOOLEAN /\ n \in BOOLEAN /\ f \in BOOLEAN /\ a \in BOOLEAN
      /\ ds \in SUBSET Folders /\ fs \in SUBSET Files
  BY <1>1, NoRunTyped
<1>4. PlanOf(way, stay) =
        [p EXCEPT !.phase = ph, !.bus = b, !.mode = m, !.at = d, !.name = n, !.file = f,
                  !.agent = a, !.dirs = ds, !.files = fs]
  BY DEF PlanOf
<1> HIDE DEF ph, b, m, d, n, f, a, p, ds, fs
<1>5. [p EXCEPT !.phase = ph, !.bus = b, !.mode = m, !.at = d, !.name = n, !.file = f,
                !.agent = a, !.dirs = ds, !.files = fs] \in RunType
  BY <1>2, <1>3 DEF RunType
<1> QED
  BY <1>4, <1>5

-----------------------------------------------------------------------------
(* Most steps only go onward, and leave the other runs as they were.       *)

\* Nothing gets to the old path, and what is new stays new.
Onward ==
    /\ names = {"new"} => names' = {"new"}
    /\ yaml.project = "new" => yaml'.project = "new"
    /\ yaml.agent => yaml'.agent
    /\ place = "new" => place' = "new"
    /\ session' \in {session, None}
    /\ \A t \in Transcripts : home'[t] = home[t] \/ (home[t] = "old" /\ home'[t] = "new")
    /\ \A x \in Files : "old" \in holds'[x] => "old" \in holds[x]

\* The run has its plan, and has done as much of it.
SamePlan(r) ==
    /\ run'[r].mode = run[r].mode /\ run'[r].dirs = run[r].dirs
    /\ run'[r].files = run[r].files /\ run'[r].reading = run[r].reading
    /\ (run'[r].name <=> run[r].name) /\ (run'[r].file <=> run[r].file)
    /\ (run'[r].agent <=> run[r].agent) /\ (run'[r].skipped <=> run[r].skipped)

\* The run is as it was, but for what it missed of a file it reads.
Alike(r) ==
    /\ run'[r].phase = run[r].phase /\ SamePlan(r)
    /\ run'[r].crossed <=> run[r].crossed

LEMMA AlikeStaysSound ==
    ASSUME RenameInv, NEW r \in Runs, Onward, Alike(r), AgentNamed'
    PROVE  Sound(r)'
<1>1. Sound(r)
  BY DEF RenameInv
<1>2. Active(r)' <=> Active(r)
  BY DEF Active, Alike, SamePlan
<1>3. Behind(r)'
  BY <1>1, <1>2 DEF Sound, Behind, Onward, Alike, SamePlan
<1>4. Reachable(r)'
  <2>1. Reachable(r)
    BY <1>1 DEF Sound
  <2>2. \A x \in Transcripts :
            (home[x] # None => home'[x] # None) /\ (home'[x] = "old" => home[x] = "old")
    BY RenameParameters DEF Onward
  <2> QED
    BY <1>2, <2>1, <2>2 DEF Reachable, Alike, SamePlan
<1>5. Ahead(r)'
  BY <1>1, <1>2 DEF Sound, Ahead, Onward, Alike, SamePlan
<1>6. Said(r)'
  <2> SUFFICES ASSUME run[r].phase = "over", ~run[r].skipped, ~run[r].crossed
               PROVE  Renaming' /\ (run[r].mode = "stay" \/ (Relocated' /\ session' # "old"))
    BY DEF Said, Alike, SamePlan
  <2>1. Renaming /\ (run[r].mode = "stay" \/ (Relocated /\ session # "old"))
    BY <1>1 DEF Sound, Said
  <2>2. Renaming'
    BY <2>1 DEF Renaming, AgentKept, Onward, AgentNamed
  <2>3. Relocated => Relocated'
    BY DEF Relocated, Onward
  <2>4. session # "old" => session' # "old"
    BY RenameParameters DEF Onward
  <2> QED
    BY <2>1, <2>2, <2>3, <2>4
<1> QED
  BY <1>3, <1>4, <1>5, <1>6 DEF Sound

\* A run that was refused, failed or never began says nothing.
LEMMA QuietIsSound ==
    ASSUME NEW r \in Runs, run'[r].phase \in {"idle", "refused", "failed"}, run'[r].reading = None
    PROVE  Sound(r)'
  BY DEF Sound, Behind, Reachable, Ahead, Said, Active, Steps

LEMMA FailsIsSound ==
    ASSUME RenameTypeOK, NEW r \in Runs, Fails(r)
    PROVE  /\ run' \in [Runs -> RunType]
           /\ Sound(r)'
           /\ \A q \in Runs \ {r} : Alike(q)
<1>1. [NoRun EXCEPT !.phase = "failed"] \in RunType
  BY NoRunTyped DEF RunType, Phases
<1>2. run \in [Runs -> RunType]
  BY DEF RenameTypeOK, RunType
<1>3. /\ run' \in [Runs -> RunType]
      /\ run'[r] = [NoRun EXCEPT !.phase = "failed"] /\ \A q \in Runs \ {r} : run'[q] = run[q]
  BY <1>1, <1>2 DEF Fails
<1>4. run'[r].phase = "failed" /\ run'[r].reading = None
  BY <1>3 DEF NoRun
<1> QED
  BY <1>3, <1>4, QuietIsSound DEF Alike, SamePlan

LEMMA WrittenIsAlike ==
    ASSUME run \in [Runs -> RunType], NEW q \in Runs, NEW xs, run'[q] = Written(xs)[q]
    PROVE  Alike(q)
  BY DEF Written, RunType, Alike, SamePlan

LEMMA CrossedIsMarked ==
    ASSUME run \in [Runs -> RunType], NEW q \in Runs, NEW xs, run'[q] = Crossed(xs)[q]
    PROVE  /\ run'[q].phase = run[q].phase /\ SamePlan(q)
           /\ run'[q].crossed <=> run[q].crossed \/ Active(q)
<1>1. /\ Written(xs)[q] \in RunType
      /\ Written(xs)[q] = [run[q] EXCEPT !.stale = @ \/ run[q].reading \in xs]
  BY DEF Written, RunType
<1>2. run'[q] = [Written(xs)[q] EXCEPT !.crossed = @ \/ Active(q)]
  BY DEF Crossed
<1> QED
  BY <1>1, <1>2 DEF RunType, SamePlan

\* One run's step, all that the invariant asks of it.
LEMMA StepIsSound ==
    ASSUME RenameInv, NEW r \in Runs, RenameTypeOK', AgentNamed',
           \A t \in Transcripts : Traced(t)', Onward, \A q \in Runs \ {r} : Alike(q), Sound(r)'
    PROVE  RenameInv'
<1>1. \A q \in Runs \ {r} : Sound(q)'
  BY AlikeStaysSound
<1> QED
  BY <1>1 DEF RenameInv

\* What is not written is as it was.
LEMMA StillIsOnward ==
    ASSUME RenameInv, UNCHANGED <<names, yaml, machine>>
    PROVE  Onward /\ AgentNamed' /\ \A t \in Transcripts : Traced(t)'
<1>1. /\ names' = names /\ yaml' = yaml /\ place' = place /\ home' = home
      /\ holds' = holds /\ session' = session
  BY DEF machine
<1>2. AgentNamed /\ \A t \in Transcripts : Traced(t)
  BY DEF RenameInv
<1> QED
  BY <1>1, <1>2 DEF Onward, AgentNamed, Traced

LEMMA SpendTyped ==
    ASSUME RenameTypeOK, NEW thing \in Things, Spend(thing)
    PROVE  left' \in [Things -> Nat]
  BY DEF RenameTypeOK, Spend

\* What a plan made now would name: all that is left at the old path.
NothingMissed ==
    /\ \A t \in Transcripts : home[t] = "old" => FolderOf[t] \in Claimed
    /\ \A x \in Files : "old" \in holds[x] => x \in Rewrites

LEMMA PlanIsComplete ==
    ASSUME RenameInv
    PROVE  NothingMissed
<1>1. \A t \in Transcripts : Traced(t) /\ home[t] \in Paths \cup {None}
  BY DEF RenameInv, RenameTypeOK
<1>2. ASSUME NEW t \in Transcripts, home[t] = "old" PROVE FolderOf[t] \in Claimed
  <2>1. "old" \in holds[t] /\ FolderOf[t] \in Folders
    BY <1>1, <1>2, RenameParameters DEF Traced
  <2> QED
    BY <1>2, <2>1 DEF Claimed, Directory
<1>3. ASSUME NEW x \in Files, "old" \in holds[x] PROVE x \in Rewrites
  <2>1. x \in Transcripts => home[x] \in {"old", "new"}
    BY <1>1, <1>3 DEF Traced, Paths
  <2> QED
    BY <1>2, <1>3, <2>1 DEF Rewrites
<1> QED
  BY <1>2, <1>3 DEF NothingMissed

\* A new plan sees all there is to do: nothing is behind it, all is ahead.
LEMMA PlanIsSound ==
    ASSUME RenameInv, NEW r \in Runs, NEW way, NEW stay \in BOOLEAN,
           ~Blocked(way, stay), run'[r] = PlanOf(way, stay),
           UNCHANGED <<names, yaml, machine>>
    PROVE  Sound(r)'
<1> DEFINE p == PlanOf(way, stay)
<1>1. /\ p.phase = "rename" /\ p.mode = Mode(stay) /\ p.reading = None
      /\ (p.name <=> "old" \in names) /\ (p.file <=> yaml.project # "new")
      /\ (p.agent <=> ~yaml.agent) /\ ~p.crossed
      /\ p.dirs = (IF stay THEN {} ELSE Claimed)
      /\ p.files = (IF stay THEN {} ELSE Rewrites)
  BY DEF PlanOf, NoRun
<1>2. run'[r] = p
  OBVIOUS
<1> HIDE DEF p
<1>3. /\ names' = names /\ yaml' = yaml /\ place' = place /\ home' = home
      /\ holds' = holds /\ session' = session
  BY DEF machine
<1>4. /\ names \in {{"old"}, {"new"}} /\ place \in Paths
      /\ \A t \in Transcripts : Traced(t)
  BY DEF RenameInv, RenameTypeOK
<1>5. Behind(r)'
  <2>1. p.mode = "state" => place = "new"
    BY <1>1, <1>4 DEF Mode, Paths
  <2>2. ~p.name => names = {"new"}
    BY <1>1, <1>4
  <2> QED
    BY <1>1, <1>2, <1>3, <2>1, <2>2 DEF Behind
<1>6. Reachable(r)'
  <2>1. ASSUME NEW x \in Transcripts, x \in p.files
        PROVE  home[x] # None /\ (home[x] = "old" => FolderOf[x] \in p.dirs)
    <3>1. ~stay /\ x \in Rewrites /\ p.dirs = Claimed
      BY <1>1, <2>1
    <3>2. "old" \in holds[x] /\ (home[x] = "new" \/ FolderOf[x] \in Claimed)
      BY <2>1, <3>1 DEF Rewrites
    <3> QED
      BY <1>4, <2>1, <3>1, <3>2 DEF Traced
  <2>2. \A x \in Transcripts : x # None
    BY RenameParameters
  <2> QED
    BY <1>1, <1>2, <1>3, <2>1, <2>2 DEF Reachable
<1>7. Ahead(r)'
  <2> SUFFICES ASSUME p.mode # "stay"
               PROVE  /\ session = None
                      /\ \A t \in Transcripts : home[t] = "old" => FolderOf[t] \in p.dirs
                      /\ \A x \in Files : "old" \in holds[x] => x \in p.files
    BY <1>1, <1>2, <1>3 DEF Ahead
  <2>1. ~stay
    BY <1>1 DEF Mode
  <2>2. session = None /\ p.dirs = Claimed /\ p.files = Rewrites
    BY <1>1, <2>1 DEF Blocked
  <2> QED
    BY <2>2, PlanIsComplete DEF NothingMissed
<1>8. Said(r)'
  BY <1>1, <1>2 DEF Said
<1> QED
  BY <1>5, <1>6, <1>7, <1>8 DEF Sound

LEMMA PlanKeeps ==
    ASSUME RenameInv, NEW r \in Runs, NEW way, NEW stay \in BOOLEAN,
           Plan(r, way, stay), left' \in [Things -> Nat]
    PROVE  RenameInv'
<1> DEFINE p == IF Blocked(way, stay) THEN [NoRun EXCEPT !.phase = "refused"]
                ELSE PlanOf(way, stay)
<1>1. RenameTypeOK /\ run \in [Runs -> RunType]
  BY DEF RenameInv, RenameTypeOK, RunType
<1>2. UNCHANGED <<names, yaml, machine>> /\ run' = [run EXCEPT ![r] = p]
  BY DEF Plan
<1>3. p \in RunType
  <2>1. [NoRun EXCEPT !.phase = "refused"] \in RunType
    BY NoRunTyped DEF RunType, Phases
  <2> QED
    BY <1>1, <2>1, PlanTyped
<1>4. Sound(r)'
  <2>1. CASE Blocked(way, stay)
    <3>1. run'[r] = [NoRun EXCEPT !.phase = "refused"]
      BY <1>1, <1>2, <2>1
    <3>2. run'[r].phase = "refused" /\ run'[r].reading = None
      BY <3>1 DEF NoRun
    <3> QED
      BY <3>2, QuietIsSound
  <2>2. CASE ~Blocked(way, stay)
    <3>1. run'[r] = PlanOf(way, stay)
      BY <1>1, <1>2, <2>2
    <3> QED
      BY <1>2, <2>2, <3>1, PlanIsSound
  <2> QED
    BY <2>1, <2>2
<1> HIDE DEF p
<1>5. run' \in [Runs -> RunType] /\ \A q \in Runs \ {r} : Alike(q)
  BY <1>1, <1>2, <1>3 DEF Alike, SamePlan
<1>6. RenameTypeOK'
  BY <1>1, <1>2, <1>5 DEF RenameTypeOK, RunType, machine
<1> QED
  BY <1>2, <1>4, <1>5, <1>6, StillIsOnward, StepIsSound

-----------------------------------------------------------------------------
(* The steps of a run, one by one.                                         *)

\* A run goes on to a phase it has earned.
LEMMA GoesIsSound ==
    ASSUME RenameInv, NEW r \in Runs, NEW phase \in Steps,
           Onward, AgentNamed', Active(r), run[r].phase # "files", Goes(r, phase),
           run'[r].phase = phase /\ SamePlan(r) => Behind(r)',
           phase = "files" => run[r].dirs = {}
    PROVE  /\ run' \in [Runs -> RunType]
           /\ Sound(r)'
           /\ \A q \in Runs \ {r} : Alike(q)
<1>1. run \in [Runs -> RunType] /\ Sound(r)
  BY DEF RenameInv, RenameTypeOK, RunType
<1>2. phase \in Phases
  BY DEF Phases
<1>3. run' = [run EXCEPT ![r] = [run[r] EXCEPT !.phase = phase]]
  BY <1>1 DEF Goes
<1>4. [run[r] EXCEPT !.phase = phase] \in RunType
  BY <1>1, <1>2 DEF RunType
<1>5. /\ run' \in [Runs -> RunType] /\ run'[r] = [run[r] EXCEPT !.phase = phase]
      /\ \A q \in Runs \ {r} : run'[q] = run[q]
  BY <1>1, <1>3, <1>4
<1>6. run'[r].phase = phase /\ SamePlan(r) /\ (run'[r].crossed <=> run[r].crossed)
  BY <1>1, <1>5 DEF RunType, SamePlan
<1>7. Active(r)' /\ run[r].reading = None
  BY <1>1, <1>6 DEF Active, Sound, Reachable
<1>8. Reachable(r)'
  <2>1. Reachable(r)
    BY <1>1 DEF Sound
  <2>2. \A x \in Transcripts :
            (home[x] # None => home'[x] # None) /\ (home'[x] = "old" => home[x] = "old")
    BY RenameParameters DEF Onward
  <2> QED
    BY <1>6, <1>7, <2>1, <2>2 DEF Reachable, SamePlan
<1>9. Ahead(r)'
  BY <1>1, <1>6, <1>7 DEF Sound, Ahead, Onward, SamePlan
<1>10. Said(r)'
  BY <1>6 DEF Said, Steps
<1> QED
  BY <1>5, <1>6, <1>8, <1>9, <1>10 DEF Sound, Alike, SamePlan

\* The same two, in a step that writes nothing.
LEMMA GoesKeeps ==
    ASSUME RenameInv, NEW r \in Runs, NEW phase \in Steps,
           Active(r), run[r].phase # "files", Goes(r, phase),
           UNCHANGED <<names, yaml, machine, left>>,
           run'[r].phase = phase /\ SamePlan(r) => Behind(r)',
           phase = "files" => run[r].dirs = {}
    PROVE  RenameInv'
<1>1. Onward /\ AgentNamed' /\ \A t \in Transcripts : Traced(t)'
  BY StillIsOnward
<1>2. /\ run' \in [Runs -> RunType] /\ Sound(r)' /\ \A q \in Runs \ {r} : Alike(q)
  BY <1>1, GoesIsSound
<1>3. RenameTypeOK'
  BY <1>2 DEF RenameInv, RenameTypeOK, RunType, machine
<1> QED
  BY <1>1, <1>2, <1>3, StepIsSound

LEMMA FailsKeeps ==
    ASSUME RenameInv, NEW r \in Runs, Fails(r),
           UNCHANGED <<names, yaml, machine>>, left' \in [Things -> Nat]
    PROVE  RenameInv'
<1>1. Onward /\ AgentNamed' /\ \A t \in Transcripts : Traced(t)'
  BY StillIsOnward
<1>2. /\ run' \in [Runs -> RunType] /\ Sound(r)' /\ \A q \in Runs \ {r} : Alike(q)
  BY FailsIsSound DEF RenameInv
<1>3. RenameTypeOK'
  BY <1>2 DEF RenameInv, RenameTypeOK, RunType, machine
<1> QED
  BY <1>1, <1>2, <1>3, StepIsSound

LEMMA RenameProjectKeeps ==
    ASSUME RenameInv, NEW r \in Runs, RenameProject(r)
    PROVE  RenameInv'
<1>1. /\ run[r].phase = "rename" /\ Active(r) /\ RenameTypeOK /\ Sound(r)
      /\ UNCHANGED <<yaml, place, root, home, holds, session, left>>
      /\ AgentNamed /\ \A t \in Transcripts : Traced(t)
  BY DEF RenameProject, Active, Steps, machine, RenameInv
<1>2. CASE Goes(r, "patch") /\ names' = {"new"}
  <2>1. Onward /\ AgentNamed' /\ \A t \in Transcripts : Traced(t)'
    BY <1>1, <1>2 DEF Onward, AgentNamed, Traced
  <2>2. run'[r].phase = "patch" /\ SamePlan(r) => Behind(r)'
    BY <1>1, <1>2 DEF Sound, Behind, SamePlan
  <2>3. /\ run' \in [Runs -> RunType] /\ Sound(r)' /\ \A q \in Runs \ {r} : Alike(q)
    BY <1>1, <1>2, <2>1, <2>2, GoesIsSound DEF Steps
  <2>4. RenameTypeOK'
    BY <1>1, <1>2, <2>3 DEF RenameTypeOK, RunType
  <2> QED
    BY <2>1, <2>3, <2>4, StepIsSound
<1>3. CASE ~run[r].name /\ Goes(r, "patch") /\ UNCHANGED names
  <2>1. names' = {"new"}
    BY <1>1, <1>3 DEF Sound, Behind
  <2> QED
    BY <1>2, <1>3, <2>1
<1>4. CASE Fails(r) /\ UNCHANGED names
  BY <1>1, <1>4, FailsKeeps DEF machine, RenameTypeOK
<1> QED
  BY <1>2, <1>3, <1>4 DEF RenameProject, Renamed

LEMMA PatchFileKeeps ==
    ASSUME RenameInv, NEW r \in Runs, PatchFile(r)
    PROVE  RenameInv'
<1>1. /\ run[r].phase = "patch" /\ Active(r) /\ RenameTypeOK /\ Sound(r)
      /\ UNCHANGED <<names, place, root, home, holds, session, left>>
      /\ AgentNamed /\ \A t \in Transcripts : Traced(t)
  BY DEF PatchFile, Active, Steps, machine, RenameInv
<1>2. CASE run[r].file /\ Goes(r, "move") /\ yaml' = Patched(yaml, run[r].agent)
  <2>1. yaml'.project = "new" /\ yaml'.agent
    BY <1>1, <1>2 DEF Patched, Sound, Behind
  <2>2. Onward /\ AgentNamed' /\ \A t \in Transcripts : Traced(t)'
    BY <1>1, <2>1 DEF Onward, AgentNamed, Traced
  <2>3. run'[r].phase = "move" /\ SamePlan(r) => Behind(r)'
    BY <1>1, <2>1 DEF Sound, Behind, SamePlan
  <2>4. /\ run' \in [Runs -> RunType] /\ Sound(r)' /\ \A q \in Runs \ {r} : Alike(q)
    BY <1>1, <1>2, <2>2, <2>3, GoesIsSound DEF Steps
  <2>5. yaml' \in [project : Paths \cup {None}, agent : BOOLEAN]
    BY <1>1, <1>2, <2>1 DEF Patched, Paths
  <2>6. RenameTypeOK'
    BY <1>1, <2>4, <2>5 DEF RenameTypeOK, RunType
  <2> QED
    BY <2>2, <2>4, <2>6, StepIsSound
<1>3. CASE ~run[r].file /\ Goes(r, "move") /\ UNCHANGED yaml
  <2>1. run'[r].phase = "move" /\ SamePlan(r) => Behind(r)'
    BY <1>1, <1>3 DEF Sound, Behind, SamePlan
  <2> QED
    BY <1>1, <1>3, <2>1, GoesKeeps DEF machine, Steps
<1>4. CASE Fails(r) /\ UNCHANGED yaml
  BY <1>1, <1>4, FailsKeeps DEF machine, RenameTypeOK
<1> QED
  BY <1>2, <1>3, <1>4 DEF PatchFile

\* A run ends as it says.
LEMMA EndsIsSound ==
    ASSUME RenameTypeOK, NEW r \in Runs, Ends(r),
           ~run[r].skipped /\ ~run[r].crossed =>
               /\ Renaming'
               /\ run[r].mode = "stay" \/ (Relocated' /\ session' # "old")
    PROVE  /\ run' \in [Runs -> RunType]
           /\ Sound(r)'
           /\ \A q \in Runs \ {r} : Alike(q)
<1> DEFINE o == "over"  m == run[r].mode  s == run[r].skipped  c == run[r].crossed
           p == NoRun
<1>1. run \in [Runs -> RunType]
  BY DEF RenameTypeOK, RunType
<1>2. /\ p \in RunType /\ o \in Phases /\ m \in Modes /\ s \in BOOLEAN /\ c \in BOOLEAN
  BY <1>1, NoRunTyped DEF RunType, Phases
<1>3. run' = [run EXCEPT ![r] =
                 [p EXCEPT !.phase = o, !.mode = m, !.skipped = s, !.crossed = c]]
  BY DEF Ends
<1>4. p.reading = None
  BY DEF NoRun
<1> HIDE DEF o, m, s, c, p
<1>5. [p EXCEPT !.phase = o, !.mode = m, !.skipped = s, !.crossed = c] \in RunType
  BY <1>2 DEF RunType
<1>6. /\ run' \in [Runs -> RunType] /\ \A q \in Runs \ {r} : run'[q] = run[q]
      /\ run'[r] = [p EXCEPT !.phase = o, !.mode = m, !.skipped = s, !.crossed = c]
  BY <1>1, <1>3, <1>5
<1>7. /\ run'[r].phase = o /\ run'[r].mode = m /\ (run'[r].skipped <=> s)
      /\ (run'[r].crossed <=> c) /\ run'[r].reading = None
  BY <1>2, <1>4, <1>6 DEF RunType
<1>8. Said(r)'
  BY <1>7 DEF Said, m, s, c
<1>9. Behind(r)' /\ Reachable(r)' /\ Ahead(r)'
  BY <1>7 DEF Behind, Reachable, Ahead, Active, Steps, o
<1> QED
  BY <1>6, <1>8, <1>9 DEF Sound, Alike, SamePlan

\* What is behind a run that has patched the file.
LEMMA PatchedIsRenaming ==
    ASSUME RenameInv, NEW r \in Runs, run[r].phase \in {"move", "dirs", "files"}
    PROVE  Renaming /\ yaml.agent
<1>1. Behind(r) /\ Active(r) /\ AgentNamed
  BY DEF RenameInv, Sound, Active, Steps
<1>2. names = {"new"} /\ yaml.project = "new"
  BY <1>1 DEF Behind
<1> QED
  BY <1>1, <1>2 DEF Renaming, AgentKept, AgentNamed

LEMMA MoveFolderKeeps ==
    ASSUME RenameInv, NEW r \in Runs, MoveFolder(r)
    PROVE  RenameInv'
<1>1. /\ run[r].phase = "move" /\ Active(r) /\ RenameTypeOK /\ Sound(r)
      /\ UNCHANGED <<names, yaml, root, home, holds, session, left>>
      /\ AgentNamed /\ \A t \in Transcripts : Traced(t)
  BY DEF MoveFolder, Active, Steps, RenameInv
<1>2. run[r].mode \in {"move", "state", "stay"}
  BY <1>1 DEF RenameTypeOK, Modes
<1>3. CASE run[r].mode = "stay"
  <2>1. Ends(r) /\ UNCHANGED <<names, yaml, place, root, home, holds, session, left>>
    BY <1>1, <1>3 DEF MoveFolder
  <2>2. Renaming'
    BY <1>1, <2>1, PatchedIsRenaming DEF Renaming, AgentKept
  <2>3. Onward /\ AgentNamed' /\ \A t \in Transcripts : Traced(t)'
    BY <2>1, StillIsOnward DEF machine
  <2>4. /\ run' \in [Runs -> RunType] /\ Sound(r)' /\ \A q \in Runs \ {r} : Alike(q)
    BY <1>1, <1>3, <2>1, <2>2, EndsIsSound
  <2>5. RenameTypeOK'
    BY <1>1, <2>1, <2>4 DEF RenameTypeOK, RunType
  <2> QED
    BY <2>3, <2>4, <2>5, StepIsSound
<1>4. CASE run[r].mode = "state"
  <2>1. Goes(r, "dirs") /\ UNCHANGED <<names, yaml, place, root, home, holds, session, left>>
    BY <1>1, <1>4 DEF MoveFolder
  <2>2. run'[r].phase = "dirs" /\ SamePlan(r) => Behind(r)'
    BY <1>1, <1>4, <2>1 DEF Sound, Behind, SamePlan
  <2> QED
    BY <1>1, <2>1, <2>2, GoesKeeps DEF machine, Steps
<1>5. CASE run[r].mode = "move" /\ place = "old"
  <2>1. Goes(r, "dirs") /\ place' = "new"
    BY <1>5 DEF MoveFolder
  <2>2. Onward /\ AgentNamed' /\ \A t \in Transcripts : Traced(t)'
    BY <1>1, <2>1 DEF Onward, AgentNamed, Traced
  <2>3. run'[r].phase = "dirs" /\ SamePlan(r) => Behind(r)'
    BY <1>1, <1>5, <2>1 DEF Sound, Behind, SamePlan
  <2>4. /\ run' \in [Runs -> RunType] /\ Sound(r)' /\ \A q \in Runs \ {r} : Alike(q)
    BY <1>1, <2>1, <2>2, <2>3, GoesIsSound DEF Steps
  <2>5. RenameTypeOK'
    BY <1>1, <2>1, <2>4 DEF RenameTypeOK, RunType, Paths
  <2> QED
    BY <2>2, <2>4, <2>5, StepIsSound
<1>6. CASE run[r].mode = "move" /\ place # "old"
  <2>1. Fails(r) /\ UNCHANGED place
    BY <1>6 DEF MoveFolder
  <2> QED
    BY <1>1, <2>1, FailsKeeps DEF machine, RenameTypeOK
<1> QED
  BY <1>2, <1>3, <1>4, <1>5, <1>6

LEMMA DirectoriesDoneKeeps ==
    ASSUME RenameInv, NEW r \in Runs, DirectoriesDone(r)
    PROVE  RenameInv'
<1>1. /\ run[r].phase = "dirs" /\ run[r].dirs = {} /\ Active(r) /\ Sound(r)
      /\ UNCHANGED <<names, yaml, machine, left>> /\ Goes(r, "files")
  BY DEF DirectoriesDone, Active, Steps, RenameInv
<1>2. run'[r].phase = "files" /\ SamePlan(r) => Behind(r)'
  BY <1>1 DEF Sound, Behind, SamePlan, machine
<1> QED
  BY <1>1, <1>2, GoesKeeps DEF Steps

LEMMA FinishKeeps ==
    ASSUME RenameInv, NEW r \in Runs, Finish(r)
    PROVE  RenameInv'
<1>1. /\ run[r].phase = "files" /\ run[r].files = {} /\ run[r].reading = None
      /\ Active(r) /\ RenameTypeOK /\ Sound(r) /\ Ends(r)
      /\ UNCHANGED <<names, yaml, place, home, holds, session, left>>
      /\ AgentNamed /\ \A t \in Transcripts : Traced(t)
  BY DEF Finish, Active, Steps, RenameInv
<1>2. Onward /\ AgentNamed' /\ \A t \in Transcripts : Traced(t)'
  BY <1>1 DEF Onward, AgentNamed, Traced
<1>3. Renaming'
  BY <1>1, PatchedIsRenaming DEF Renaming, AgentKept
<1>4. ASSUME ~run[r].skipped, ~run[r].crossed
      PROVE  Relocated' /\ session' # "old"
  <2>1. place = "new" /\ run[r].mode # "stay" /\ run[r].dirs = {}
    BY <1>1 DEF Sound, Behind, Reachable
  <2>2. None \notin Files /\ None # "old"
    BY RenameParameters DEF Files
  <2>3. /\ session = None /\ \A t \in Transcripts : home[t] # "old"
        /\ \A x \in Files : "old" \notin holds[x]
    BY <1>1, <1>4, <2>1, <2>2 DEF Sound, Ahead
  <2> QED
    BY <1>1, <2>1, <2>2, <2>3 DEF Relocated
<1>5. /\ run' \in [Runs -> RunType] /\ Sound(r)' /\ \A q \in Runs \ {r} : Alike(q)
  BY <1>1, <1>3, <1>4, EndsIsSound
<1>6. root' \in Paths
  BY <1>1 DEF Finish, Paths, RenameTypeOK
<1>7. RenameTypeOK'
  BY <1>1, <1>5, <1>6 DEF RenameTypeOK, RunType
<1> QED
  BY <1>2, <1>5, <1>7, StepIsSound

LEMMA CrashKeeps ==
    ASSUME RenameInv, NEW r \in Runs, Crash(r)
    PROVE  RenameInv'
<1>1. left' \in [Things -> Nat]
  BY SpendTyped DEF Crash, Things, RenameInv
<1> QED
  BY <1>1, FailsKeeps DEF Crash

\* What is behind a run does not depend on what it has left to do.
LEMMA BehindStays ==
    ASSUME RenameInv, NEW r \in Runs, Onward,
           run'[r].phase = run[r].phase, run'[r].mode = run[r].mode,
           run'[r].name <=> run[r].name, run'[r].file <=> run[r].file,
           run'[r].agent <=> run[r].agent
    PROVE  Behind(r)'
<1>1. Behind(r) /\ (Active(r)' <=> Active(r))
  BY DEF RenameInv, Sound, Active
<1> QED
  BY <1>1 DEF Behind, Onward

LEMMA RenameDirectoryKeeps ==
    ASSUME RenameInv, NEW r \in Runs, NEW f \in Folders,
           RenameDirectory(r, f)
    PROVE  RenameInv'
<1>1. /\ run[r].phase = "dirs" /\ f \in run[r].dirs /\ Active(r) /\ RenameTypeOK /\ Sound(r)
      /\ UNCHANGED <<names, yaml, place, root, holds, session, left>>
      /\ AgentNamed /\ \A t \in Transcripts : Traced(t)
      /\ run \in [Runs -> RunType]
  BY DEF RenameDirectory, Active, Steps, RenameInv, RenameTypeOK, RunType
<1>2. CASE Directory(f, "old") # {} /\ Directory(f, "new") = {}
  <2>1. /\ home' = [t \in Transcripts |-> IF t \in Directory(f, "old") THEN "new" ELSE home[t]]
        /\ run' = [run EXCEPT ![r] = [run[r] EXCEPT !.dirs = @ \ {f}]]
    BY <1>1, <1>2 DEF RenameDirectory
  <2>2. \A t \in Transcripts :
            home'[t] = IF home[t] = "old" /\ FolderOf[t] = f THEN "new" ELSE home[t]
    BY <2>1 DEF Directory
  <2>3. Onward /\ AgentNamed' /\ \A t \in Transcripts : Traced(t)'
    BY <1>1, <2>2, RenameParameters DEF Onward, AgentNamed, Traced
  <2>4. [run[r] EXCEPT !.dirs = @ \ {f}] \in RunType
    BY <1>1 DEF RunType
  <2>5. /\ run' \in [Runs -> RunType] /\ \A q \in Runs \ {r} : run'[q] = run[q]
        /\ run'[r] = [run[r] EXCEPT !.dirs = @ \ {f}]
    BY <1>1, <2>1, <2>4
  <2>6. /\ run'[r].phase = "dirs" /\ run'[r].mode = run[r].mode
        /\ run'[r].files = run[r].files /\ run'[r].reading = run[r].reading
        /\ (run'[r].name <=> run[r].name) /\ (run'[r].file <=> run[r].file)
        /\ (run'[r].agent <=> run[r].agent) /\ (run'[r].skipped <=> run[r].skipped)
        /\ (run'[r].crossed <=> run[r].crossed) /\ run'[r].dirs = run[r].dirs \ {f}
    BY <1>1, <2>5 DEF RunType
  <2>7. Behind(r)'
    BY <1>1, <2>3, <2>6, BehindStays
  <2>8. Reachable(r)'
    <3>1. Reachable(r)
      BY <1>1 DEF Sound
    <3>2. ASSUME NEW x \in Transcripts \cap (run[r].files \cup {run[r].reading})
          PROVE  home'[x] # None /\ (home'[x] = "old" => FolderOf[x] \in run[r].dirs \ {f})
      BY <1>1, <2>2, <3>1, <3>2, RenameParameters DEF Reachable
    <3> QED
      BY <1>1, <2>6, <3>1, <3>2 DEF Reachable
  <2>9. Ahead(r)'
    BY <1>1, <2>2, <2>6 DEF Sound, Ahead
  <2>10. Said(r)'
    BY <2>6 DEF Said
  <2>11. home' \in [Transcripts -> Paths \cup {None}]
    BY <1>1, <2>1 DEF RenameTypeOK, Paths
  <2>12. RenameTypeOK'
    BY <1>1, <2>5, <2>11 DEF RenameTypeOK, RunType
  <2> QED
    BY <2>3, <2>5, <2>7, <2>8, <2>9, <2>10, <2>12, StepIsSound DEF Sound, Alike, SamePlan
<1>3. CASE Fails(r) /\ UNCHANGED home
  BY <1>1, <1>3, FailsKeeps DEF machine, RenameTypeOK
<1> QED
  BY <1>2, <1>3 DEF RenameDirectory

LEMMA ReadFileKeeps ==
    ASSUME RenameInv, NEW r \in Runs, NEW x \in Files, ReadFile(r, x)
    PROVE  RenameInv'
<1> DEFINE found == [run[r] EXCEPT !.reading = x, !.stale = FALSE, !.files = run[r].files \ {x}]
           passed == [run[r] EXCEPT !.skipped = TRUE, !.files = run[r].files \ {x}]
<1>1. /\ run[r].phase = "files" /\ run[r].reading = None /\ Active(r) /\ RenameTypeOK
      /\ Sound(r) /\ UNCHANGED <<names, yaml, machine, left>>
      /\ run \in [Runs -> RunType]
  BY DEF ReadFile, Active, Steps, RenameInv, RenameTypeOK, RunType
<1>2. run' = [run EXCEPT ![r] = IF "old" \in holds[x] THEN found ELSE passed]
  BY DEF ReadFile
<1>3. found \in RunType /\ passed \in RunType
  BY <1>1 DEF RunType
<1>4. /\ run' \in [Runs -> RunType] /\ \A q \in Runs \ {r} : run'[q] = run[q]
      /\ run'[r] = IF "old" \in holds[x] THEN found ELSE passed
  <2> HIDE DEF found, passed
  <2> QED
    BY <1>1, <1>2, <1>3
<1>5. /\ run'[r].phase = "files" /\ run'[r].mode = run[r].mode
      /\ run'[r].files = run[r].files \ {x} /\ run'[r].dirs = run[r].dirs
      /\ (run'[r].name <=> run[r].name) /\ (run'[r].file <=> run[r].file)
      /\ (run'[r].agent <=> run[r].agent) /\ (run'[r].crossed <=> run[r].crossed)
      /\ "old" \in holds[x] => run'[r].reading = x /\ (run'[r].skipped <=> run[r].skipped)
      /\ "old" \notin holds[x] => run'[r].reading = None /\ run'[r].skipped
  BY <1>1, <1>4 DEF RunType
<1> HIDE DEF found, passed
<1>6. /\ Onward /\ AgentNamed' /\ \A t \in Transcripts : Traced(t)'
      /\ home' = home /\ holds' = holds /\ session' = session
  BY <1>1, StillIsOnward DEF machine
<1>7. Behind(r)'
  BY <1>1, <1>5, <1>6, BehindStays
<1>8. Reachable(r)'
  <2>1. x \in run[r].files
    BY DEF ReadFile, Upcoming
  <2>2. run'[r].files \cup {run'[r].reading} \subseteq run[r].files \cup {run[r].reading}
    BY <1>1, <1>5, <2>1
  <2>3. run'[r].phase = "files" /\ run'[r].dirs = {}
    BY <1>1, <1>5 DEF Sound, Reachable
  <2>4. \A y \in Transcripts \cap (run'[r].files \cup {run'[r].reading}) :
            home[y] # None /\ (home[y] = "old" => FolderOf[y] \in run[r].dirs)
    BY <1>1, <2>2 DEF Sound, Reachable
  <2> QED
    BY <1>5, <1>6, <2>3, <2>4 DEF Reachable
<1>9. Ahead(r)'
  <2> SUFFICES ASSUME ~run[r].crossed, run[r].mode # "stay"
               PROVE  /\ session = None
                      /\ \A t \in Transcripts : home[t] = "old" => FolderOf[t] \in run[r].dirs
                      /\ ~run'[r].skipped =>
                            \A y \in Files : "old" \in holds[y] =>
                                y \in run'[r].files \cup {run'[r].reading}
    BY <1>5, <1>6 DEF Ahead
  <2>1. None \notin Files
    BY RenameParameters DEF Files
  <2>2. /\ session = None
        /\ \A t \in Transcripts : home[t] = "old" => FolderOf[t] \in run[r].dirs
        /\ ~run[r].skipped => \A y \in Files : "old" \in holds[y] => y \in run[r].files
    BY <1>1, <2>1 DEF Sound, Ahead
  <2>3. ~run'[r].skipped => ~run[r].skipped /\ run'[r].reading = x
    BY <1>5
  <2> QED
    BY <1>5, <2>2, <2>3
<1>10. Said(r)'
  BY <1>5 DEF Said
<1>11. RenameTypeOK'
  BY <1>1, <1>4 DEF RenameTypeOK, RunType, machine
<1> QED
  BY <1>4, <1>6, <1>7, <1>8, <1>9, <1>10, <1>11, StepIsSound DEF Sound, Alike, SamePlan

\* The file swapped is one whose directory is renamed: no transcript loses its trace.
LEMMA SwapFileKeeps ==
    ASSUME RenameInv, NEW r \in Runs, SwapFile(r)
    PROVE  RenameInv'
<1> DEFINE x == run[r].reading
           missed == [run[r] EXCEPT !.reading = None, !.stale = FALSE, !.skipped = TRUE]
           swapped == [run[r] EXCEPT !.reading = None, !.stale = FALSE]
<1>1. /\ RenameTypeOK /\ Sound(r) /\ run \in [Runs -> RunType]
      /\ AgentNamed /\ (\A t \in Transcripts : Traced(t)) /\ x # None /\ run[r].phase = "files"
      /\ UNCHANGED <<names, yaml, place, root, home, session, left>>
  BY DEF SwapFile, RenameInv, RenameTypeOK, RunType, Sound, Reachable
<1>2. x \in Files /\ Active(r) /\ run[r].dirs = {} /\ None \notin Files
  BY <1>1, RenameParameters DEF RunType, Active, Steps, Sound, Reachable, Files
<1>3. missed \in RunType /\ swapped \in RunType
  BY <1>1 DEF RunType
<1>4. CASE run[r].stale
  <2>1. run' = [run EXCEPT ![r] = missed] /\ UNCHANGED <<names, yaml, machine>>
    BY <1>4 DEF SwapFile, machine
  <2>2. /\ run' \in [Runs -> RunType] /\ run'[r] = missed
        /\ \A q \in Runs \ {r} : run'[q] = run[q]
    <3> HIDE DEF missed
    <3> QED
      BY <1>1, <1>3, <2>1
  <2>3. /\ run'[r].phase = "files" /\ run'[r].mode = run[r].mode
        /\ run'[r].files = run[r].files /\ run'[r].dirs = run[r].dirs
        /\ (run'[r].name <=> run[r].name) /\ (run'[r].file <=> run[r].file)
        /\ (run'[r].agent <=> run[r].agent) /\ (run'[r].crossed <=> run[r].crossed)
        /\ run'[r].reading = None /\ run'[r].skipped
    BY <1>1, <2>2 DEF RunType
  <2>4. /\ Onward /\ AgentNamed' /\ (\A t \in Transcripts : Traced(t)')
        /\ home' = home /\ session' = session
    BY <2>1, StillIsOnward DEF machine
  <2>5. Behind(r)'
    BY <1>1, <2>3, <2>4, BehindStays
  <2>6. Reachable(r)'
    <3>1. \A t \in Transcripts : t # None
      BY RenameParameters
    <3> QED
      BY <1>1, <1>2, <2>3, <2>4, <3>1 DEF Sound, Reachable
  <2>7. Ahead(r)'
    BY <1>1, <1>2, <2>3, <2>4 DEF Sound, Ahead
  <2>8. Said(r)'
    BY <2>3 DEF Said
  <2>9. RenameTypeOK'
    BY <1>1, <2>1, <2>2 DEF RenameTypeOK, RunType, machine
  <2> QED
    BY <2>2, <2>4, <2>5, <2>6, <2>7, <2>8, <2>9, StepIsSound DEF Sound, Alike, SamePlan
<1>5. CASE ~run[r].stale
  <2>1. /\ holds' = [holds EXCEPT ![x] = (@ \ {"old"}) \cup {"new"}]
        /\ run' = [Written({x}) EXCEPT ![r] = swapped]
    BY <1>5 DEF SwapFile
  <2>2. /\ run' \in [Runs -> RunType] /\ run'[r] = swapped
        /\ \A q \in Runs \ {r} : run'[q] = Written({x})[q]
    <3> HIDE DEF swapped, x
    <3> QED
      BY <1>1, <1>3, <2>1, WrittenTyped
  <2>3. /\ run'[r].phase = "files" /\ run'[r].mode = run[r].mode
        /\ run'[r].files = run[r].files /\ run'[r].dirs = run[r].dirs
        /\ (run'[r].name <=> run[r].name) /\ (run'[r].file <=> run[r].file)
        /\ (run'[r].agent <=> run[r].agent) /\ (run'[r].crossed <=> run[r].crossed)
        /\ run'[r].reading = None /\ (run'[r].skipped <=> run[r].skipped)
    BY <1>1, <2>2 DEF RunType
  <2>4. /\ holds' \in [Files -> SUBSET Paths] /\ "old" \notin holds'[x]
        /\ \A y \in Files \ {x} : holds'[y] = holds[y]
    BY <1>1, <1>2, <2>1 DEF RenameTypeOK, Paths
  <2>5. Onward /\ AgentNamed'
    BY <1>1, <2>4 DEF Onward, AgentNamed
  <2>6. x \in Transcripts => home[x] # None /\ home[x] # "old"
    BY <1>1, <1>2 DEF Sound, Reachable
  <2>7. ASSUME NEW t \in Transcripts PROVE Traced(t)'
    BY <1>1, <2>4, <2>6, <2>7 DEF Traced, Files
  <2>8. Behind(r)'
    BY <1>1, <2>3, <2>5, BehindStays
  <2>9. Reachable(r)'
    <3>1. \A t \in Transcripts : t # None
      BY RenameParameters
    <3> QED
      BY <1>1, <1>2, <2>3, <3>1 DEF Sound, Reachable
  <2>10. Ahead(r)'
    BY <1>1, <1>2, <2>3, <2>4 DEF Sound, Ahead
  <2>11. Said(r)'
    BY <2>3 DEF Said
  <2>12. RenameTypeOK'
    BY <1>1, <2>2, <2>4 DEF RenameTypeOK, RunType
  <2>13. \A q \in Runs \ {r} : Alike(q)
    BY <1>1, <2>2, WrittenIsAlike
  <2> QED
    BY <2>5, <2>7, <2>8, <2>9, <2>10, <2>11, <2>12, <2>13, StepIsSound DEF Sound
<1> QED
  BY <1>4, <1>5

-----------------------------------------------------------------------------
(* What happens around the runs.                                           *)

\* A step of the machine that may put something at the old path: a run under way
\* is crossed by it, and one that is over has left the old path for good.
LEMMA TouchedStaysSound ==
    ASSUME RenameInv, NEW r \in Runs, UNCHANGED <<names, yaml>>,
           place = "new" => place' = "new",
           \A t \in Transcripts : home[t] # None => home'[t] = home[t],
           run'[r].phase = run[r].phase, SamePlan(r),
           Active(r) /\ run[r].mode # "stay" => run'[r].crossed,
           ~Active(r) => (run'[r].crossed <=> run[r].crossed),
           Relocated /\ session # "old" => Relocated' /\ session' # "old"
    PROVE  Sound(r)'
<1>1. Sound(r) /\ AgentNamed /\ (Active(r)' <=> Active(r))
  BY DEF RenameInv, Active
<1>2. Behind(r)'
  BY <1>1 DEF Sound, Behind, SamePlan
<1>3. Reachable(r)'
  BY <1>1 DEF Sound, Reachable, SamePlan
<1>4. Ahead(r)'
  BY <1>1 DEF Ahead, SamePlan
<1>5. Said(r)'
  <2> SUFFICES ASSUME run[r].phase = "over", ~run[r].skipped, ~run[r].crossed
               PROVE  Renaming' /\ (run[r].mode = "stay" \/ (Relocated' /\ session' # "old"))
    BY DEF Said, SamePlan, Active, Steps
  <2>1. Renaming /\ (run[r].mode = "stay" \/ (Relocated /\ session # "old"))
    BY <1>1 DEF Sound, Said
  <2>2. Renaming'
    BY <1>1, <2>1 DEF Renaming, AgentKept, AgentNamed
  <2> QED
    BY <2>1, <2>2
<1> QED
  BY <1>2, <1>3, <1>4, <1>5 DEF Sound

LEMMA SessionStartsKeeps ==
    ASSUME RenameInv, NEW t \in Transcripts, NEW loop \in BOOLEAN,
           SessionStarts(t, loop)
    PROVE  RenameInv'
<1> DEFINE xs == {t, "history"} \cup (IF loop THEN {"plate"} ELSE {})
<1>1. /\ RenameTypeOK /\ run \in [Runs -> RunType] /\ AgentNamed
      /\ \A u \in Transcripts : Traced(u)
  BY DEF RenameInv, RenameTypeOK, RunType
<1>2. /\ Spend("session") /\ home[t] = None /\ session' = place
      /\ home' = [home EXCEPT ![t] = place] /\ root' = IF loop THEN place ELSE root
      /\ run' = Crossed(xs) /\ UNCHANGED <<names, yaml, place>>
      /\ holds' = [x \in Files |->
                      IF x = "plate" /\ loop THEN {place}
                      ELSE IF x \in xs THEN holds[x] \cup {place} ELSE holds[x]]
  BY DEF SessionStarts
<1>3. /\ run' \in [Runs -> RunType]
      /\ \A q \in Runs : /\ run'[q].phase = run[q].phase /\ SamePlan(q)
                         /\ run'[q].crossed <=> run[q].crossed \/ Active(q)
  <2> HIDE DEF xs
  <2> QED
    BY <1>1, <1>2, WrittenTyped, CrossedIsMarked
<1>4. left' \in [Things -> Nat]
  BY <1>1, <1>2, SpendTyped DEF Things
<1>5. \A x \in Files : /\ holds'[x] \in {holds[x], holds[x] \cup {place}, {place}}
                       /\ x \in Transcripts \ {t} => holds'[x] = holds[x]
                       /\ x = t => holds'[x] = holds[x] \cup {place}
  BY <1>2, RenameParameters
<1>6. /\ home'[t] = place /\ \A u \in Transcripts \ {t} : home'[u] = home[u]
      /\ home' \in [Transcripts -> Paths \cup {None}] /\ place \in Paths
  BY <1>1, <1>2 DEF RenameTypeOK
<1>7. holds' \in [Files -> SUBSET Paths]
  BY <1>1, <1>2, <1>5, <1>6 DEF RenameTypeOK
<1>8. RenameTypeOK'
  BY <1>1, <1>2, <1>3, <1>4, <1>6, <1>7 DEF RenameTypeOK, RunType
<1>9. ASSUME NEW u \in Transcripts PROVE Traced(u)'
  <2>1. u \in Files /\ place # None
    BY <1>6, RenameParameters DEF Files, Paths
  <2>2. CASE u = t
    BY <1>5, <1>6, <2>1, <2>2 DEF Traced
  <2>3. CASE u # t
    BY <1>1, <1>5, <1>6, <2>1, <2>3 DEF Traced
  <2> QED
    BY <2>2, <2>3
<1>10. Relocated /\ session # "old" => Relocated' /\ session' # "old"
  BY <1>2, <1>5, <1>6 DEF Relocated
<1>11. \A u \in Transcripts : home[u] # None => home'[u] = home[u]
  BY <1>2, <1>6
<1>12. \A q \in Runs : Sound(q)'
  BY <1>2, <1>3, <1>10, <1>11, TouchedStaysSound
<1>13. AgentNamed'
  BY <1>1, <1>2 DEF AgentNamed
<1> QED
  BY <1>8, <1>9, <1>12, <1>13 DEF RenameInv

\* A session writes the path it was started at only under a run it has crossed.
LEMMA SessionWritesKeeps ==
    ASSUME RenameInv, SessionWrites
    PROVE  RenameInv'
<1>1. /\ RenameTypeOK /\ run \in [Runs -> RunType] /\ AgentNamed
      /\ \A t \in Transcripts : Traced(t)
  BY DEF RenameInv, RenameTypeOK, RunType
<1>2. /\ session # None /\ holds' = [holds EXCEPT !["history"] = @ \cup {session}]
      /\ run' = Written({"history"})
      /\ UNCHANGED <<names, yaml, place, root, home, session, left>>
  BY DEF SessionWrites
<1>3. run' \in [Runs -> RunType] /\ \A q \in Runs : Alike(q)
  BY <1>1, <1>2, WrittenTyped, WrittenIsAlike
<1>4. /\ holds' \in [Files -> SUBSET Paths] /\ "history" \in Files
      /\ holds'["history"] = holds["history"] \cup {session}
      /\ \A x \in Files \ {"history"} : holds'[x] = holds[x]
  BY <1>1, <1>2 DEF RenameTypeOK, Files
<1>5. RenameTypeOK'
  BY <1>1, <1>2, <1>3, <1>4 DEF RenameTypeOK, RunType
<1>6. ASSUME NEW t \in Transcripts PROVE Traced(t)'
  BY <1>1, <1>2, <1>4, <1>6, RenameParameters DEF Traced, Files
<1>7. Relocated /\ session # "old" => Relocated' /\ session' # "old"
  BY <1>2, <1>4 DEF Relocated
<1>8. ASSUME NEW q \in Runs PROVE Sound(q)'
  <2>1. Active(q) /\ run[q].mode # "stay" => run[q].crossed
    BY <1>2 DEF RenameInv, Sound, Ahead
  <2> QED
    BY <1>2, <1>3, <1>7, <2>1, TouchedStaysSound DEF Alike
<1>9. AgentNamed'
  BY <1>1, <1>2 DEF AgentNamed
<1> QED
  BY <1>5, <1>6, <1>8, <1>9 DEF RenameInv

LEMMA OtherStepsKeep ==
    ASSUME RenameInv,
           SessionEnds \/ ElsewhereWrites \/ MovedByHand
    PROVE  RenameInv'
<1>1. /\ RenameTypeOK /\ run \in [Runs -> RunType] /\ AgentNamed
      /\ \A t \in Transcripts : Traced(t)
  BY DEF RenameInv, RenameTypeOK, RunType
<1>2. CASE SessionEnds
  <2>1. /\ session' = None
        /\ UNCHANGED <<names, yaml, place, root, home, holds, run, left>>
    BY <1>2 DEF SessionEnds
  <2>2. Onward /\ AgentNamed' /\ (\A t \in Transcripts : Traced(t)') /\ \A q \in Runs : Alike(q)
    BY <1>1, <2>1 DEF Onward, AgentNamed, Traced, Alike, SamePlan
  <2>3. RenameTypeOK'
    BY <1>1, <2>1 DEF RenameTypeOK
  <2> QED
    BY <2>2, <2>3, AlikeStaysSound DEF RenameInv
<1>3. CASE ElsewhereWrites
  <2>1. /\ Spend("elsewhere") /\ run' = Written({"history"})
        /\ UNCHANGED <<names, yaml, machine>>
    BY <1>3 DEF ElsewhereWrites
  <2>2. left' \in [Things -> Nat]
    BY <1>1, <2>1, SpendTyped DEF Things
  <2>3. run' \in [Runs -> RunType] /\ \A q \in Runs : Alike(q)
    BY <1>1, <2>1, WrittenTyped, WrittenIsAlike
  <2>4. RenameTypeOK'
    BY <1>1, <2>1, <2>2, <2>3 DEF RenameTypeOK, RunType, machine
  <2> QED
    BY <2>1, <2>3, <2>4, StillIsOnward, AlikeStaysSound DEF RenameInv
<1>4. CASE MovedByHand
  <2>1. /\ Spend("handmove") /\ place' = "new" /\ run' = Crossed({})
        /\ place = "old" /\ UNCHANGED <<names, yaml, root, home, holds, session>>
    BY <1>4 DEF MovedByHand
  <2>2. left' \in [Things -> Nat]
    BY <1>1, <2>1, SpendTyped DEF Things
  <2>3. /\ run' \in [Runs -> RunType]
        /\ \A q \in Runs : /\ run'[q].phase = run[q].phase /\ SamePlan(q)
                           /\ run'[q].crossed <=> run[q].crossed \/ Active(q)
    BY <1>1, <2>1, WrittenTyped, CrossedIsMarked
  <2>4. RenameTypeOK'
    BY <1>1, <2>1, <2>2, <2>3 DEF RenameTypeOK, RunType, Paths
  <2>5. ~Relocated
    BY <2>1 DEF Relocated
  <2>6. \A q \in Runs : Sound(q)'
    BY <2>1, <2>3, <2>5, TouchedStaysSound
  <2>7. AgentNamed' /\ \A t \in Transcripts : Traced(t)'
    BY <1>1, <2>1 DEF AgentNamed, Traced
  <2> QED
    BY <2>4, <2>6, <2>7 DEF RenameInv
<1> QED
  BY <1>2, <1>3, <1>4

-----------------------------------------------------------------------------
LEMMA RenameInitially ==
    ASSUME RenameInit
    PROVE  RenameInv
<1>1. \A r \in Runs : run[r] = NoRun
  BY DEF RenameInit
<1>2. RenameTypeOK
  <2>1. run \in [Runs -> RunType]
    BY NoRunTyped DEF RenameInit
  <2>2. /\ yaml \in [project : Paths \cup {None}, agent : BOOLEAN]
        /\ home \in [Transcripts -> Paths \cup {None}]
        /\ holds \in [Files -> SUBSET Paths] /\ left \in [Things -> Nat]
    BY RenameParameters DEF RenameInit, Paths
  <2> QED
    BY <2>1, <2>2 DEF RenameInit, RenameTypeOK, RunType, Paths
<1>3. AgentNamed
  BY RenameParameters DEF RenameInit, AgentNamed
<1>4. ASSUME NEW t \in Transcripts PROVE Traced(t)
  <2>1. /\ home[t] = IF t \in Begun THEN "old" ELSE None
        /\ holds[t] = IF t \in Begun THEN {"old"} ELSE {}
    BY RenameParameters DEF RenameInit, Files
  <2> QED
    BY <2>1, RenameParameters DEF Traced
<1>5. ASSUME NEW r \in Runs PROVE Sound(r)
  <2>1. run[r].phase = "idle" /\ run[r].reading = None
    BY <1>1 DEF NoRun
  <2> QED
    BY <2>1 DEF Sound, Behind, Reachable, Ahead, Said, Active, Steps
<1> QED
  BY <1>2, <1>3, <1>4, <1>5 DEF RenameInv

LEMMA RenameStepKeeps ==
    ASSUME RenameInv, NEW r \in Runs, Step(r)
    PROVE  RenameInv'
<1>1. CASE RenameProject(r)
  BY <1>1, RenameProjectKeeps
<1>2. CASE PatchFile(r)
  BY <1>2, PatchFileKeeps
<1>3. CASE MoveFolder(r)
  BY <1>3, MoveFolderKeeps
<1>4. ASSUME NEW f \in Folders, RenameDirectory(r, f) PROVE RenameInv'
  BY <1>4, RenameDirectoryKeeps
<1>5. CASE DirectoriesDone(r)
  BY <1>5, DirectoriesDoneKeeps
<1>6. ASSUME NEW x \in Files, ReadFile(r, x) PROVE RenameInv'
  BY <1>6, ReadFileKeeps
<1>7. CASE SwapFile(r)
  BY <1>7, SwapFileKeeps
<1>8. CASE Finish(r)
  BY <1>8, FinishKeeps
<1> QED
  BY <1>1, <1>2, <1>3, <1>4, <1>5, <1>6, <1>7, <1>8 DEF Step

LEMMA RenameNextKeeps ==
    ASSUME RenameInv, [RenameNext]_renameVars
    PROVE  RenameInv'
<1>1. CASE UNCHANGED renameVars
  <2>1. UNCHANGED <<names, yaml, machine, run, left>>
    BY <1>1 DEF renameVars
  <2>2. \A q \in Runs : Alike(q)
    BY <2>1 DEF Alike, SamePlan
  <2>3. RenameTypeOK'
    BY <2>1 DEF RenameInv, RenameTypeOK, machine
  <2> QED
    BY <2>1, <2>2, <2>3, StillIsOnward, AlikeStaysSound DEF RenameInv
<1>2. ASSUME NEW r \in Runs, Command(r) PROVE RenameInv'
  <2>1. left' \in [Things -> Nat]
    BY <1>2, SpendTyped DEF Command, Things, RenameInv
  <2>2. PICK way \in Ways, stay \in BOOLEAN : Plan(r, way, stay)
    BY <1>2 DEF Command
  <2> QED
    BY <1>2, <2>1, <2>2, PlanKeeps
<1>3. ASSUME NEW r \in Runs, Again(r) PROVE RenameInv'
  <2>1. Plan(r, AgainWay, FALSE) /\ left' = left
    BY <1>3 DEF Again
  <2> QED
    BY <1>3, <2>1, PlanKeeps DEF RenameInv, RenameTypeOK
<1>4. ASSUME NEW r \in Runs, Step(r) PROVE RenameInv'
  BY <1>4, RenameStepKeeps
<1>5. ASSUME NEW r \in Runs, Crash(r) PROVE RenameInv'
  BY <1>5, CrashKeeps
<1>6. ASSUME NEW t \in Transcripts, NEW loop \in BOOLEAN, SessionStarts(t, loop)
      PROVE  RenameInv'
  BY <1>6, SessionStartsKeeps
<1>7. CASE SessionWrites
  BY <1>7, SessionWritesKeeps
<1>8. CASE SessionEnds \/ ElsewhereWrites \/ MovedByHand
  BY <1>8, OtherStepsKeep
<1> QED
  BY <1>1, <1>2, <1>3, <1>4, <1>5, <1>6, <1>7, <1>8 DEF RenameNext

(* The invariant the theorems below are read from: what a run has passed   *)
(* is done, and what it has not is in the rest of its plan.                *)
THEOREM RenameInvariant ==
    RenameSpec => []RenameInv
<1>1. RenameInit => RenameInv
  BY RenameInitially
<1>2. RenameInv /\ [RenameNext]_renameVars => RenameInv'
  BY RenameNextKeeps
<1>3. RenameSpec => Safety
  BY PTL DEF RenameSpec
<1> QED
  BY <1>1, <1>2, <1>3, PTL DEF Safety

(* Every variable keeps its type, and a run's record its shape: the plan   *)
(* never names a folder or a file the project does not have (planRelocate, *)
(* applyRelocate).                                                         *)
THEOREM RenameTyped ==
    RenameSpec => []RenameTypeOK
<1>1. RenameInv => RenameTypeOK
  BY DEF RenameInv
<1> QED
  BY <1>1, RenameInvariant, PTL

(* A run that says it has done everything has, whatever earlier runs left  *)
(* half done and whatever another run does at the same time, unless a      *)
(* session started or the folder was moved under it (applyRenameAll,       *)
(* applyRelocate).                                                         *)
THEOREM RenameFinishedIsWhole ==
    RenameSpec => []FinishedIsWhole
<1>1. RenameInv => FinishedIsWhole
  BY DEF RenameInv, Sound, Said, FinishedIsWhole
<1> QED
  BY <1>1, RenameInvariant, PTL

(* Wherever runs stopped, crossed each other or were crossed, the plan of  *)
(* the next one misses nothing: it finds every directory that waits at the *)
(* old path, for its transcripts still say so, and every file that records *)
(* it, also in a directory that was renamed before (planRelocate).         *)
THEOREM RenamePlanMissesNothing ==
    RenameSpec => []NothingMissed
<1>1. RenameInv => NothingMissed
  BY PlanIsComplete
<1> QED
  BY <1>1, RenameInvariant, PTL
=============================================================================
