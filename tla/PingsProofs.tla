----------------------------- MODULE PingsProofs -----------------------------
(***************************************************************************)
(* Who learns of what, for any people, agents, owners, threads and mutes:  *)
(* nothing in moderation reaches an agent, one gesture wakes it once, an   *)
(* accepted resolution tells each follower once, and what is not read yet  *)
(* outlives a close and a reply.  The argument follows what a post, a      *)
(* verdict and a close do to the pings of the messages already there.      *)
(***************************************************************************)
EXTENDS Pings, FiniteSetTheorems, WellFoundedInduction, TLAPS

Statuses == {"pending", "approved", "rejected"}
Subs == {"none", "follows", "muted"}

-----------------------------------------------------------------------------
(* Messages and threads.                                                   *)

LEMMA RestatedIs ==
    ASSUME NEW m \in Messages, NEW s \in Statuses
    PROVE  /\ [m EXCEPT !.status = s] \in Messages
           /\ [m EXCEPT !.status = s].status = s
           /\ [m EXCEPT !.status = s].by = m.by /\ [m EXCEPT !.status = s].kind = m.kind
           /\ [m EXCEPT !.status = s].scope = m.scope /\ [m EXCEPT !.status = s].names = m.names
           /\ [m EXCEPT !.status = s].about = m.about /\ [m EXCEPT !.status = s].asks = m.asks
<1>1. [m EXCEPT !.status = s] =
        [kind |-> m.kind, by |-> m.by, scope |-> m.scope, names |-> m.names, keeps |-> m.keeps,
         asks |-> m.asks, about |-> m.about, status |-> s]
  BY DEF Messages
<1> QED
  BY <1>1 DEF Messages, Statuses

LEMMA DecidedIs ==
    ASSUME NEW m \in Messages
    PROVE  /\ [m EXCEPT !.asks = "decided"] \in Messages
           /\ [m EXCEPT !.asks = "decided"].status = m.status
           /\ [m EXCEPT !.asks = "decided"].by = m.by
           /\ [m EXCEPT !.asks = "decided"].kind = m.kind
           /\ [m EXCEPT !.asks = "decided"].scope = m.scope
           /\ [m EXCEPT !.asks = "decided"].names = m.names
           /\ [m EXCEPT !.asks = "decided"].about = m.about
<1>1. [m EXCEPT !.asks = "decided"] =
        [kind |-> m.kind, by |-> m.by, scope |-> m.scope, names |-> m.names, keeps |-> m.keeps,
         asks |-> "decided", about |-> m.about, status |-> m.status]
  BY DEF Messages
<1> QED
  BY <1>1 DEF Messages

\* The messages of t, and of u after them, are the same ones, whatever their status.
Same(t, u, n) == \A j \in 1..n : u[j].by = t[j].by /\ u[j].kind = t[j].kind

LEMMA ThreadIs ==
    ASSUME NEW t \in Seq(Messages)
    PROVE  /\ Len(t) \in Nat /\ DOMAIN t = 1..Len(t)
           /\ \A j \in 1..Len(t) : /\ t[j] \in Messages /\ t[j].by \in Consumers
                                   /\ t[j].status \in Statuses /\ t[j].names \subseteq Consumers
<1>1. Len(t) \in Nat /\ DOMAIN t = 1..Len(t) /\ \A j \in 1..Len(t) : t[j] \in Messages
  OBVIOUS
<1>2. \A m \in Messages : m.by \in Consumers /\ m.status \in Statuses /\ m.names \subseteq Consumers
  BY DEF Messages, Statuses
<1> QED
  BY <1>1, <1>2

LEMMA ApprovedIs ==
    ASSUME NEW t \in Seq(Messages), NEW i \in 1..Len(t)
    PROVE  /\ Approved(t, i) \in Seq(Messages) /\ Len(Approved(t, i)) = Len(t)
           /\ Same(t, Approved(t, i), Len(t))
           /\ Approved(t, i)[i].status = "approved"
           /\ \A j \in 1..Len(t) : j # i => Approved(t, i)[j] = t[j]
<1> DEFINE m == [t[i] EXCEPT !.status = "approved"]
<1>1. t[i] \in Messages
  BY ThreadIs
<1>2. m \in Messages /\ m.by = t[i].by /\ m.kind = t[i].kind /\ m.status = "approved"
  BY <1>1, RestatedIs DEF Statuses
<1>3. Approved(t, i) = [t EXCEPT ![i] = m]
  BY DEF Approved
<1> HIDE DEF m
<1>4. /\ Approved(t, i) \in Seq(Messages) /\ Len(Approved(t, i)) = Len(t)
      /\ \A j \in 1..Len(t) : Approved(t, i)[j] = IF j = i THEN m ELSE t[j]
  BY <1>2, <1>3
<1> QED
  BY <1>2, <1>4 DEF Same

LEMMA AppendedIs ==
    ASSUME NEW t \in Seq(Messages), NEW m \in Messages, NEW i, i = Len(t) + 1
    PROVE  /\ Append(t, m) \in Seq(Messages) /\ Len(Append(t, m)) = i /\ i \in Nat
           /\ Append(t, m)[i] = m
           /\ \A j \in 1..Len(t) : Append(t, m)[j] = t[j] /\ j # i
  OBVIOUS

\* What the close at position c makes of the thread.
LEMMA SettledIs ==
    ASSUME NEW t \in Seq(Messages), NEW c \in Nat
    PROVE  /\ SettledByClose(t, c) \in Seq(Messages) /\ Len(SettledByClose(t, c)) = Len(t)
           /\ Same(t, SettledByClose(t, c), Len(t))
           /\ \A j \in 1..Len(t) : SettledByClose(t, c)[j].status =
                IF j \in StaleAtClose(t, c) THEN "rejected" ELSE t[j].status
           /\ \A j \in 1..Len(t) :
                /\ SettledByClose(t, c)[j].scope = t[j].scope
                /\ SettledByClose(t, c)[j].names = t[j].names
                /\ SettledByClose(t, c)[j].about = t[j].about
<1> DEFINE m(j) == IF j \in StaleAtClose(t, c) THEN [t[j] EXCEPT !.status = "rejected"]
                   ELSE IF t[j].asks = "resolution" /\ t[j].status # "rejected"
                        THEN [t[j] EXCEPT !.asks = "decided"] ELSE t[j]
           u == SettledByClose(t, c)
<1>1. Len(t) \in Nat /\ DOMAIN t = 1..Len(t) /\ \A j \in 1..Len(t) : t[j] \in Messages
  BY ThreadIs
<1>2. \A j \in 1..Len(t) : /\ m(j) \in Messages
                           /\ m(j).by = t[j].by /\ m(j).kind = t[j].kind
                           /\ m(j).scope = t[j].scope /\ m(j).names = t[j].names
                           /\ m(j).about = t[j].about
                           /\ m(j).status = IF j \in StaleAtClose(t, c) THEN "rejected" ELSE t[j].status
  <2> SUFFICES ASSUME NEW j \in 1..Len(t)
               PROVE  /\ m(j) \in Messages
                      /\ m(j).by = t[j].by /\ m(j).kind = t[j].kind
                      /\ m(j).scope = t[j].scope /\ m(j).names = t[j].names
                      /\ m(j).about = t[j].about
                      /\ m(j).status = IF j \in StaleAtClose(t, c) THEN "rejected" ELSE t[j].status
    OBVIOUS
  <2>1. t[j] \in Messages /\ "rejected" \in Statuses
    BY <1>1 DEF Statuses
  <2>2. CASE j \in StaleAtClose(t, c)
    BY <2>1, <2>2, RestatedIs
  <2>3. CASE j \notin StaleAtClose(t, c) /\ t[j].asks = "resolution" /\ t[j].status # "rejected"
    BY <2>1, <2>3, DecidedIs
  <2>4. CASE j \notin StaleAtClose(t, c) /\ ~(t[j].asks = "resolution" /\ t[j].status # "rejected")
    BY <2>1, <2>4
  <2> QED
    BY <2>2, <2>3, <2>4
<1>3. u = [j \in 1..Len(t) |-> m(j)]
  BY <1>1 DEF SettledByClose
<1> HIDE DEF m, u
<1>4. u \in [1..Len(t) -> Messages] /\ \A j \in 1..Len(t) : u[j] = m(j)
  BY <1>2, <1>3
<1>5. u \in Seq(Messages) /\ Len(u) = Len(t)
  BY <1>1, <1>4
<1> QED
  BY <1>2, <1>4, <1>5 DEF Same, u

-----------------------------------------------------------------------------
(* Recipients.                                                             *)

LEMMA RecipientsAre ==
    ASSUME NEW t \in Seq(Messages), NEW i \in 1..Len(t), NEW subs, NEW except
    PROVE  /\ FanOut(t, i, subs, except) \subseteq Consumers \ {t[i].by}
           /\ t[i].status = "pending" => FanOut(t, i, subs, except) \subseteq Humans
           /\ FanOutMentions(t, i) \subseteq Consumers \ {t[i].by}
           /\ AtApproval(t, i, subs) \subseteq Consumers \ {t[i].by}
<1>1. t[i] \in Messages /\ t[i].names \subseteq Consumers
  BY ThreadIs
<1>2. Interested(t, i, subs) \subseteq Consumers
  BY PingsParameters DEF Interested
<1>3. \A ex : FanOut(t, i, subs, ex) \subseteq Consumers \ {t[i].by}
  BY <1>2 DEF FanOut, Consumers
<1>4. t[i].status = "pending" => FanOut(t, i, subs, except) \subseteq Humans
  BY DEF FanOut, Interested
<1>5. FanOutMentions(t, i) \subseteq Consumers \ {t[i].by}
  BY <1>1 DEF FanOutMentions
<1> QED
  BY <1>3, <1>4, <1>5 DEF AtApproval

LEMMA PingIs ==
    ASSUME NEW who, NEW i
    PROVE  /\ \A p \in Ping(who, i) : p = <<p[1], i>> /\ p[1] \in who /\ p[2] = i /\ p \notin seen
           /\ \A c \in who : <<c, i>> \in Ping(who, i) \cup seen
  BY DEF Ping

\* The last message of c before n, if any, depends on the authors alone.
LEMMA LastIs ==
    ASSUME NEW t, NEW u, NEW c, NEW n \in Nat, Same(t, u, n)
    PROVE  LastAuthored(u, c, n + 1) = LastAuthored(t, c, n + 1)
<1>1. \A i \in 2..n + 1 - 1 : u[i].by = t[i].by
  BY DEF Same
<1>2. {i \in 2..n + 1 - 1 : u[i].by = c} = {i \in 2..n + 1 - 1 : t[i].by = c}
  BY <1>1
<1> DEFINE a == {i \in 2..n + 1 - 1 : u[i].by = c}
           b == {i \in 2..n + 1 - 1 : t[i].by = c}
<1>3. LastAuthored(u, c, n + 1) = Max({0} \cup a) /\ LastAuthored(t, c, n + 1) = Max({0} \cup b)
  BY DEF LastAuthored
<1>4. a = b
  BY <1>2
<1> HIDE DEF a, b
<1> QED
  BY <1>3, <1>4

LEMMA LeastOf ==
    ASSUME NEW s \in SUBSET Nat, s # {} PROVE \E x \in s : \A y \in s : x <= y
<1> DEFINE below == OpToRel(<, Nat)
<1>1. \E x \in s : \A y \in s : ~(<<y, x>> \in below)
  BY NatLessThanWellFounded, WFMin
<1>2. ASSUME NEW x \in Nat, NEW y \in Nat, y < x PROVE <<y, x>> \in below
  <2>1. <<y, x>> \in Nat \X Nat
    OBVIOUS
  <2>2. <<y, x>>[1] < <<y, x>>[2]
    BY <1>2
  <2> QED
    BY <2>1, <2>2 DEF OpToRel
<1> HIDE DEF below
<1>3. PICK x \in s : \A y \in s : ~(<<y, x>> \in below)
  BY <1>1
<1>4. ASSUME NEW y \in s PROVE x <= y
  <2>1. x \in Nat /\ y \in Nat /\ ~(y < x)
    BY <1>2, <1>3
  <2> QED
    BY <2>1
<1> QED
  BY <1>4

LEMMA LastIsNat ==
    ASSUME NEW t, NEW c, NEW n \in Nat
    PROVE  LastAuthored(t, c, n + 1) \in Nat
<1> DEFINE s == {0} \cup {i \in 2..n + 1 - 1 : t[i].by = c}
           above == {k \in Nat : \A e \in s : e <= k}
<1>1. s \in SUBSET Nat /\ n \in above
  OBVIOUS
<1>2. PICK m \in above : \A k \in above : m <= k
  BY <1>1, LeastOf
<1>3. m \in s
  <2> SUFFICES ASSUME m \notin s PROVE FALSE
    OBVIOUS
  <2>1. m \in Nat /\ \A e \in s : e <= m /\ e \in Nat
    BY <1>1, <1>2
  <2>2. m > 0 /\ m - 1 \in Nat
    BY <2>1
  <2> HIDE DEF s
  <2>3. \A e \in s : e <= m - 1
    <3>1. ASSUME NEW e \in s PROVE e <= m - 1
      <4>1. e \in Nat /\ e <= m /\ e # m /\ m \in Nat
        BY <2>1
      <4> QED
        BY <4>1
    <3> QED
      BY <3>1
  <2>4. m - 1 \in above
    BY <2>2, <2>3
  <2>5. m <= m - 1
    BY <1>2, <2>4
  <2> QED
    BY <2>1, <2>5
<1>4. \E x \in s : \A y \in s : x >= y
  <2>1. \A y \in s : m >= y
    BY <1>1, <1>2
  <2> QED
    BY <1>3, <2>1
<1>5. LastAuthored(t, c, n + 1) = Max(s)
  BY DEF LastAuthored
<1> HIDE DEF s
<1>6. Max(s) \in s
  BY <1>4 DEF Max
<1> QED
  BY <1>1, <1>5, <1>6

-----------------------------------------------------------------------------
(* What every step does to the messages and pings that are there.          *)

\* A message in moderation, or refused, is for the few it may reach.
Quiet(p) ==
    /\ thread[p[2]].status = "pending" => p[1] \in Humans \cup {thread[p[2]].by}
    /\ thread[p[2]].status = "rejected" => p[1] = thread[p[2]].by

AllPings == unseen \cup seen

\* Messages keep their author and, but for what a step refuses or approves, their status;
\* a new ping is quiet, and none that an agent has not read is lost but with its message.
Grown ==
    /\ thread' \in Seq(Messages) /\ Len(thread') >= Len(thread)
    /\ Same(thread, thread', Len(thread))
    /\ \A j \in 1..Len(thread) :
        \/ thread'[j].status = thread[j].status
        \/ thread'[j].status = "approved"
        \/ /\ thread'[j].status = "rejected"
           /\ \A p \in AllPings' : p[2] = j => p[1] = thread'[j].by
    /\ \A p \in AllPings' : p \in AllPings \/ (p \in Consumers \X (1..Len(thread')) /\ Quiet(p)')
    /\ unseen' \cap seen' = {}
    /\ \A p \in unseen : p[1] \in Agents => p \in AllPings' \/ thread'[p[2]].status = "rejected"

Inv == TypeOK /\ QuietUntilApproved

LEMMA PingsAre ==
    ASSUME TypeOK
    PROVE  /\ Len(thread) \in Nat /\ DOMAIN thread = 1..Len(thread)
           /\ \A p \in AllPings : p \in Consumers \X (1..Len(thread)) /\ p[1] \in Consumers
                               /\ p[2] \in 1..Len(thread) /\ p = <<p[1], p[2]>>
<1>1. thread \in Seq(Messages) /\ AllPings \subseteq Consumers \X (DOMAIN thread)
  BY DEF TypeOK, AllPings
<1>2. Len(thread) \in Nat /\ DOMAIN thread = 1..Len(thread)
  BY <1>1, ThreadIs
<1> QED
  BY <1>1, <1>2

LEMMA GrownKeeps ==
    ASSUME Inv, Grown,
           sub' \in [Consumers -> Subs], assignee' \in Consumers \cup {Nobody},
           claimant' \in Consumers \cup {Nobody}, focusAway' \in BOOLEAN, gestures' \in Nat
    PROVE  Inv'
<1>1. TypeOK
  BY DEF Inv
<1>2. Len(thread) \in Nat /\ DOMAIN thread = 1..Len(thread) /\ DOMAIN thread' = 1..Len(thread')
      /\ Len(thread') \in Nat /\ Len(thread') >= Len(thread)
  BY <1>1, PingsAre DEF Grown
<1>3. ASSUME NEW p \in AllPings' PROVE p \in Consumers \X (1..Len(thread')) /\ Quiet(p)'
  <2>1. CASE p \in AllPings
    <3>1. p \in Consumers \X (1..Len(thread)) /\ p[1] \in Consumers /\ p[2] \in 1..Len(thread)
          /\ p = <<p[1], p[2]>>
      BY <1>1, <2>1, PingsAre
    <3>2. p[2] \in 1..Len(thread')
      BY <1>2, <3>1
    <3>3. Quiet(p)
      BY <2>1 DEF Inv, QuietUntilApproved, Quiet, AllPings
    <3>4. thread'[p[2]].by = thread[p[2]].by
      BY <3>1 DEF Grown, Same
    <3>5. Quiet(p)'
      BY <3>1, <3>3, <3>4 DEF Grown, Quiet
    <3> QED
      BY <3>1, <3>2, <3>5
  <2>2. CASE p \notin AllPings
    BY <2>2 DEF Grown
  <2> QED
    BY <2>1, <2>2
<1>4. QuietUntilApproved'
  BY <1>3 DEF QuietUntilApproved, Quiet, AllPings
<1>5. TypeOK'
  BY <1>2, <1>3 DEF TypeOK, AllPings, Grown, Subs
<1> QED
  BY <1>4, <1>5 DEF Inv

-----------------------------------------------------------------------------
(* What every step keeps: besides Grown, the three properties of the step. *)

Others ==
    /\ sub' \in [Consumers -> Subs] /\ assignee' \in Consumers \cup {Nobody}
    /\ claimant' \in Consumers \cup {Nobody} /\ focusAway' \in BOOLEAN /\ gestures' \in Nat

\* All the pings a step gives a consumer are on one message, but on messages of its own.
OneEach == \A a \in Consumers : \E x : \A i \in 1..Len(thread') :
    <<a, i>> \in AllPings' /\ <<a, i>> \notin AllPings => i = x \/ thread'[i].by = a

\* What a post marks read for its author is not younger than its message before.
Younger(p) ==
    /\ LastAuthored(thread, p[1], Len(thread) + 1) > 0
    /\ p[2] > LastAuthored(thread, p[1], Len(thread) + 1)

Replied ==
    Len(thread') = Len(thread) + 1 =>
        \A p \in unseen : p[1] = thread'[Len(thread')].by /\ Younger(p) => p \notin seen'

\* Of the two messages of an acceptance, each agent that follows hears one.
Tells ==
    Len(thread') = Len(thread) + 2 =>
        \A a \in Agents \ OffLevel : sub[a] = "follows" =>
            \E x \in {Len(thread') - 1, Len(thread')} :
                /\ <<a, x>> \in unseen' /\ <<a, x>> \notin AllPings
                /\ \A i \in {Len(thread') - 1, Len(thread')} : i # x => <<a, i>> \notin unseen'

Stepped == Grown /\ Others /\ OneEach /\ Replied /\ Tells

\* The steps that leave the messages alone, and ping the author of one at most.
LEMMA ThreadAlone ==
    ASSUME Inv, thread' = thread, NEW i \in 1..Len(thread), AllPings \subseteq AllPings',
           \A p \in AllPings' : p \in AllPings \/ p = <<thread[i].by, i>>,
           unseen' \cap seen' = {}, Others
    PROVE  Stepped
<1>1. TypeOK /\ thread \in Seq(Messages)
  BY DEF Inv, TypeOK
<1>2. Len(thread) \in Nat /\ thread[i].by \in Consumers
  BY <1>1, ThreadIs
<1>3. Len(thread') = Len(thread) /\ Same(thread, thread', Len(thread))
  BY DEF Same
<1>4. \A p \in AllPings' : p \in AllPings \/ (p \in Consumers \X (1..Len(thread')) /\ Quiet(p)')
  <2>1. <<thread[i].by, i>> \in Consumers \X (1..Len(thread))
    BY <1>2
  <2>2. <<thread'[i].by, i>>[1] = thread'[i].by /\ <<thread'[i].by, i>>[2] = i
    OBVIOUS
  <2>3. \A p : p = <<thread'[i].by, i>> => Quiet(p)'
    BY <2>2 DEF Quiet
  <2> QED
    BY <2>1, <2>3
<1>5. Grown
  <2>1. unseen \subseteq AllPings
    BY DEF AllPings
  <2> QED
    BY <1>1, <1>2, <1>3, <1>4, <2>1 DEF Grown
<1>6. OneEach
  <2>1. ASSUME NEW a \in Consumers, NEW k \in 1..Len(thread'), <<a, k>> \in AllPings', <<a, k>> \notin AllPings
        PROVE  k = i
    BY <2>1
  <2> QED
    BY <2>1 DEF OneEach
<1> QED
  BY <1>2, <1>3, <1>5, <1>6 DEF Stepped, Replied, Tells

LEMMA NothingMoved ==
    ASSUME Inv, thread' = thread, AllPings = AllPings', unseen' \cap seen' = {}, Others
    PROVE  Stepped
<1>1. TypeOK /\ thread \in Seq(Messages)
  BY DEF Inv, TypeOK
<1>2. CASE Len(thread) = 0
  <2>1. AllPings = {}
    BY <1>1, <1>2, PingsAre
  <2>2. Grown
    BY <1>1, <1>2, <2>1 DEF Grown, Same, AllPings
  <2>3. OneEach
    BY <2>1 DEF OneEach
  <2> QED
    BY <1>2, <2>2, <2>3 DEF Stepped, Replied, Tells
<1>3. CASE Len(thread) # 0
  <2>1. 1 \in 1..Len(thread)
    BY <1>1, <1>3, ThreadIs
  <2> QED
    BY <2>1, ThreadAlone
<1> QED
  BY <1>2, <1>3

\* The steps on one message that is moderated, and that no one posts on.
LEMMA Moderated ==
    ASSUME Inv, NEW i \in 1..Len(thread), thread' \in Seq(Messages), Len(thread') = Len(thread),
           Same(thread, thread', Len(thread)),
           \A j \in 1..Len(thread) : j # i => thread'[j] = thread[j],
           \A p \in AllPings' : p \in AllPings \/ (p \in Consumers \X {i}),
           \/ thread'[i].status = "approved" /\ AllPings \subseteq AllPings'
           \/ /\ thread'[i].status = "rejected"
              /\ \A p \in AllPings' : p[2] = i => p[1] = thread[i].by
              /\ \A p \in AllPings : p[2] # i => p \in AllPings',
           unseen' \cap seen' = {}, Others
    PROVE  Stepped
<1>1. TypeOK /\ thread \in Seq(Messages)
  BY DEF Inv, TypeOK
<1>2. Len(thread) \in Nat
  BY <1>1, ThreadIs
<1>3. thread'[i].by = thread[i].by
  BY DEF Same
<1>4. ASSUME NEW p \in AllPings', p \notin AllPings
      PROVE  p \in Consumers \X (1..Len(thread')) /\ Quiet(p)'
  <2>1. p \in Consumers \X {i}
    BY <1>4
  <2>2. p[2] = i
    BY <2>1
  <2>3. thread'[i].status = "rejected" => p[1] = thread'[i].by
    BY <1>3, <1>4, <2>2
  <2> QED
    BY <2>1, <2>2, <2>3 DEF Quiet
<1>5. unseen \subseteq AllPings
  BY DEF AllPings
<1>6. Grown
  BY <1>1, <1>2, <1>3, <1>4, <1>5 DEF Grown
<1>7. OneEach
  <2>1. ASSUME NEW a \in Consumers, NEW k \in 1..Len(thread'), <<a, k>> \in AllPings', <<a, k>> \notin AllPings
        PROVE  k = i
    BY <2>1
  <2> QED
    BY <2>1 DEF OneEach
<1> QED
  BY <1>2, <1>6, <1>7 DEF Stepped, Replied, Tells

\* What a post marks read for its author.
LEMMA PrunedIs ==
    ASSUME NEW n \in Nat, n = Len(thread), NEW t, Same(thread, t, n), NEW c, NEW pings
    PROVE  /\ PrunedByPost(t, c, n + 1, pings) \subseteq pings
           /\ \A p \in PrunedByPost(t, c, n + 1, pings) :
                p[1] = c /\ (p[2] \in Nat => ~Younger(p))
<1>1. PrunedByPost(t, c, n + 1, pings) \subseteq OfConsumer(pings, c)
  BY DEF PrunedByPost
<1>2. OfConsumer(pings, c) \subseteq pings /\ \A p \in OfConsumer(pings, c) : p[1] = c
  BY DEF OfConsumer
<1>3. ASSUME NEW p \in PrunedByPost(t, c, n + 1, pings), p[2] \in Nat PROVE ~Younger(p)
  <2>1. p[1] = c
    BY <1>1, <1>2
  <2>2. PICK k \in Nat : k = LastAuthored(thread, c, n + 1)
    BY LastIsNat
  <2>3. LastAuthored(t, c, n + 1) = k
    BY <2>2, LastIs
  <2>4. k = 0 \/ p[2] <= k
    BY <1>3, <2>3 DEF PrunedByPost
  <2>5. ~(k > 0 /\ p[2] > k)
    BY <1>3, <2>2, <2>4
  <2> QED
    BY <2>1, <2>2, <2>5 DEF Younger
<1> QED
  BY <1>1, <1>2, <1>3

-----------------------------------------------------------------------------
(* A post.                                                                 *)

LEMMA StaleIs ==
    ASSUME NEW t, NEW n \in Nat
    PROVE  StaleAtClose(t, n + 1) \subseteq 1..n
  BY DEF StaleAtClose

LEMMA SubmitSteps ==
    ASSUME Inv, NEW m \in Messages, m.status = "pending", NEW auto \in BOOLEAN, Submit(m, auto),
           assignee' = assignee, focusAway' = focusAway, gestures' \in Nat
    PROVE  Stepped
<1>. PICK n \in Nat : n = Len(thread)
  BY ThreadIs DEF Inv, TypeOK
<1> DEFINE i == n + 1
           subs == [sub EXCEPT ![m.by] = "follows"]
           put == Append(thread, m)
           now == IF auto THEN Approved(put, i) ELSE put
           closes == m.kind = "closed" /\ auto
           told == FanOut(put, i, subs, {}) \cup (IF auto THEN AtApproval(now, i, subs) ELSE {})
           stale == StaleAtClose(now, i)
           pinged == unseen \cup Ping(told, i)
           kept == IF closes THEN WithoutMessages(pinged, stale) ELSE pinged
           read == PrunedByPost(now, m.by, i, kept)
<1>1. /\ thread' = IF closes THEN SettledByClose(now, i) ELSE now
      /\ sub' = subs /\ unseen' = kept \ read
      /\ seen' = (IF closes THEN {} ELSE seen) \cup read
      /\ claimant' = ClaimAfter(now, i)
  BY DEF Submit
<1>2. TypeOK /\ thread \in Seq(Messages) /\ m.by \in Consumers /\ unseen \cap seen = {}
  BY DEF Inv, TypeOK, Messages
<1>3. /\ put \in Seq(Messages) /\ Len(put) = i /\ i \in Nat /\ put[i] = m
      /\ \A j \in 1..n : put[j] = thread[j] /\ j # i
  BY <1>2, AppendedIs
<1>4. i \in 1..i
  OBVIOUS
<1>5. /\ now \in Seq(Messages) /\ Len(now) = i /\ now[i].by = m.by
      /\ \A j \in 1..n : now[j] = thread[j]
      /\ now[i].status = IF auto THEN "approved" ELSE "pending"
  <2>1. CASE auto
    <3>1. i \in 1..Len(put) /\ 1..n \subseteq 1..Len(put) /\ 1..i = 1..Len(put)
      BY <1>3
    <3> HIDE DEF put, i
    <3>2. /\ Approved(put, i) \in Seq(Messages) /\ Len(Approved(put, i)) = Len(put)
          /\ Same(put, Approved(put, i), Len(put))
          /\ Approved(put, i)[i].status = "approved"
          /\ \A j \in 1..Len(put) : j # i => Approved(put, i)[j] = put[j]
      BY <1>3, <3>1, ApprovedIs
    <3> QED
      BY <1>3, <2>1, <3>1, <3>2 DEF Same
  <2>2. CASE ~auto
    BY <1>3, <2>2
  <2> QED
    BY <2>1, <2>2
<1>6. told \subseteq Consumers \ {m.by} /\ (~auto => told \subseteq Humans)
  <2>1. /\ FanOut(put, i, subs, {}) \subseteq Consumers \ {m.by}
        /\ FanOut(put, i, subs, {}) \subseteq Humans
    <3>1. i \in 1..Len(put)
      BY <1>3, <1>4
    <3> HIDE DEF put, i, subs
    <3> QED
      BY <1>3, <3>1, RecipientsAre
  <2>2. AtApproval(now, i, subs) \subseteq Consumers \ {m.by}
    <3>1. i \in 1..Len(now)
      BY <1>4, <1>5
    <3> HIDE DEF now, i, subs
    <3> QED
      BY <1>5, <3>1, RecipientsAre
  <2> HIDE DEF put, now, i, subs
  <2> QED
    BY <2>1, <2>2
<1>7. /\ stale \subseteq 1..n /\ i \notin stale
  <2>1. stale \subseteq 1..n
    BY StaleIs
  <2> HIDE DEF now
  <2> QED
    BY <2>1
<1>8. /\ thread' \in Seq(Messages) /\ Len(thread') = i
      /\ \A j \in 1..n : thread'[j].by = thread[j].by /\ thread'[j].kind = thread[j].kind
      /\ thread'[i].by = m.by /\ thread'[i].status = now[i].status
      /\ \A j \in 1..n : thread'[j].status = IF closes /\ j \in stale THEN "rejected" ELSE thread[j].status
  <2>1. /\ SettledByClose(now, i) \in Seq(Messages) /\ Len(SettledByClose(now, i)) = Len(now)
        /\ Same(now, SettledByClose(now, i), Len(now))
        /\ \A j \in 1..Len(now) : SettledByClose(now, i)[j].status =
             IF j \in StaleAtClose(now, i) THEN "rejected" ELSE now[j].status
    <3> HIDE DEF now, i
    <3> QED
      BY <1>3, <1>5, SettledIs
  <2>2. 1..n \subseteq 1..Len(now) /\ i \in 1..Len(now)
    BY <1>4, <1>5
  <2>3. CASE closes
    <3>1. thread' = SettledByClose(now, i)
      BY <1>1, <2>3
    <3> HIDE DEF now, i, closes
    <3> QED
      BY <1>5, <1>7, <2>1, <2>2, <2>3, <3>1 DEF Same
  <2>4. CASE ~closes
    <3>1. thread' = now
      BY <1>1, <2>4
    <3> HIDE DEF now, i, closes
    <3> QED
      BY <1>5, <2>4, <3>1
  <2> QED
    BY <2>3, <2>4
<1>9. /\ \A p \in Ping(told, i) : p \in Consumers \X {i} /\ p[1] \in told /\ p[1] \in Consumers /\ p[2] = i /\ p \notin seen
  <2> HIDE DEF told, i
  <2>1. \A p \in Ping(told, i) : p = <<p[1], i>> /\ p[1] \in told /\ p[2] = i /\ p \notin seen
    BY PingIs
  <2> QED
    BY <1>6, <2>1
<1>10. /\ kept \subseteq pinged /\ kept \cap seen = {}
       /\ closes => \A p \in kept : p[2] \notin stale
       /\ \A p \in pinged : p \in kept \/ (closes /\ p[2] \in stale)
  <2> HIDE DEF told, i, stale, closes
  <2> QED
    BY <1>2, <1>9 DEF WithoutMessages
<1>11. /\ read \subseteq kept /\ \A p \in read : p[1] = m.by /\ (p[2] \in Nat => ~Younger(p))
  <2>1. Same(thread, now, n)
    BY <1>5 DEF Same
  <2> HIDE DEF now, kept
  <2> QED
    BY <2>1, PrunedIs
<1> HIDE DEF i, subs, put, now, closes, told, stale, pinged, kept, read
<1>12. 1..n \subseteq 1..i /\ i = n + 1 /\ i \in 1..i /\ \A j \in 1..n : j # i
  BY <1>3, <1>4 DEF i
<1>13. \A p \in unseen : p[2] \in 1..n /\ p[2] \in Nat
  BY <1>2, PingsAre DEF AllPings
<1>14. \A p \in AllPings' : p \in AllPings \/ p \in Ping(told, i)
  BY <1>1, <1>10, <1>11 DEF AllPings, pinged
<1>15. \A p \in Ping(told, i) : Quiet(p)'
  <2>1. thread'[i].status = IF auto THEN "approved" ELSE "pending"
    BY <1>5, <1>8
  <2> QED
    BY <1>6, <1>9, <2>1 DEF Quiet
<1>16. ASSUME closes PROVE \A p \in AllPings' : p[2] \notin stale
  BY <1>1, <1>10, <1>11, <1>16 DEF AllPings
<1>17. unseen' \cap seen' = {}
  BY <1>1, <1>10
<1>18. \A p \in unseen : p \in AllPings' \/ thread'[p[2]].status = "rejected"
  BY <1>1, <1>8, <1>10, <1>13 DEF AllPings, pinged
<1>19. Grown
  <2>1. Len(thread') >= Len(thread) /\ Same(thread, thread', Len(thread))
    BY <1>8, <1>12 DEF Same
  <2>2. ASSUME NEW j \in 1..n
        PROVE  \/ thread'[j].status = thread[j].status
               \/ /\ thread'[j].status = "rejected"
                  /\ \A p \in AllPings' : p[2] # j
    <3>1. CASE closes /\ j \in stale
      BY <1>8, <1>16, <3>1
    <3>2. CASE ~(closes /\ j \in stale)
      BY <1>8, <3>2
    <3> QED
      BY <3>1, <3>2
  <2>3. \A p \in AllPings' : p \in AllPings \/ (p \in Consumers \X (1..Len(thread')) /\ Quiet(p)')
    BY <1>8, <1>9, <1>12, <1>14, <1>15
  <2> QED
    BY <1>8, <1>17, <1>18, <2>1, <2>2, <2>3 DEF Grown
<1>20. OneEach
  <2>1. ASSUME NEW a \in Consumers, NEW k \in 1..Len(thread'), <<a, k>> \in AllPings', <<a, k>> \notin AllPings
        PROVE  k = i
    <3>1. <<a, k>>[2] = i
      BY <1>9, <1>14, <2>1
    <3> QED
      BY <3>1
  <2> QED
    BY <2>1 DEF OneEach
<1>21. Replied
  <2>1. ASSUME NEW p \in unseen, p[1] = m.by, Younger(p) PROVE p \notin seen'
    BY <1>1, <1>2, <1>11, <1>13, <2>1
  <2> QED
    BY <1>8, <1>12, <2>1 DEF Replied
<1>22. Tells
  BY <1>8, <1>12 DEF Tells
<1>23. Others
  <2>1. claimant' \in Consumers \cup {Nobody}
    BY <1>1, <1>2, <1>5 DEF ClaimAfter, TypeOK
  <2>2. sub' \in [Consumers -> Subs]
    BY <1>1, <1>2 DEF subs, TypeOK, Subs
  <2> QED
    BY <1>2, <2>1, <2>2 DEF Others, TypeOK
<1> QED
  BY <1>19, <1>20, <1>21, <1>22, <1>23 DEF Stepped

LEMMA NamingCounts ==
    ASSUME gestures \in Nat, NEW names, Naming(names) PROVE gestures' \in Nat
  BY DEF Naming, Gesture

LEMMA CommentSteps ==
    ASSUME Inv, NEW c \in Consumers, NEW scope \in Scopes, NEW names \in Mentions,
           NEW keeps \in BOOLEAN, NEW asks \in Proposals \cup {"nothing"},
           Comment(c, scope, names, keeps, asks)
    PROVE  Stepped
<1> DEFINE d == Draft("comment", c, scope, names, keeps, asks, 0)
<1>1. /\ scope \in {"internal", "default", "broadcast"} /\ names \in SUBSET Consumers
      /\ asks \in {"nothing", "plan", "resolution"} /\ "comment" \in Kinds /\ 0 \in Nat
  BY PingsParameters DEF Kinds
<1>2. d \in Messages /\ d.status = "pending"
  BY <1>1 DEF Draft, Messages
<1>3. Submit(d, AutoApproved(c)) /\ AutoApproved(c) \in BOOLEAN
  BY DEF Comment, AutoApproved
<1>4. assignee' = assignee /\ focusAway' = focusAway /\ gestures' \in Nat
  BY NamingCounts DEF Comment, Inv, TypeOK
<1> HIDE DEF d
<1> QED
  BY <1>2, <1>3, <1>4, SubmitSteps

LEMMA LifecycleSteps ==
    ASSUME Inv, NEW c \in Consumers, NEW kind \in {"closed", "reopened"}, Lifecycle(c, kind)
    PROVE  Stepped
<1> DEFINE d == Draft(kind, c, "default", {}, FALSE, "nothing", 1)
           auto == AutoApproved(c) \/ c = thread[1].by
<1>1. /\ "default" \in {"internal", "default", "broadcast"} /\ {} \in SUBSET Consumers
      /\ "nothing" \in {"nothing", "plan", "resolution"} /\ kind \in Kinds /\ 1 \in Nat /\ FALSE \in BOOLEAN
  BY DEF Kinds
<1>2. d \in Messages /\ d.status = "pending"
  BY <1>1 DEF Draft, Messages
<1>3. Submit(d, auto) /\ auto \in BOOLEAN
  BY DEF Lifecycle, AutoApproved
<1>4. assignee' = assignee /\ focusAway' = focusAway /\ gestures' \in Nat
  BY DEF Lifecycle, Inv, TypeOK
<1> HIDE DEF d, auto
<1> QED
  BY <1>2, <1>3, <1>4, SubmitSteps

LEMMA FileTicketSteps ==
    ASSUME Inv, NEW c \in Consumers, NEW scope \in Scopes, NEW names \in Mentions,
           NEW to \in Owners \cup {Nobody}, FileTicket(c, scope, names, to)
    PROVE  Stepped
<1> DEFINE m == Draft("ticket", c, scope, names, FALSE, "nothing", 0)
           subs == [x \in Consumers |-> IF x \in {c, to} THEN "follows" ELSE sub[x]]
           put == <<m>>
           now == IF AutoApproved(c) THEN Approved(put, 1) ELSE put
           told == FanOut(put, 1, subs, {})
                   \cup (IF AutoApproved(c) THEN AtApproval(now, 1, subs) \cup ({to} \ {Nobody, c}) ELSE {})
<1>1. /\ thread = <<>> /\ thread' = now /\ sub' = subs /\ unseen' = Ping(told, 1)
      /\ assignee' = to /\ claimant' = claimant /\ seen' = seen /\ focusAway' = focusAway
  BY DEF FileTicket
<1>2. gestures' \in Nat
  BY NamingCounts DEF FileTicket, Inv, TypeOK
<1>3. TypeOK /\ Len(thread) = 0 /\ AllPings = {} /\ unseen = {} /\ seen = {}
  <2>1. TypeOK /\ Len(thread) = 0
    BY <1>1 DEF Inv
  <2>2. AllPings = {}
    BY <2>1, PingsAre
  <2> QED
    BY <2>1, <2>2 DEF AllPings
<1>4. /\ scope \in {"internal", "default", "broadcast"} /\ names \in SUBSET Consumers
      /\ "nothing" \in {"nothing", "plan", "resolution"} /\ "ticket" \in Kinds /\ 0 \in Nat /\ FALSE \in BOOLEAN
  BY PingsParameters DEF Kinds
<1>5. m \in Messages /\ m.status = "pending" /\ m.by = c
  BY <1>4 DEF Draft, Messages
<1> HIDE DEF m
<1>6. put \in Seq(Messages) /\ Len(put) = 1 /\ put[1] = m /\ 1 \in 1..Len(put)
  BY <1>5
<1> HIDE DEF put, subs
<1>7. /\ now \in Seq(Messages) /\ Len(now) = 1 /\ now[1].by = c /\ 1 \in 1..Len(now)
      /\ now[1].status = IF AutoApproved(c) THEN "approved" ELSE "pending"
  <2>1. /\ Approved(put, 1) \in Seq(Messages) /\ Len(Approved(put, 1)) = 1
        /\ Approved(put, 1)[1].by = put[1].by /\ Approved(put, 1)[1].status = "approved"
    BY <1>6, ApprovedIs DEF Same
  <2> QED
    BY <1>5, <1>6, <2>1
<1> HIDE DEF now
<1>8. told \subseteq Consumers /\ (~AutoApproved(c) => told \subseteq Humans)
  <2>1. FanOut(put, 1, subs, {}) \subseteq Consumers /\ FanOut(put, 1, subs, {}) \subseteq Humans
    BY <1>5, <1>6, RecipientsAre
  <2>2. AtApproval(now, 1, subs) \subseteq Consumers
    BY <1>7, RecipientsAre
  <2>3. {to} \ {Nobody, c} \subseteq Consumers
    BY PingsParameters
  <2> QED
    BY <2>1, <2>2, <2>3
<1> HIDE DEF told
<1>9. \A p \in AllPings' : p \in Consumers \X {1} /\ p[1] \in told /\ p[2] = 1
  <2>1. \A p \in Ping(told, 1) : p = <<p[1], 1>> /\ p[1] \in told /\ p[2] = 1
    BY PingIs
  <2> QED
    BY <1>1, <1>3, <1>8, <2>1 DEF AllPings
<1>10. \A p \in AllPings' : p \in Consumers \X (1..Len(thread')) /\ Quiet(p)'
  BY <1>1, <1>7, <1>8, <1>9 DEF Quiet
<1>11. Grown
  BY <1>1, <1>3, <1>7, <1>10 DEF Grown, Same
<1>12. OneEach
  <2>1. ASSUME NEW a \in Consumers, NEW k \in 1..Len(thread'), <<a, k>> \in AllPings'
        PROVE  k = 1
    <3>1. <<a, k>>[2] = 1
      BY <1>9, <2>1
    <3> QED
      BY <3>1
  <2> QED
    BY <2>1 DEF OneEach
<1>13. Replied /\ Tells
  BY <1>1, <1>3, <1>7 DEF Replied, Tells
<1>14. Others
  <2>1. sub' \in [Consumers -> Subs]
    BY <1>1, <1>3 DEF subs, TypeOK, Subs
  <2> QED
    BY <1>1, <1>2, <1>3, <2>1, PingsParameters DEF Others, TypeOK
<1> QED
  BY <1>11, <1>12, <1>13, <1>14 DEF Stepped

-----------------------------------------------------------------------------
(* Moderation, votes and marks.                                            *)

LEMMA DecisionIs ==
    ASSUME NEW t, NEW i, NEW h
    PROVE  NotifyDecision(t, i, h) \subseteq {t[i].by}
  BY DEF NotifyDecision

LEMMA OthersStay ==
    ASSUME Inv, UNCHANGED <<sub, assignee, claimant>>, focusAway' \in BOOLEAN, gestures' \in Nat
    PROVE  Others
  BY DEF Inv, TypeOK, Others, Subs

LEMMA ApproveSteps ==
    ASSUME Inv, NEW i \in DOMAIN thread, NEW h \in Humans, Approve(h, i)
    PROVE  Stepped
<1> DEFINE now == Approved(thread, i)
           filed == IF thread[i].kind = "ticket" THEN {assignee} \ {Nobody} ELSE {}
           told == AtApproval(now, i, sub) \cup filed \cup NotifyDecision(now, i, h)
<1>1. TypeOK /\ thread \in Seq(Messages) /\ i \in 1..Len(thread) /\ unseen \cap seen = {}
  BY PingsAre DEF Inv, TypeOK
<1>2. thread' = now /\ unseen' = unseen \cup Ping(told, i) /\ seen' = seen
  BY DEF Approve
<1>3. /\ now \in Seq(Messages) /\ Len(now) = Len(thread)
      /\ Same(thread, now, Len(thread)) /\ now[i].status = "approved" /\ now[i].by = thread[i].by
      /\ \A j \in 1..Len(thread) : j # i => now[j] = thread[j]
  BY <1>1, ApprovedIs DEF Same
<1> HIDE DEF now
<1>4. told \subseteq Consumers
  <2>1. AtApproval(now, i, sub) \subseteq Consumers /\ now[i].by \in Consumers
    BY <1>1, <1>3, RecipientsAre, ThreadIs
  <2>2. filed \subseteq Consumers
    BY <1>1 DEF TypeOK
  <2> QED
    BY <2>1, <2>2, DecisionIs
<1> HIDE DEF told
<1>5. \A p \in Ping(told, i) : p \in Consumers \X {i} /\ p \notin seen
  BY <1>4, PingIs
<1>6. Others
  BY OthersStay, <1>1 DEF Approve, TypeOK
<1> QED
  BY <1>1, <1>2, <1>3, <1>5, <1>6, Moderated DEF AllPings

LEMMA RejectSteps ==
    ASSUME Inv, NEW i \in DOMAIN thread, NEW h \in Humans, Reject(h, i)
    PROVE  Stepped
<1> DEFINE u == [thread EXCEPT ![i].status = "rejected"]
           m == [thread[i] EXCEPT !.status = "rejected"]
           new == {<<c, i>> : c \in NotifyDecision(thread, i, h)}
<1>1. TypeOK /\ thread \in Seq(Messages) /\ i \in 1..Len(thread) /\ unseen \cap seen = {}
  BY PingsAre DEF Inv, TypeOK
<1>2. /\ thread' = u /\ seen' = WithoutMessages(seen, {i})
      /\ unseen' = WithoutMessages(unseen, {i}) \cup new
  BY DEF Reject
<1>3. thread[i] \in Messages /\ thread[i].by \in Consumers
  BY <1>1, ThreadIs
<1>4. m \in Messages /\ m.by = thread[i].by /\ m.kind = thread[i].kind /\ m.status = "rejected"
  BY <1>3, RestatedIs DEF Statuses
<1>5. u = [thread EXCEPT ![i] = m]
  OBVIOUS
<1> HIDE DEF m, u
<1>6. /\ u \in Seq(Messages) /\ Len(u) = Len(thread)
      /\ \A j \in 1..Len(thread) : u[j] = IF j = i THEN m ELSE thread[j]
  BY <1>1, <1>4, <1>5
<1>7. /\ Same(thread, u, Len(thread)) /\ u[i].status = "rejected"
      /\ \A j \in 1..Len(thread) : j # i => u[j] = thread[j]
  BY <1>1, <1>4, <1>6 DEF Same
<1>8. \A p \in new : p \in Consumers \X {i} /\ p[1] = thread[i].by /\ p[2] = i
  BY <1>3, DecisionIs
<1> HIDE DEF new
<1>9. /\ \A p \in WithoutMessages(seen, {i}) : p \in seen /\ p[2] # i
      /\ \A p \in WithoutMessages(unseen, {i}) : p \in unseen /\ p[2] # i
      /\ \A p \in seen : p[2] # i => p \in WithoutMessages(seen, {i})
      /\ \A p \in unseen : p[2] # i => p \in WithoutMessages(unseen, {i})
  BY DEF WithoutMessages
<1>10. unseen' \cap seen' = {}
  BY <1>1, <1>2, <1>8, <1>9
<1>11. Others
  BY OthersStay, <1>1 DEF Reject, TypeOK
<1>12. /\ \A p \in AllPings' : p \in AllPings \/ p \in Consumers \X {i}
       /\ \A p \in AllPings' : p[2] = i => p[1] = thread[i].by
       /\ \A p \in AllPings : p[2] # i => p \in AllPings'
  BY <1>2, <1>8, <1>9 DEF AllPings
<1> QED
  BY <1>1, <1>2, <1>6, <1>7, <1>10, <1>11, <1>12, Moderated

LEMMA VoteSteps ==
    ASSUME Inv, NEW i \in DOMAIN thread, NEW c \in Consumers, Vote(c, i)
    PROVE  Stepped
<1>1. TypeOK /\ i \in 1..Len(thread) /\ unseen \cap seen = {}
  BY PingsAre DEF Inv, TypeOK
<1>2. \A p \in Ping({thread[i].by}, i) : p = <<thread[i].by, i>> /\ p \notin seen
  BY DEF Ping
<1>3. thread' = thread /\ unseen' = unseen \cup Ping({thread[i].by}, i) /\ seen' = seen
  BY DEF Vote
<1>4. Others
  BY OthersStay, <1>1 DEF Vote, Gesture, TypeOK
<1> QED
  BY <1>1, <1>2, <1>3, <1>4, ThreadAlone DEF AllPings

LEMMA MarksStep ==
    ASSUME Inv,
           \/ \E c \in Consumers : \/ \E state \in {"none", "follows", "muted"} : Subscribe(c, state)
                                   \/ \E upTo \in DOMAIN thread : MarkSeen(c, upTo)
                                   \/ MarkTicketUnseen(c)
           \/ \E i \in DOMAIN thread : Resurface(i)
           \/ SetFocus
           \/ \E a \in Agents : AckWake(a)
           \/ UNCHANGED vars
    PROVE  Stepped
<1>1. TypeOK /\ unseen \cap seen = {}
  BY DEF Inv, TypeOK
<1>2. ASSUME NEW c \in Consumers, NEW state \in {"none", "follows", "muted"}, Subscribe(c, state)
      PROVE  Stepped
  <2>1. thread' = thread /\ unseen' = unseen /\ seen' = seen
    BY <1>2 DEF Subscribe
  <2>2. sub' \in [Consumers -> Subs]
    BY <1>1, <1>2 DEF Subscribe, TypeOK, Subs
  <2>3. Others
    BY <1>1, <1>2, <2>2 DEF Subscribe, Gesture, TypeOK, Others
  <2> QED
    BY <1>1, <2>1, <2>3, NothingMoved DEF AllPings
<1>3. ASSUME NEW c \in Consumers, NEW upTo \in DOMAIN thread, MarkSeen(c, upTo) PROVE Stepped
  <2> DEFINE read == {p \in OfConsumer(unseen, c) : p[2] <= upTo}
  <2>1. thread' = thread /\ unseen' = unseen \ read /\ seen' = seen \cup read
    BY <1>3 DEF MarkSeen
  <2>2. read \subseteq unseen
    BY DEF OfConsumer
  <2>3. Others
    BY OthersStay, <1>1, <1>3 DEF MarkSeen, Gesture, TypeOK
  <2> HIDE DEF read
  <2> QED
    BY <1>1, <2>1, <2>2, <2>3, NothingMoved DEF AllPings
<1>4. ASSUME NEW c \in Consumers, MarkTicketUnseen(c) PROVE Stepped
  <2>1. /\ thread' = thread /\ unseen' = unseen \cup OfConsumer(seen, c)
        /\ seen' = seen \ OfConsumer(seen, c)
    BY <1>4 DEF MarkTicketUnseen
  <2>2. OfConsumer(seen, c) \subseteq seen
    BY DEF OfConsumer
  <2>3. Others
    BY OthersStay, <1>1, <1>4 DEF MarkTicketUnseen, Gesture, TypeOK
  <2> QED
    BY <1>1, <2>1, <2>2, <2>3, NothingMoved DEF AllPings
<1>5. ASSUME NEW i \in DOMAIN thread, Resurface(i) PROVE Stepped
  <2>1. /\ thread' = thread /\ unseen' = unseen \cup OfMessage(seen, i)
        /\ seen' = seen \ OfMessage(seen, i)
    BY <1>5 DEF Resurface
  <2>2. OfMessage(seen, i) \subseteq seen
    BY DEF OfMessage
  <2>3. Others
    BY OthersStay, <1>1, <1>5 DEF Resurface, Gesture, TypeOK
  <2> QED
    BY <1>1, <2>1, <2>2, <2>3, NothingMoved DEF AllPings
<1>6. ASSUME SetFocus PROVE Stepped
  <2>1. thread' = thread /\ unseen' = unseen /\ seen' = seen
    BY <1>6 DEF SetFocus
  <2>2. Others
    BY OthersStay, <1>1, <1>6 DEF SetFocus, Gesture, TypeOK
  <2> QED
    BY <1>1, <2>1, <2>2, NothingMoved DEF AllPings
<1>7. ASSUME NEW a \in Agents, AckWake(a) PROVE Stepped
  <2> DEFINE read == {p \in OfConsumer(unseen, a) : p[2] \in WakeList(a) \cup FyiList(a)}
  <2>1. thread' = thread /\ unseen' = unseen \ read /\ seen' = seen \cup read
    BY <1>7 DEF AckWake
  <2>2. read \subseteq unseen
    BY DEF OfConsumer
  <2>3. Others
    BY OthersStay, <1>1, <1>7 DEF AckWake, TypeOK
  <2> HIDE DEF read
  <2> QED
    BY <1>1, <2>1, <2>2, <2>3, NothingMoved DEF AllPings
<1>8. ASSUME UNCHANGED vars PROVE Stepped
  <2>1. thread' = thread /\ unseen' = unseen /\ seen' = seen
    BY <1>8 DEF vars
  <2>2. Others
    BY OthersStay, <1>1, <1>8 DEF vars, TypeOK
  <2> QED
    BY <1>1, <2>1, <2>2, NothingMoved DEF AllPings
<1> QED
  BY <1>2, <1>3, <1>4, <1>5, <1>6, <1>7, <1>8

-----------------------------------------------------------------------------
(* The decision of a person, and the close that rides on it.               *)

LEMMA PostedIs ==
    ASSUME NEW h \in Consumers, NEW kind \in {"verdict", "closed"}, NEW about \in Nat
    PROVE  /\ Posted(h, kind, about) \in Messages
           /\ Posted(h, kind, about).by = h /\ Posted(h, kind, about).kind = kind
           /\ Posted(h, kind, about).status = "approved"
           /\ Posted(h, kind, about).scope = "default" /\ Posted(h, kind, about).about = about
<1>1. Posted(h, kind, about) =
        [kind |-> kind, by |-> h, scope |-> "default", names |-> {}, keeps |-> FALSE,
         asks |-> "nothing", about |-> about, status |-> "approved"]
  <2> DEFINE x == [kind |-> kind, by |-> h, scope |-> "default", names |-> {}, keeps |-> FALSE,
                  asks |-> "nothing", about |-> about, status |-> "pending"]
  <2>1. Posted(h, kind, about) = [x EXCEPT !.status = "approved"]
    BY DEF Posted, Draft
  <2> QED
    BY <2>1
<1> QED
  BY <1>1 DEF Messages, Kinds

\* Who follows hears a person's approved verdict or close, if it concerns it.
LEMMA FollowersHear ==
    ASSUME NEW t, NEW v, NEW subs, NEW except, NEW a \in Agents \ OffLevel,
           t[v].by \in Humans, t[v].kind \in {"verdict", "closed"}, t[v].status = "approved",
           t[v].scope = "default", subs[a] = "follows", a \notin except,
           t[v].kind = "verdict" => a = t[t[v].about].by
    PROVE  a \in FanOut(t, v, subs, except)
<1>1. a \notin Humans /\ a # t[v].by /\ a \in Consumers
  BY PingsParameters DEF Consumers
<1>2. a \in Interested(t, v, subs)
  BY <1>1 DEF Interested
<1>3. ~(t[v].scope = "internal" \/ KeepsTheHand(t[v]))
  BY DEF KeepsTheHand
<1>4. a \notin {c \in Consumers : subs[c] = "muted"}
  OBVIOUS
<1> QED
  BY <1>1, <1>2, <1>3, <1>4 DEF FanOut

\* A verdict concerns the author of the proposal alone.
LEMMA VerdictTells ==
    ASSUME NEW t, NEW v, NEW subs, t[v].kind = "verdict", t[v].status = "approved"
    PROVE  FanOut(t, v, subs, {}) \subseteq {t[t[v].about].by}
  BY DEF FanOut

\* What the decision d of h on message i, of the n of the thread, makes of all this.
DecidedAs(d, h, i, n) ==
    /\ d.thread \in Seq(Messages) /\ Len(d.thread) = n + 1
    /\ Same(thread, d.thread, n)
    /\ \A j \in 1..n : d.thread[j].status = thread[j].status
    /\ d.thread[n + 1].by = h /\ d.thread[n + 1].status = "approved"
    /\ d.thread[n + 1].kind = "verdict"
    /\ d.sub \in [Consumers -> Subs] /\ \A a \in Agents : d.sub[a] = sub[a]
    /\ d.unseen \cap d.seen = {}
    /\ \A p \in d.unseen \cup d.seen :
         p \in AllPings \/ p = <<thread[i].by, i>> \/ p = <<thread[i].by, n + 1>>
    /\ AllPings \subseteq d.unseen \cup d.seen
    /\ \A p \in d.seen : p \in seen \/ p[1] = h
    /\ \A p \in unseen : p \in d.seen => ~Younger(p)
    /\ thread[i].by \in Agents \ OffLevel /\ sub[thread[i].by] = "follows"
       => <<thread[i].by, n + 1>> \in d.unseen

LEMMA DecidedDoes ==
    ASSUME Inv, NEW h \in Humans, NEW n \in Nat, n = Len(thread), NEW i \in 1..n, NEW d, d = Decided(h, i)
    PROVE  DecidedAs(d, h, i, n)
<1> DEFINE v == n + 1
           subs == [sub EXCEPT ![h] = "follows"]
           m == [thread[i] EXCEPT !.asks = "decided"]
           s == [thread EXCEPT ![i] = m]
           post == Posted(h, "verdict", i)
           t == Append(s, post)
           pinged == unseen \cup Ping(NotifyDecision(t, i, h), i) \cup Ping(FanOut(t, v, subs, {}), v)
           read == PrunedByPost(t, h, v, pinged)
<1>1. /\ TypeOK /\ thread \in Seq(Messages) /\ i \in 1..Len(thread) /\ h \in Consumers /\ h \notin Agents
      /\ unseen \cap seen = {}
  BY PingsParameters DEF Inv, TypeOK, Consumers
<1>2. thread[i] \in Messages /\ thread[i].by \in Consumers
  BY <1>1, ThreadIs
<1>3. d.thread = t /\ d.sub = subs /\ d.unseen = pinged \ read /\ d.seen = seen \cup read
  <2>1. [thread EXCEPT ![i].asks = "decided"] = s
    OBVIOUS
  <2>2. Decided(h, i) = [thread |-> t, sub |-> subs, unseen |-> pinged \ read, seen |-> seen \cup read]
    BY <2>1 DEF Decided
  <2> QED
    BY <2>2
<1>4. m \in Messages /\ m.by = thread[i].by /\ m.kind = thread[i].kind /\ m.status = thread[i].status
  BY <1>2, DecidedIs
<1> HIDE DEF m
<1>5. /\ s \in Seq(Messages) /\ Len(s) = n
      /\ \A j \in 1..n : s[j] = IF j = i THEN m ELSE thread[j]
  BY <1>1, <1>4
<1>6. /\ post \in Messages /\ post.by = h /\ post.kind = "verdict" /\ post.status = "approved"
      /\ post.scope = "default" /\ post.about = i
  BY <1>1, PostedIs
<1> HIDE DEF s, post
<1>7. /\ t \in Seq(Messages) /\ Len(t) = v /\ v \in Nat /\ t[v] = post
      /\ \A j \in 1..n : t[j] = s[j] /\ j # v
  BY <1>5, <1>6, AppendedIs
<1>8. /\ \A j \in 1..n : /\ t[j].by = thread[j].by /\ t[j].kind = thread[j].kind
                         /\ t[j].status = thread[j].status /\ j # v
      /\ Same(thread, t, n) /\ t[i].by = thread[i].by
  BY <1>4, <1>5, <1>7 DEF Same
<1>9. /\ FanOut(t, v, subs, {}) \subseteq {thread[i].by} /\ NotifyDecision(t, i, h) \subseteq {thread[i].by}
  <2>1. t[v].kind = "verdict" /\ t[v].status = "approved" /\ t[v].about = i
    BY <1>6, <1>7
  <2> HIDE DEF t, v, subs
  <2>2. t[t[v].about].by = thread[i].by
    BY <1>8, <2>1
  <2>3. FanOut(t, v, subs, {}) \subseteq {t[t[v].about].by}
    BY <2>1, VerdictTells
  <2>4. NotifyDecision(t, i, h) \subseteq {t[i].by}
    BY DecisionIs
  <2> QED
    BY <1>8, <2>2, <2>3, <2>4
<1>10. thread[i].by \in Agents \ OffLevel /\ sub[thread[i].by] = "follows"
       => thread[i].by \in FanOut(t, v, subs, {})
  <2> SUFFICES ASSUME thread[i].by \in Agents \ OffLevel, sub[thread[i].by] = "follows"
               PROVE  thread[i].by \in FanOut(t, v, subs, {})
    OBVIOUS
  <2>1. subs[thread[i].by] = "follows"
    BY <1>1 DEF TypeOK
  <2>2. t[v].by = h /\ t[v].kind = "verdict" /\ t[v].status = "approved" /\ t[v].scope = "default" /\ t[v].about = i
    BY <1>6, <1>7
  <2> HIDE DEF t, subs, v
  <2>3. t[t[v].about].by = thread[i].by
    BY <1>8, <2>2
  <2> QED
    BY <1>6, <2>1, <2>2, <2>3, FollowersHear
<1> HIDE DEF t
<1>11. subs \in [Consumers -> Subs] /\ \A a \in Agents : subs[a] = sub[a]
  BY <1>1 DEF TypeOK, Subs, Consumers
<1>12. read \subseteq pinged /\ \A p \in read : p[1] = h /\ (p[2] \in Nat => ~Younger(p))
  <2> HIDE DEF pinged
  <2> QED
    BY <1>8, PrunedIs
<1>13. /\ \A p \in Ping(NotifyDecision(t, i, h), i) : p = <<thread[i].by, i>> /\ p \notin seen
       /\ \A p \in Ping(FanOut(t, v, subs, {}), v) : p = <<thread[i].by, v>> /\ p \notin seen
       /\ \A c \in FanOut(t, v, subs, {}) : <<c, v>> \in Ping(FanOut(t, v, subs, {}), v) \cup seen
  <2> HIDE DEF v, subs
  <2>1. ASSUME NEW p \in Ping(NotifyDecision(t, i, h), i) PROVE p = <<thread[i].by, i>> /\ p \notin seen
    <3>1. p = <<p[1], i>> /\ p[1] \in NotifyDecision(t, i, h) /\ p \notin seen
      BY PingIs
    <3>2. p[1] = thread[i].by
      BY <1>9, <3>1
    <3> QED
      BY <3>1, <3>2
  <2>2. ASSUME NEW p \in Ping(FanOut(t, v, subs, {}), v) PROVE p = <<thread[i].by, v>> /\ p \notin seen
    <3>1. p = <<p[1], v>> /\ p[1] \in FanOut(t, v, subs, {}) /\ p \notin seen
      BY PingIs
    <3>2. p[1] = thread[i].by
      BY <1>9, <3>1
    <3> QED
      BY <3>1, <3>2
  <2>3. \A c \in FanOut(t, v, subs, {}) : <<c, v>> \in Ping(FanOut(t, v, subs, {}), v) \cup seen
    BY PingIs
  <2> QED
    BY <2>1, <2>2, <2>3
<1>14. \A p \in AllPings : p[2] \in 1..n /\ p[2] \in Nat /\ p[2] # v
  BY <1>1, PingsAre
<1>15. <<thread[i].by, v>> \notin seen
  <2>1. <<thread[i].by, v>>[2] = v
    OBVIOUS
  <2> HIDE DEF v
  <2> QED
    BY <1>14, <2>1 DEF AllPings
<1>16. thread[i].by \in Agents => thread[i].by # h
  BY <1>1
<1> HIDE DEF subs, read
<1>17. \A p \in pinged : p \in unseen \/ p = <<thread[i].by, i>> \/ p = <<thread[i].by, v>>
  BY <1>13
<1>18. pinged \cap seen = {}
  BY <1>1, <1>13
<1>19. unseen \subseteq pinged
  OBVIOUS
<1>20. thread[i].by \in Agents \ OffLevel /\ sub[thread[i].by] = "follows" => <<thread[i].by, v>> \in pinged \ read
  <2> SUFFICES ASSUME thread[i].by \in Agents \ OffLevel, sub[thread[i].by] = "follows"
               PROVE  <<thread[i].by, v>> \in pinged \ read
    OBVIOUS
  <2>1. <<thread[i].by, v>> \in pinged
    BY <1>10, <1>13, <1>15
  <2>2. <<thread[i].by, v>>[1] # h
    BY <1>16
  <2> QED
    BY <1>12, <2>1, <2>2
<1> HIDE DEF pinged, v
<1>21. \A p \in d.seen : p \in seen \/ p[1] = h
  BY <1>3, <1>12
<1>22. \A p \in unseen : p \in d.seen => ~Younger(p)
  BY <1>1, <1>3, <1>12, <1>14 DEF AllPings
<1>23. /\ d.unseen \cap d.seen = {} /\ AllPings \subseteq d.unseen \cup d.seen
       /\ \A p \in d.unseen \cup d.seen :
            p \in AllPings \/ p = <<thread[i].by, i>> \/ p = <<thread[i].by, v>>
  BY <1>3, <1>12, <1>17, <1>18, <1>19 DEF AllPings
<1>24. v = n + 1
  BY DEF v
<1> QED
  BY <1>3, <1>6, <1>7, <1>8, <1>11, <1>20, <1>21, <1>22, <1>23, <1>24 DEF DecidedAs

\* What the close of h after the n messages of d makes of it, the reopens of stale refused.
ClosedAs(d, h, except, stale, n) ==
    /\ thread' \in Seq(Messages) /\ Len(thread') = n + 1
    /\ Same(d.thread, thread', n)
    /\ \A j \in 1..n : thread'[j].status = IF j \in stale THEN "rejected" ELSE d.thread[j].status
    /\ thread'[n + 1].by = h /\ thread'[n + 1].status = "approved"
    /\ sub' = d.sub /\ claimant' = Nobody
    /\ stale \subseteq 1..n /\ \A j \in stale : d.thread[j].kind = "reopened"
    /\ unseen' \cap seen' = {}
    /\ \A p \in AllPings' : \/ p \in d.unseen /\ p[2] \notin stale
                            \/ /\ p \in Consumers \X {n + 1} /\ p[1] \notin except
                               /\ p[1] # h /\ p \in unseen'
    /\ \A p \in d.unseen : p \in AllPings' \/ p[2] \in stale
    /\ \A p \in d.unseen : p[1] # h => p \in unseen' \/ p[2] \in stale
    /\ seen' \subseteq d.unseen
    /\ \E left : seen' = PrunedByPost(thread', h, n + 1, left)
    /\ h \in Humans =>
         \A a \in Agents \ OffLevel : d.sub[a] = "follows" /\ a \notin except =>
             <<a, n + 1>> \in unseen' \cup seen

LEMMA ClosedAfterDoes ==
    ASSUME NEW h \in Consumers, NEW n \in Nat, NEW d, NEW except, NEW stale,
           d.thread \in Seq(Messages), Len(d.thread) = n, d.unseen \cap d.seen = {},
           \A p \in d.unseen : p[2] \in 1..n,
           stale = StaleAtClose(d.thread, n + 1), ClosedAfter(d, h, except)
    PROVE  ClosedAs(d, h, except, stale, n)
<1> DEFINE c == n + 1
           post == Posted(h, "closed", 1)
           put == Append(d.thread, post)
           t == SettledByClose(put, c)
           left == WithoutMessages(d.unseen, stale)
           read == PrunedByPost(t, h, c, left)
           told == FanOut(t, c, d.sub, except)
<1>1. /\ thread' = t /\ sub' = d.sub
      /\ unseen' = (left \ read) \cup Ping(told, c)
      /\ seen' = read /\ claimant' = Nobody
  BY DEF ClosedAfter
<1>2. /\ post \in Messages /\ post.by = h /\ post.kind = "closed" /\ post.status = "approved"
      /\ post.scope = "default"
  BY PostedIs
<1> HIDE DEF post
<1>3. /\ put \in Seq(Messages) /\ Len(put) = c /\ c \in Nat /\ put[c] = post
      /\ \A j \in 1..n : put[j] = d.thread[j] /\ j # c
  BY <1>2, AppendedIs
<1> HIDE DEF put
<1>4. /\ t \in Seq(Messages) /\ Len(t) = c /\ Same(put, t, c)
      /\ \A j \in 1..c : t[j].status = IF j \in StaleAtClose(put, c) THEN "rejected" ELSE put[j].status
      /\ \A j \in 1..c : t[j].scope = put[j].scope /\ t[j].about = put[j].about
  BY <1>3, SettledIs
<1>5. stale \subseteq 1..n /\ \A j \in stale : d.thread[j].kind = "reopened"
  BY DEF StaleAtClose
<1>6. StaleAtClose(put, c) = stale
  <2>1. \A j \in 1..n + 1 - 1 : put[j] = d.thread[j]
    BY <1>3
  <2> QED
    BY <2>1 DEF StaleAtClose
<1> HIDE DEF t, left
<1>7. 1..n \subseteq 1..c /\ c \in 1..c /\ c \notin 1..n /\ c = n + 1
  BY <1>3
<1>8. read \subseteq left
  BY DEF PrunedByPost, OfConsumer
<1>9. \A p \in read : p[1] = h
  BY DEF PrunedByPost, OfConsumer
<1> HIDE DEF read, c
<1>10. /\ t[c].by = h /\ t[c].kind = "closed" /\ t[c].status = "approved" /\ t[c].scope = "default"
  BY <1>2, <1>3, <1>4, <1>5, <1>6, <1>7 DEF Same
<1>11. /\ \A j \in 1..n : t[j].status = IF j \in stale THEN "rejected" ELSE d.thread[j].status
       /\ Same(d.thread, t, n)
  BY <1>3, <1>4, <1>6, <1>7 DEF Same
<1>12. told \subseteq Consumers \ {h} /\ told \cap except = {}
  <2>1. told \subseteq Consumers \ {t[c].by}
    BY <1>4, <1>7, RecipientsAre
  <2>2. told \cap except = {}
    BY DEF FanOut
  <2> QED
    BY <1>10, <2>1, <2>2
<1>13. h \in Humans => \A a \in Agents \ OffLevel : d.sub[a] = "follows" /\ a \notin except => a \in told
  BY <1>10, FollowersHear
<1> HIDE DEF told
<1>14. /\ \A p \in Ping(told, c) : p = <<p[1], c>> /\ p[1] \in told /\ p[2] = c
       /\ \A a \in told : <<a, c>> \in Ping(told, c) \cup seen
  BY PingIs
<1>15. \A p \in Ping(told, c) : p \in Consumers \X {c} /\ p[1] \notin except /\ p[1] # h
  BY <1>12, <1>14
<1>16. /\ \A p \in left : p \in d.unseen /\ p[2] \notin stale
       /\ \A p \in d.unseen : p \in left \/ p[2] \in stale
  BY DEF left, WithoutMessages
<1>17. unseen' \cap seen' = {}
  BY <1>1, <1>7, <1>8, <1>14, <1>16
<1>18. \A p \in AllPings' : \/ p \in d.unseen /\ p[2] \notin stale
                            \/ /\ p \in Consumers \X {c} /\ p[1] \notin except /\ p[1] # h /\ p \in unseen'
  BY <1>1, <1>8, <1>15, <1>16 DEF AllPings
<1>19. /\ \A p \in d.unseen : p \in AllPings' \/ p[2] \in stale
       /\ \A p \in d.unseen : p[1] # h => p \in unseen' \/ p[2] \in stale
       /\ seen' \subseteq d.unseen
  BY <1>1, <1>8, <1>9, <1>16 DEF AllPings
<1>20. seen' = PrunedByPost(thread', h, n + 1, left)
  BY <1>1, <1>7 DEF read
<1>21. h \in Humans =>
         \A a \in Agents \ OffLevel : d.sub[a] = "follows" /\ a \notin except => <<a, c>> \in unseen' \cup seen
  BY <1>1, <1>13, <1>14
<1> QED
  BY <1>1, <1>4, <1>5, <1>7, <1>10, <1>11, <1>17, <1>18, <1>19, <1>20, <1>21 DEF ClosedAs

LEMMA VerdictSteps ==
    ASSUME Inv, NEW i \in DOMAIN thread, NEW h \in Humans, Verdict(h, i)
    PROVE  Stepped
<1>. PICK n \in Nat : n = Len(thread)
  BY ThreadIs DEF Inv, TypeOK
<1>. PICK d : d = Decided(h, i)
  OBVIOUS
<1>1. TypeOK /\ i \in 1..n /\ thread[i].by \in Consumers /\ unseen \cap seen = {}
  BY PingsAre, ThreadIs DEF Inv, TypeOK
<1>0. DecidedAs(d, h, i, n)
  BY <1>1, DecidedDoes
<1>2. /\ d.thread \in Seq(Messages) /\ Len(d.thread) = n + 1
      /\ Same(thread, d.thread, n)
      /\ \A j \in 1..n : d.thread[j].status = thread[j].status
      /\ d.thread[n + 1].by = h /\ d.thread[n + 1].status = "approved"
      /\ d.sub \in [Consumers -> Subs]
      /\ d.unseen \cap d.seen = {}
      /\ \A p \in d.unseen \cup d.seen :
           p \in AllPings \/ p = <<thread[i].by, i>> \/ p = <<thread[i].by, n + 1>>
      /\ AllPings \subseteq d.unseen \cup d.seen
      /\ \A p \in unseen : p \in d.seen => ~Younger(p)
  BY <1>0 DEF DecidedAs
<1>3. thread' = d.thread /\ sub' = d.sub /\ unseen' = d.unseen /\ seen' = d.seen
  BY DEF Verdict
<1>4. AllPings' = d.unseen \cup d.seen
  BY <1>3 DEF AllPings
<1>5. i \in 1..(n + 1) /\ n + 1 \in 1..(n + 1) /\ 1..n \subseteq 1..(n + 1)
  BY <1>1
<1>6. thread'[i].by = thread[i].by
  BY <1>1, <1>2, <1>3 DEF Same
<1>7. ASSUME NEW p \in AllPings', p \notin AllPings
      PROVE  p \in Consumers \X (1..Len(thread')) /\ Quiet(p)'
  <2>1. CASE p = <<thread[i].by, i>>
    <3>1. p[1] = thread'[p[2]].by /\ p \in Consumers \X (1..Len(thread'))
      BY <1>1, <1>2, <1>3, <1>5, <1>6, <2>1
    <3> QED
      BY <3>1 DEF Quiet
  <2>2. CASE p = <<thread[i].by, n + 1>>
    <3>1. thread'[p[2]].status = "approved" /\ p \in Consumers \X (1..Len(thread'))
      BY <1>1, <1>2, <1>3, <1>5, <2>2
    <3> QED
      BY <3>1 DEF Quiet
  <2> QED
    BY <1>2, <1>4, <1>7, <2>1, <2>2
<1>8. Grown
  <2>1. unseen \subseteq AllPings
    BY DEF AllPings
  <2>2. Len(thread') >= Len(thread)
    BY <1>2, <1>3
  <2> QED
    BY <1>2, <1>3, <1>4, <1>7, <2>1, <2>2 DEF Grown
<1>9. OneEach
  <2>1. ASSUME NEW a \in Consumers, NEW k \in 1..Len(thread'), <<a, k>> \in AllPings', <<a, k>> \notin AllPings
        PROVE  k = n + 1 \/ thread'[k].by = a
    <3>1. <<a, k>> = <<thread[i].by, i>> \/ <<a, k>> = <<thread[i].by, n + 1>>
      BY <1>2, <1>4, <2>1
    <3> QED
      BY <1>6, <3>1
  <2> QED
    BY <2>1 DEF OneEach
<1>10. Replied
  BY <1>2, <1>3 DEF Replied
<1>11. Tells
  BY <1>2, <1>3 DEF Tells
<1>12. Others
  BY <1>1, <1>2, <1>3 DEF Verdict, Others, TypeOK
<1> QED
  BY <1>8, <1>9, <1>10, <1>11, <1>12 DEF Stepped

LEMMA AcceptResolutionSteps ==
    ASSUME Inv, NEW i \in DOMAIN thread, NEW h \in Humans, AcceptResolution(h, i)
    PROVE  Stepped
<1>. PICK n \in Nat : n = Len(thread)
  BY ThreadIs DEF Inv, TypeOK
<1>. PICK by : by = thread[i].by
  OBVIOUS
<1>. PICK d : d = Decided(h, i)
  OBVIOUS
<1>. PICK stale : stale = StaleAtClose(d.thread, n + 2)
  OBVIOUS
<1>1. /\ TypeOK /\ i \in 1..n /\ by \in Consumers /\ unseen \cap seen = {}
      /\ h \in Consumers /\ h \notin Agents
  BY PingsAre, ThreadIs, PingsParameters DEF Inv, TypeOK, Consumers
<1>0. DecidedAs(d, h, i, n)
  BY <1>1, DecidedDoes
<1>2. /\ d.thread \in Seq(Messages) /\ Len(d.thread) = n + 1
      /\ Same(thread, d.thread, n)
      /\ \A j \in 1..n : d.thread[j].status = thread[j].status
      /\ d.thread[n + 1].status = "approved" /\ d.thread[n + 1].kind = "verdict"
      /\ d.sub \in [Consumers -> Subs] /\ \A a \in Agents : d.sub[a] = sub[a]
      /\ d.unseen \cap d.seen = {}
  BY <1>0 DEF DecidedAs
<1>3. /\ \A p \in d.unseen \cup d.seen : p \in AllPings \/ p = <<by, i>> \/ p = <<by, n + 1>>
      /\ AllPings \subseteq d.unseen \cup d.seen
      /\ \A p \in d.seen : p \in seen \/ p[1] = h
      /\ by \in Agents \ OffLevel /\ sub[by] = "follows" => <<by, n + 1>> \in d.unseen
  BY <1>0 DEF DecidedAs
<1>4. /\ i \in 1..(n + 1) /\ n + 1 \in 1..(n + 1) /\ 1..n \subseteq 1..(n + 1) /\ n + 1 \in Nat
      /\ n + 1 + 1 = n + 2 /\ n + 1 \notin 1..n /\ n + 2 \notin 1..(n + 1) /\ i # n + 1
      /\ 1..(n + 1) \subseteq 1..(n + 2) /\ n + 2 \in 1..(n + 2) /\ n + 2 - 1 = n + 1 /\ n + 2 # n + 1
  BY <1>1
<1>5. \A p \in AllPings : p[2] \in 1..n
  BY <1>1, PingsAre
<1>6. \A p \in d.unseen : p[2] \in 1..(n + 1)
  BY <1>3, <1>4, <1>5
<1>7. ClosedAfter(d, h, {by})
  BY DEF AcceptResolution
<1>8. ClosedAs(d, h, {by}, stale, n + 1)
  BY <1>1, <1>2, <1>4, <1>6, <1>7, ClosedAfterDoes
<1>9. /\ thread' \in Seq(Messages) /\ Len(thread') = n + 2
      /\ Same(d.thread, thread', n + 1)
      /\ \A j \in 1..(n + 1) : thread'[j].status = IF j \in stale THEN "rejected" ELSE d.thread[j].status
      /\ thread'[n + 2].status = "approved"
      /\ sub' = d.sub /\ claimant' = Nobody
      /\ stale \subseteq 1..(n + 1) /\ \A j \in stale : d.thread[j].kind = "reopened"
      /\ unseen' \cap seen' = {}
  BY <1>4, <1>8 DEF ClosedAs
<1>10. /\ \A p \in AllPings' : \/ p \in d.unseen /\ p[2] \notin stale
                               \/ p \in Consumers \X {n + 2} /\ p[1] # by
       /\ \A p \in d.unseen : p \in AllPings' \/ p[2] \in stale
       /\ \A p \in d.unseen : p[1] # h => p \in unseen' \/ p[2] \in stale
       /\ \A a \in Agents \ OffLevel : d.sub[a] = "follows" /\ a # by => <<a, n + 2>> \in unseen' \cup seen
  BY <1>4, <1>8 DEF ClosedAs
<1>11. thread'[i].by = by /\ n + 1 \notin stale /\ Same(thread, thread', n)
  <2>1. n + 1 \notin stale
    BY <1>2, <1>9
  <2>2. Same(thread, thread', n)
    BY <1>2, <1>4, <1>9 DEF Same
  <2> QED
    BY <1>1, <2>1, <2>2 DEF Same
<1>12. \A p \in AllPings' : p \notin AllPings =>
         \/ p = <<by, i>> \/ p = <<by, n + 1>> \/ (p \in Consumers \X {n + 2} /\ p[1] # by)
  BY <1>3, <1>10
<1>13. ASSUME NEW p \in AllPings', p \notin AllPings
       PROVE  p \in Consumers \X (1..Len(thread')) /\ Quiet(p)'
  <2>1. CASE p = <<by, i>>
    <3>1. p[1] = thread'[p[2]].by /\ p \in Consumers \X (1..Len(thread'))
      BY <1>1, <1>4, <1>9, <1>11, <2>1
    <3> QED
      BY <3>1 DEF Quiet
  <2>2. CASE p = <<by, n + 1>>
    <3>1. thread'[p[2]].status = "approved" /\ p \in Consumers \X (1..Len(thread'))
      BY <1>1, <1>2, <1>4, <1>9, <1>11, <2>2
    <3> QED
      BY <3>1 DEF Quiet
  <2>3. CASE p \in Consumers \X {n + 2}
    <3>1. p[2] = n + 2 /\ p \in Consumers \X (1..Len(thread'))
      BY <1>4, <1>9, <2>3
    <3> QED
      BY <1>9, <3>1 DEF Quiet
  <2> QED
    BY <1>12, <1>13, <2>1, <2>2, <2>3
<1>14. ASSUME NEW p \in unseen, p[1] \in Agents PROVE p \in AllPings' \/ thread'[p[2]].status = "rejected"
  <2>1. p \in AllPings /\ p \notin seen /\ p[1] # h /\ p[2] \in 1..n
    BY <1>1, <1>5, <1>14 DEF AllPings
  <2>2. p \in d.unseen
    BY <1>3, <2>1
  <2>3. p[2] \in stale => thread'[p[2]].status = "rejected"
    BY <1>4, <1>9, <2>1
  <2> QED
    BY <1>10, <2>2, <2>3
<1>15. Grown
  <2>1. ASSUME NEW j \in 1..n
        PROVE  \/ thread'[j].status = thread[j].status
               \/ /\ thread'[j].status = "rejected"
                  /\ \A p \in AllPings' : p[2] # j
    <3>1. CASE j \in stale
      <4>1. thread'[j].status = "rejected"
        BY <1>4, <1>9, <3>1
      <4>2. \A p \in AllPings' : p[2] # j
        BY <1>4, <1>10, <2>1, <3>1
      <4> QED
        BY <4>1, <4>2
    <3>2. CASE j \notin stale
      BY <1>2, <1>4, <1>9, <3>2
    <3> QED
      BY <3>1, <3>2
  <2>2. Len(thread') >= Len(thread)
    BY <1>9
  <2> QED
    BY <1>9, <1>11, <1>13, <1>14, <2>1, <2>2 DEF Grown
<1>16. OneEach
  <2>1. ASSUME NEW a \in Consumers
        PROVE  \E x : \A k \in 1..Len(thread') :
                 <<a, k>> \in AllPings' /\ <<a, k>> \notin AllPings => k = x \/ thread'[k].by = a
    <3>1. ASSUME NEW k \in 1..Len(thread'), <<a, k>> \in AllPings', <<a, k>> \notin AllPings
          PROVE  (a = by /\ (k = i \/ k = n + 1)) \/ (a # by /\ k = n + 2)
      <4>1. \/ <<a, k>> = <<by, i>> \/ <<a, k>> = <<by, n + 1>>
            \/ (<<a, k>> \in Consumers \X {n + 2} /\ <<a, k>>[1] # by)
        BY <1>12, <3>1
      <4> QED
        BY <4>1
    <3>2. CASE a = by
      <4>1. ASSUME NEW k \in 1..Len(thread'), <<a, k>> \in AllPings', <<a, k>> \notin AllPings
            PROVE  k = n + 1 \/ thread'[k].by = a
        BY <1>11, <3>1, <3>2, <4>1
      <4> WITNESS n + 1
      <4> QED
        BY <4>1
    <3>3. CASE a # by
      <4>1. ASSUME NEW k \in 1..Len(thread'), <<a, k>> \in AllPings', <<a, k>> \notin AllPings
            PROVE  k = n + 2 \/ thread'[k].by = a
        BY <3>1, <3>3, <4>1
      <4> WITNESS n + 2
      <4> QED
        BY <4>1
    <3> QED
      BY <3>2, <3>3
  <2> QED
    BY <2>1 DEF OneEach
<1>17. Replied
  BY <1>4, <1>9 DEF Replied
<1>18. Tells
  <2>1. ASSUME NEW a \in Agents \ OffLevel, sub[a] = "follows"
        PROVE  \E x \in {n + 1, n + 2} :
                 /\ <<a, x>> \in unseen' /\ <<a, x>> \notin AllPings
                 /\ \A k \in {n + 1, n + 2} : k # x => <<a, k>> \notin unseen'
    <3>0. /\ <<a, n + 1>> \notin AllPings /\ <<a, n + 2>> \notin AllPings
          /\ <<a, n + 2>> \notin d.unseen
      <4>1. <<a, n + 1>>[2] = n + 1 /\ <<a, n + 2>>[2] = n + 2 /\ n + 2 \notin 1..n
        BY <1>4
      <4> QED
        BY <1>4, <1>5, <1>6, <4>1
    <3>1. CASE a = by
      <4>1. <<a, n + 1>> \in d.unseen /\ <<a, n + 1>>[1] # h /\ <<a, n + 1>>[2] \notin stale
        BY <1>1, <1>3, <1>11, <2>1, <3>1
      <4>2. <<a, n + 1>> \in unseen'
        BY <1>10, <4>1
      <4>3. <<a, n + 2>> \notin unseen'
        <5>1. <<a, n + 2>>[1] = by
          BY <3>1
        <5> QED
          BY <1>10, <3>0, <5>1 DEF AllPings
      <4> QED
        BY <3>0, <4>2, <4>3
    <3>2. CASE a # by
      <4>1. <<a, n + 2>> \in unseen'
        BY <1>2, <1>10, <2>1, <3>0, <3>2 DEF AllPings
      <4>2. <<a, n + 1>> \notin unseen'
        <5>1. <<a, n + 1>> # <<by, i>> /\ <<a, n + 1>> # <<by, n + 1>> /\ <<a, n + 1>>[2] # n + 2
          BY <1>4, <3>2
        <5> QED
          BY <1>12, <3>0, <5>1 DEF AllPings
      <4> QED
        BY <3>0, <4>1, <4>2
    <3> QED
      BY <3>1, <3>2
  <2> QED
    BY <1>4, <1>9, <2>1 DEF Tells
<1>19. Others
  BY <1>1, <1>2, <1>9 DEF AcceptResolution, Others, TypeOK
<1> QED
  BY <1>15, <1>16, <1>17, <1>18, <1>19 DEF Stepped

LEMMA AcceptAndCloseSteps ==
    ASSUME Inv, NEW i \in DOMAIN thread, NEW h \in Consumers, AcceptAndClose(h, i)
    PROVE  Stepped
<1>. PICK n \in Nat : n = Len(thread)
  BY ThreadIs DEF Inv, TypeOK
<1> DEFINE now == Approved(thread, i)
           who == AtApproval(now, i, sub) \cup NotifyDecision(now, i, h)
           told == Ping(who, i)
<1>. PICK d : d = [thread |-> now, sub |-> [sub EXCEPT ![h] = "follows"], unseen |-> unseen \cup told, seen |-> seen]
  OBVIOUS
<1>1. TypeOK /\ thread \in Seq(Messages) /\ i \in 1..n /\ unseen \cap seen = {}
  BY PingsAre DEF Inv, TypeOK
<1>2. /\ d.thread = now /\ d.unseen = unseen \cup told /\ d.seen = seen
      /\ d.sub = [sub EXCEPT ![h] = "follows"]
  OBVIOUS
<1>3. \/ ClosedAfter(d, h, Consumers)
      \/ thread' = now /\ unseen' = d.unseen /\ UNCHANGED <<sub, claimant, seen>>
  BY DEF AcceptAndClose
<1>4. /\ now \in Seq(Messages) /\ Len(now) = n
      /\ Same(thread, now, n) /\ now[i].status = "approved" /\ now[i].by = thread[i].by
      /\ \A j \in 1..n : j # i => now[j] = thread[j]
  BY <1>1, ApprovedIs DEF Same
<1> HIDE DEF now
<1>5. who \subseteq Consumers
  <2>1. AtApproval(now, i, sub) \subseteq Consumers /\ now[i].by \in Consumers
    BY <1>1, <1>4, RecipientsAre, ThreadIs
  <2> QED
    BY <2>1, DecisionIs
<1> HIDE DEF who
<1>6. \A p \in told : p \in Consumers \X {i} /\ p[2] = i /\ p \notin seen
  BY <1>5, PingIs
<1> HIDE DEF told
<1>7. UNCHANGED <<assignee, focusAway, gestures>>
  BY DEF AcceptAndClose
<1>8. CASE thread' = now /\ unseen' = d.unseen /\ UNCHANGED <<sub, claimant, seen>>
  <2>1. Others
    BY OthersStay, <1>1, <1>7, <1>8 DEF TypeOK
  <2> QED
    BY <1>1, <1>2, <1>4, <1>6, <1>8, <2>1, Moderated DEF AllPings
<1>9. CASE ClosedAfter(d, h, Consumers)
  <2>. PICK stale : stale = StaleAtClose(d.thread, n + 1)
    OBVIOUS
  <2>0. \A p \in AllPings : p[2] \in 1..n
    BY <1>1, PingsAre
  <2>1. (\A p \in d.unseen : p[2] \in 1..n) /\ d.unseen \cap d.seen = {}
    BY <1>1, <1>2, <1>6, <2>0 DEF AllPings
  <2>2. ClosedAs(d, h, Consumers, stale, n)
    BY <1>2, <1>4, <1>9, <2>1, ClosedAfterDoes
  <2>3. /\ thread' \in Seq(Messages) /\ Len(thread') = n + 1
        /\ Same(d.thread, thread', n)
        /\ \A j \in 1..n : thread'[j].status = IF j \in stale THEN "rejected" ELSE d.thread[j].status
        /\ thread'[n + 1].by = h
        /\ sub' = d.sub /\ claimant' = Nobody
        /\ unseen' \cap seen' = {}
        /\ stale \subseteq 1..n
    BY <2>2 DEF ClosedAs
  <2>4. /\ \A p \in AllPings' : p \in d.unseen /\ p[2] \notin stale
        /\ \A p \in d.unseen : p \in AllPings' \/ p[2] \in stale
        /\ \E left : seen' = PrunedByPost(thread', h, n + 1, left)
    BY <2>2 DEF ClosedAs
  <2>5. Same(thread, thread', n)
    BY <1>2, <1>4, <2>3 DEF Same
  <2>6. \A p \in AllPings' : p \in AllPings \/ (p \in Consumers \X {i} /\ p[2] = i)
    BY <1>2, <1>6, <2>4 DEF AllPings
  <2>7. ASSUME NEW j \in 1..n
        PROVE  \/ thread'[j].status = thread[j].status \/ thread'[j].status = "approved"
               \/ /\ thread'[j].status = "rejected"
                  /\ \A p \in AllPings' : p[2] # j
    <3>1. CASE j \in stale
      BY <2>3, <2>4, <3>1
    <3>2. CASE j \notin stale
      BY <1>2, <1>4, <2>3, <3>2
    <3> QED
      BY <3>1, <3>2
  <2>8. ASSUME NEW p \in AllPings', p \notin AllPings
        PROVE  p \in Consumers \X (1..Len(thread')) /\ Quiet(p)'
    <3>1. p \in Consumers \X {i} /\ p[2] = i /\ i \notin stale
      BY <2>4, <2>6, <2>8
    <3>2. thread'[i].status = "approved" /\ i \in 1..Len(thread')
      BY <1>1, <1>2, <1>4, <2>3, <3>1
    <3> QED
      BY <3>1, <3>2 DEF Quiet
  <2>9. ASSUME NEW p \in unseen PROVE p \in AllPings' \/ thread'[p[2]].status = "rejected"
    <3>1. p[2] \in 1..n /\ p \in d.unseen
      BY <1>2, <2>0 DEF AllPings
    <3> QED
      BY <2>3, <2>4, <3>1
  <2>10. Grown
    <3>1. Len(thread') >= Len(thread)
      BY <2>3
    <3> QED
      BY <2>3, <2>5, <2>7, <2>8, <2>9, <3>1 DEF Grown
  <2>11. OneEach
    <3>1. ASSUME NEW a \in Consumers, NEW k \in 1..Len(thread'), <<a, k>> \in AllPings', <<a, k>> \notin AllPings
          PROVE  k = i
      <4>1. <<a, k>>[2] = i
        BY <2>6, <3>1
      <4> QED
        BY <4>1
    <3> QED
      BY <3>1 DEF OneEach
  <2>12. Replied
    <3>1. ASSUME NEW p \in unseen, Younger(p) PROVE p \notin seen'
      <4>1. PICK left : seen' = PrunedByPost(thread', h, n + 1, left)
        BY <2>4
      <4>2. \A q \in PrunedByPost(thread', h, n + 1, left) : q[2] \in Nat => ~Younger(q)
        BY <2>5, PrunedIs
      <4>3. p[2] \in Nat
        BY <2>0, <3>1 DEF AllPings
      <4> QED
        BY <3>1, <4>1, <4>2, <4>3
    <3> QED
      BY <3>1 DEF Replied
  <2>13. Tells
    BY <2>3 DEF Tells
  <2>14. Others
    <3>1. sub' \in [Consumers -> Subs]
      BY <1>1, <1>2, <2>3 DEF TypeOK, Subs
    <3> QED
      BY <1>1, <1>7, <2>3, <3>1 DEF Others, TypeOK
  <2> QED
    BY <2>10, <2>11, <2>12, <2>13, <2>14 DEF Stepped
<1> QED
  BY <1>3, <1>8, <1>9

-----------------------------------------------------------------------------
(* The specification.                                                      *)

LEMMA InitInv == Init => Inv
<1> SUFFICES ASSUME Init PROVE Inv
  OBVIOUS
<1>1. thread \in Seq(Messages) /\ unseen = {} /\ seen = {}
  BY DEF Init
<1> QED
  BY <1>1 DEF Init, Inv, TypeOK, QuietUntilApproved

LEMMA NextSteps == Inv /\ [Next]_vars => Stepped
<1> SUFFICES ASSUME Inv, [Next]_vars PROVE Stepped
  OBVIOUS
<1>1. ASSUME NEW c \in Consumers, NEW kind \in {"closed", "reopened"}, Lifecycle(c, kind) PROVE Stepped
  BY <1>1, LifecycleSteps
<1>2. ASSUME NEW c \in Consumers, NEW scope \in Scopes, NEW names \in Mentions,
             NEW to \in Owners \cup {Nobody}, FileTicket(c, scope, names, to)
      PROVE  Stepped
  BY <1>2, FileTicketSteps
<1>3. ASSUME NEW c \in Consumers, NEW scope \in Scopes, NEW names \in Mentions,
             NEW keeps \in BOOLEAN, NEW asks \in Proposals \cup {"nothing"},
             Comment(c, scope, names, keeps, asks)
      PROVE  Stepped
  BY <1>3, CommentSteps
<1>4. ASSUME NEW i \in DOMAIN thread, NEW h \in Humans,
             Approve(h, i) \/ Reject(h, i) \/ Verdict(h, i) \/ AcceptResolution(h, i)
      PROVE  Stepped
  BY <1>4, ApproveSteps, RejectSteps, VerdictSteps, AcceptResolutionSteps
<1>5. ASSUME NEW i \in DOMAIN thread, NEW c \in Consumers, AcceptAndClose(c, i) \/ Vote(c, i) PROVE Stepped
  BY <1>5, AcceptAndCloseSteps, VoteSteps
<1>6. ASSUME \/ \E c \in Consumers : \/ \E state \in {"none", "follows", "muted"} : Subscribe(c, state)
                                     \/ \E upTo \in DOMAIN thread : MarkSeen(c, upTo)
                                     \/ MarkTicketUnseen(c)
             \/ \E i \in DOMAIN thread : Resurface(i)
             \/ SetFocus
             \/ \E a \in Agents : AckWake(a)
             \/ UNCHANGED vars
      PROVE  Stepped
  BY <1>6, MarksStep
<1> QED
  BY <1>1, <1>2, <1>3, <1>4, <1>5, <1>6 DEF Next

LEMMA Invariance == Spec => []Inv
<1>1. Inv /\ [Next]_vars => Inv'
  BY NextSteps, GrownKeeps DEF Stepped, Others
<1> QED
  BY InitInv, <1>1, PTL DEF Spec

(* Every ping is on a message that is there, once, read or not; the       *)
(* messages, follows and holders are of their kinds, whatever the order    *)
(* of posts, decisions, closes, votes and marks.                           *)
THEOREM TypeCorrect == Spec => []TypeOK
BY Invariance, PTL DEF Inv

(* notifications.ts: what waits for moderation is for people and its own   *)
(* author, and what was refused for its author alone.                      *)
THEOREM QuietHolds == Spec => []QuietUntilApproved
BY Invariance, PTL DEF Inv

LEMMA OneOrNone ==
    ASSUME NEW s, NEW x, s \subseteq {x} PROVE Cardinality(s) <= 1
<1>1. s = {} \/ s = {x}
  OBVIOUS
<1>2. Cardinality({}) = 0 /\ Cardinality({x}) = 1
  BY FS_EmptySet, FS_Singleton
<1> QED
  BY <1>1, <1>2

(* messages.ts:881: one call of the daemon wakes an agent for one event of *)
(* the ticket at most: of the proposal, the verdict and the close, its     *)
(* author's wake list gains the verdict and anybody else's the close.      *)
THEOREM OneWake == Spec => OneWakePerGesture
<1> DEFINE Once == \A a \in Agents : Cardinality(NewPings(a) \cap WakeList(a)') <= 1
<1>1. Inv /\ [Next]_vars => Once
  <2> SUFFICES ASSUME Inv, [Next]_vars, NEW a \in Agents
               PROVE  Cardinality(NewPings(a) \cap WakeList(a)') <= 1
    OBVIOUS
  <2>1. OneEach /\ Grown
    BY NextSteps DEF Stepped
  <2>2. DOMAIN thread' = 1..Len(thread')
    BY <2>1, ThreadIs DEF Grown
  <2>3. PICK x : \A i \in 1..Len(thread') :
          <<a, i>> \in AllPings' /\ <<a, i>> \notin AllPings => i = x \/ thread'[i].by = a
    BY <2>1 DEF OneEach, Consumers
  <2>4. \A i \in NewPings(a) : i \in 1..Len(thread') /\ <<a, i>> \in AllPings' /\ <<a, i>> \notin AllPings
    BY <2>2 DEF NewPings, AllPings
  <2>5. \A i \in WakeList(a)' : thread'[i].by # a
    BY DEF WakeList, UnreadList, SelfAuthored
  <2>6. NewPings(a) \cap WakeList(a)' \subseteq {x}
    BY <2>3, <2>4, <2>5
  <2> QED
    BY <2>6, OneOrNone
<1> QED
  BY Invariance, <1>1, PTL DEF Spec, OneWakePerGesture

(* bus/methods/message.ts:747: an accepted resolution reaches each agent   *)
(* that follows the ticket by one of its two messages.                     *)
THEOREM CloseReaches == Spec => CloseReachesEachOnce
<1> DEFINE Reached == Len(thread') = Len(thread) + 2
       => \A a \in Agents \ OffLevel :
            sub[a] = "follows" => Cardinality(NewPings(a) \cap {Len(thread') - 1, Len(thread')}) = 1
<1>1. Inv /\ [Next]_vars => Reached
  <2> SUFFICES ASSUME Inv, [Next]_vars, Len(thread') = Len(thread) + 2,
                      NEW a \in Agents \ OffLevel, sub[a] = "follows"
               PROVE  Cardinality(NewPings(a) \cap {Len(thread') - 1, Len(thread')}) = 1
    OBVIOUS
  <2>1. Tells /\ Grown
    BY NextSteps DEF Stepped
  <2>2. DOMAIN thread' = 1..Len(thread') /\ Len(thread') \in Nat /\ Len(thread) \in Nat
    BY <2>1, ThreadIs DEF Grown, Inv, TypeOK
  <2>3. PICK x \in {Len(thread') - 1, Len(thread')} :
          /\ <<a, x>> \in unseen' /\ <<a, x>> \notin AllPings
          /\ \A i \in {Len(thread') - 1, Len(thread')} : i # x => <<a, i>> \notin unseen'
    BY <2>1 DEF Tells
  <2>4. x \in 1..Len(thread')
    BY <2>2, <2>3
  <2>5. NewPings(a) \cap {Len(thread') - 1, Len(thread')} = {x}
    BY <2>2, <2>3, <2>4 DEF NewPings, AllPings
  <2> QED
    BY <2>5, FS_Singleton
<1> QED
  BY Invariance, <1>1, PTL DEF Spec, CloseReachesEachOnce

(* What an agent has not read yet outlives every post, verdict and close,  *)
(* and goes only with a message that is refused.                           *)
THEOREM UnreadOutlives == Spec => UnreadOutlivesTheClose
<1> DEFINE Outlives == \A p \in unseen :
        p[1] \in Agents /\ p \notin unseen' \cup seen' => thread'[p[2]].status = "rejected"
<1>1. Inv /\ [Next]_vars => Outlives
  <2> SUFFICES ASSUME Inv, [Next]_vars, NEW p \in unseen, p[1] \in Agents, p \notin unseen' \cup seen'
               PROVE  thread'[p[2]].status = "rejected"
    OBVIOUS
  <2>1. Grown
    BY NextSteps DEF Stepped
  <2>2. p \in AllPings' \/ thread'[p[2]].status = "rejected"
    BY <2>1 DEF Grown
  <2> QED
    BY <2>2 DEF AllPings
<1> QED
  BY Invariance, <1>1, PTL DEF Spec, UnreadOutlivesTheClose

(* #1323: what came after an author's previous message is still unread     *)
(* when its next one is posted, be it a comment, a verdict or a close.     *)
THEOREM ReplyKeeps == Spec => ReplyKeepsWhatCameMeanwhile
<1> DEFINE Kept == \A c \in Consumers :
        /\ Len(thread') = Len(thread) + 1 /\ thread'[Len(thread')].by = c
        /\ LastAuthored(thread, c, Len(thread) + 1) > 0
        => \A p \in OfConsumer(unseen, c) :
            p[2] > LastAuthored(thread, c, Len(thread) + 1) => p \in unseen' \/ p \notin seen'
<1>1. Inv /\ [Next]_vars => Kept
  BY NextSteps DEF Stepped, Replied, Younger, OfConsumer
<1> QED
  BY Invariance, <1>1, PTL DEF Spec, ReplyKeepsWhatCameMeanwhile
=============================================================================
