-------------------------- MODULE MockGibworkProofs --------------------------
(***************************************************************************)
(* Theorems of MockGibwork, for any number of invocations, confirmations   *)
(* and ticks, any bounties and any wallet.                                 *)
(*                                                                         *)
(* Money is neither made nor lost (Conserved), and the state has its type, *)
(* whether or not invocations overlap: each works on a whole state of its  *)
(* own and saves a whole state, so that it is enough that every state      *)
(* somebody holds is a sound one (Sound) and that what a session prepared  *)
(* is sound in its own copy (Session).  A save may then lose a bounty, but *)
(* with it the payment for it.                                             *)
(*                                                                         *)
(* UsedOnceInTime, SettledIsKept and MockKeepsWord speak of the file, and  *)
(* need that no save is lost: invocations that run one at a time (Alone),  *)
(* whose copy is the file (MemoryIsFile).                                  *)
(***************************************************************************)
EXTENDS MockGibwork, FoldProofs

\* The bounties that are funded and not refunded.
InEscrow(tasks) == {t \in DOMAIN tasks : tasks[t].is_open}

\* What the bounties of a state are worth.
Worth(tasks) == [t \in DOMAIN tasks |-> tasks[t].amount]

Task == [is_open : BOOLEAN, amount : Amounts]

\* A state of an open adapter, or of the file, after n confirmations were issued.
Formed(s, n) ==
  /\ s = [state |-> "open", balance |-> s.balance, pending |-> s.pending, tasks |-> s.tasks]
  /\ s.balance \in Nat
  /\ s.pending \in [DOMAIN s.pending -> Confirmation]
  /\ s.tasks \in [DOMAIN s.tasks -> Task]
  /\ DOMAIN s.pending \subseteq 1..n

\* Each create makes the task of its own number when it is used, and each refund
\* is for a task as it was made, which is closed when the refund is used.
Consistent(s) ==
  /\ \A t \in DOMAIN s.tasks :
       t \in DOMAIN s.pending /\ s.pending[t].kind = "task_create" /\ s.pending[t].consumed
  /\ \A c \in DOMAIN s.pending :
       LET conf == s.pending[c]
       IN /\ conf.kind = "task_create" =>
               conf.task = c /\ (conf.consumed => c \in DOMAIN s.tasks)
          /\ conf.kind = "task_refund" =>
               /\ conf.task \in DOMAIN s.tasks
               /\ conf.amount = s.tasks[conf.task].amount
               /\ conf.consumed => ~s.tasks[conf.task].is_open

Balanced(s) == s.balance + Sum(Worth(s.tasks), InEscrow(s.tasks)) = Balance

Sound(s, n) == Formed(s, n) /\ Consistent(s) /\ Balanced(s)

\* What an invocation prepared it finds in its own state, not used unless its
\* submit has ended, and what it prepared a refund of is then still open.  No
\* two prepared the same.
Session(i) ==
  /\ memory[i] = Closed => prepared[i] = {}
  /\ \A c, d \in prepared[i] : c = d
  /\ \A c \in prepared[i] :
       LET conf == memory[i].pending[c]
       IN /\ c \in DOMAIN memory[i].pending
          /\ conf.consumed <=> \E use \in told : use.conf = c
          /\ conf.kind = "task_refund" /\ ~conf.consumed => memory[i].tasks[conf.task].is_open
  /\ \A j \in Invocations \ {i} : prepared[j] \cap prepared[i] = {}

\* A submit ends once.
ToldOnce ==
  /\ \A use \in told : use.conf \in 1..issued
  /\ \A use, other \in told : use.conf = other.conf => use = other

\* The inductive invariant, for any invocations.
MInv ==
  /\ Sound(file, issued)
  /\ memory = [i \in Invocations |-> memory[i]]
  /\ \A i \in Invocations : memory[i] = Closed \/ Sound(memory[i], issued)
  /\ prepared \in [Invocations -> SUBSET Ids]
  /\ issued \in 0..MaxIssued
  /\ now \in 0..MaxNow
  /\ told \subseteq [conf : Ids, at : 0..MaxNow, word : {"submitted", "failed"}]
  /\ \A i \in Invocations : Session(i)
  /\ ToldOnce

\* One invocation at a time.
Alone == \A i, j \in Invocations : memory[i] # Closed /\ memory[j] # Closed => i = j

\* What the one works on is what the file holds.
MemoryIsFile == \A i \in Invocations : memory[i] = Closed \/ memory[i] = file

\* The file knows of every submit that ended what came of it.
FileKnows ==
  /\ \A use \in told :
       IF use.word = "submitted"
       THEN /\ use.conf \in DOMAIN file.pending
            /\ file.pending[use.conf].consumed
            /\ use.at < file.pending[use.conf].expires
       ELSE use.conf \in DOMAIN file.pending => ~file.pending[use.conf].consumed
  /\ \A c \in DOMAIN file.pending : file.pending[c].consumed =>
       \E use \in told : use.conf = c /\ use.word = "submitted"

\* The inductive invariant for invocations that run one at a time.
OInv == MInv /\ Alone /\ MemoryIsFile /\ FileKnows

(***************************************************************************)
(* Lemmas about the states of an adapter.                                  *)
(***************************************************************************)
\* A sound state is not Closed, and holds finitely many tasks.
LEMMA SoundIs ==
  ASSUME NEW n \in Nat, NEW s, Sound(s, n)
  PROVE  /\ s # Closed
         /\ IsFiniteSet(DOMAIN s.tasks)
         /\ IsFiniteSet(InEscrow(s.tasks))
         /\ \A t \in InEscrow(s.tasks) : Worth(s.tasks)[t] \in Nat
<1>1. s.state = "open" /\ Closed.state = "closed"
  <2>1. Formed(s, n)
    BY DEF Sound
  <2>. QED
    BY <2>1 DEF Formed, Closed
<1>2. DOMAIN s.tasks \subseteq 1..n
  BY DEF Sound, Formed, Consistent
<1>3. IsFiniteSet(1..n)
  BY FS_Interval
<1>4. IsFiniteSet(DOMAIN s.tasks) /\ InEscrow(s.tasks) \subseteq DOMAIN s.tasks
  BY <1>2, <1>3, FS_Subset DEF InEscrow
<1>5. IsFiniteSet(InEscrow(s.tasks))
  BY <1>4, FS_Subset
<1>6. \A t \in DOMAIN s.tasks : Worth(s.tasks)[t] \in Nat
  BY MockGibworkAssumption DEF Sound, Formed, Task, Worth
<1>. QED
  BY <1>1, <1>4, <1>5, <1>6

\* The sum that Conserved takes is the one of Balanced.
LEMMA EscrowSum ==
  ASSUME NEW f, IsFiniteSet(InEscrow(f))
  PROVE  MapThenSumSet(LAMBDA t : f[t].amount, InEscrow(f)) = Sum(Worth(f), InEscrow(f))
<1> DEFINE E == InEscrow(f)
           Fold(h) == h = [s \in SUBSET E |-> IF s = {} THEN 0 ELSE f[Pick(s)].amount + h[s \ {Pick(s)}]]
           iter == CHOOSE h : Fold(h)
<1>1. MapThenSumSet(LAMBDA t : f[t].amount, E) = iter[E]
  BY DEF MapThenSumSet, MapThenFoldSet, Pick
<1>2. \A s \in SUBSET E : s # {} => f[Pick(s)].amount = Worth(f)[Pick(s)]
  BY PickIn DEF Worth, InEscrow
<1>. HIDE DEF E
<1>3. \A h : Fold(h) <=> Sums(h, Worth(f), E)
  <2>. SUFFICES ASSUME NEW h
                PROVE  Fold(h) <=> Sums(h, Worth(f), E)
    OBVIOUS
  <2>1. [s \in SUBSET E |-> IF s = {} THEN 0 ELSE f[Pick(s)].amount + h[s \ {Pick(s)}]]
          = [s \in SUBSET E |-> IF s = {} THEN 0 ELSE Worth(f)[Pick(s)] + h[s \ {Pick(s)}]]
    BY <1>2
  <2>. QED
    BY <2>1 DEF Sums
<1>4. IsFiniteSet(E)
  BY DEF E
<1>5. \E h : Fold(h)
  <2>. HIDE DEF Fold
  <2>. QED
    BY <1>3, <1>4, SumExists
<1>6. Sums(iter, Worth(f), E)
  <2>1. Fold(iter)
    <3>. HIDE DEF Fold
    <3>. QED
      BY <1>5
  <2>. HIDE DEF Fold, iter
  <2>. QED
    BY <1>3, <2>1
<1>. HIDE DEF iter, Fold
<1>7. Sum(Worth(f), E) = iter[E]
  BY <1>4, <1>6, SumOf
<1>. QED
  BY <1>1, <1>7 DEF E

\* More confirmations make no state unsound.
LEMMA SoundLater ==
  ASSUME NEW n \in Nat, NEW s, Sound(s, n)
  PROVE  Sound(s, n + 1)
<1>1. 1..n \subseteq 1..n+1
  OBVIOUS
<1>. QED
  BY <1>1 DEF Sound, Formed

\* The state with a confirmation marked as consumed.
LEMMA TakenIs ==
  ASSUME NEW n, NEW s, Formed(s, n), NEW c \in DOMAIN s.pending
  PROVE  Taken(s, c) = [ state |-> "open", balance |-> s.balance,
                         pending |-> [s.pending EXCEPT ![c] = [s.pending[c] EXCEPT !.consumed = TRUE]],
                         tasks |-> s.tasks ]
<1>1. PICK b, p, t : s = [state |-> "open", balance |-> b, pending |-> p, tasks |-> t]
  BY DEF Formed
<1>2. s.balance = b /\ s.pending = p /\ s.tasks = t
  BY <1>1
<1>3. Taken(s, c) = [ state |-> "open", balance |-> b,
                      pending |-> [p EXCEPT ![c] = [p[c] EXCEPT !.consumed = TRUE]], tasks |-> t ]
  <2> DEFINE used == [p EXCEPT ![c] = [p[c] EXCEPT !.consumed = TRUE]]
  <2>1. Taken(s, c) = [s EXCEPT !.pending = [s.pending EXCEPT ![c] = [s.pending[c] EXCEPT !.consumed = TRUE]]]
    BY Zenon DEF Taken
  <2>2. Taken(s, c) = [s EXCEPT !.pending = used]
    BY <1>2, <2>1
  <2>. HIDE DEF used
  <2>3. Taken(s, c) = [state |-> "open", balance |-> b, pending |-> used, tasks |-> t]
    BY <1>1, <2>2
  <2>. QED
    BY <2>3 DEF used
<1>. QED
  BY <1>2, <1>3

\* A record written out has its fields.
Written(b, p, t) == [state |-> "open", balance |-> b, pending |-> p, tasks |-> t]

\* What Issue saves, written out.
LEMMA IssuedIs ==
  ASSUME NEW n, NEW s, Formed(s, n), NEW c, NEW conf
  PROVE  [s EXCEPT !.pending = Extended(@, c, conf)]
           = Written(s.balance, Extended(s.pending, c, conf), s.tasks)
<1>1. PICK b, p, t : s = Written(b, p, t)
  BY DEF Formed, Written
<1>2. s.balance = b /\ s.pending = p /\ s.tasks = t
  BY <1>1 DEF Written
<1> DEFINE q == Extended(s.pending, c, conf)
<1>3. [s EXCEPT !.pending = Extended(@, c, conf)] = [s EXCEPT !.pending = q]
  BY Zenon
<1>. HIDE DEF q
<1>4. [s EXCEPT !.pending = q] = Written(b, q, t)
  BY <1>1 DEF Written
<1>5. q = Extended(s.pending, c, conf)
  BY DEF q
<1>. QED
  BY <1>2, <1>3, <1>4, <1>5

\* Consuming a confirmation leaves the wallet and the tasks.
LEMMA TakenLeaves ==
  ASSUME NEW n, NEW s, Formed(s, n), NEW c \in DOMAIN s.pending
  PROVE  Taken(s, c) = Written(s.balance, Taken(s, c).pending, s.tasks)
<1>1. PICK q : Taken(s, c) = Written(s.balance, q, s.tasks)
  BY TakenIs DEF Written
<1>2. Taken(s, c).pending = q
  BY <1>1 DEF Written
<1>. QED
  BY <1>1, <1>2

\* prepare_task and prepare_refund leave a sound state sound.
LEMMA PrepareSound ==
  ASSUME NEW n \in Nat, NEW s, Sound(s, n), NEW conf \in Confirmation, ~conf.consumed,
         conf.kind = "task_create" => conf.task = n + 1,
         conf.kind = "task_refund" =>
           conf.task \in DOMAIN s.tasks /\ conf.amount = s.tasks[conf.task].amount
  PROVE  Sound(Written(s.balance, Extended(s.pending, n + 1, conf), s.tasks), n + 1)
<1> DEFINE p == Extended(s.pending, n + 1, conf)
           s2 == Written(s.balance, p, s.tasks)
<1>0. Formed(s, n) /\ Consistent(s) /\ Balanced(s)
  BY DEF Sound
<1>1. s2.state = "open" /\ s2.balance = s.balance /\ s2.pending = p /\ s2.tasks = s.tasks
      /\ s2 = Written(s2.balance, s2.pending, s2.tasks)
  BY DEF Written
<1>2. /\ DOMAIN p = DOMAIN s.pending \cup {n + 1}
      /\ p[n + 1] = conf
      /\ \A c \in DOMAIN s.pending : p[c] = s.pending[c] /\ c # n + 1
      /\ n + 1 \notin DOMAIN s.tasks
  BY <1>0 DEF Extended, Formed, Consistent
<1>. HIDE DEF s2, p
<1>3. Formed(s2, n + 1)
  <2>1. p \in [DOMAIN p -> Confirmation]
    BY <1>0, <1>2 DEF Formed, Extended, p
  <2>2. DOMAIN p \subseteq 1..n + 1
    BY <1>0, <1>2 DEF Formed
  <2>. QED
    BY <1>0, <1>1, <2>1, <2>2 DEF Formed, Written
<1>4. Consistent(s2)
  BY <1>0, <1>1, <1>2 DEF Consistent, Confirmation, Kinds
<1>5. Balanced(s2)
  BY <1>0, <1>1 DEF Balanced
<1>. QED
  BY <1>3, <1>4, <1>5 DEF Sound, s2, p

\* What consuming a confirmation does to the confirmations.
LEMMA TakenPending ==
  ASSUME NEW n, NEW s, Formed(s, n), NEW c \in DOMAIN s.pending
  PROVE  LET p == Taken(s, c).pending
         IN /\ DOMAIN p = DOMAIN s.pending
            /\ p \in [DOMAIN p -> Confirmation]
            /\ p[c].consumed /\ p[c].kind = s.pending[c].kind /\ p[c].task = s.pending[c].task
            /\ p[c].amount = s.pending[c].amount /\ p[c].expires = s.pending[c].expires
            /\ \A d \in DOMAIN s.pending \ {c} : p[d] = s.pending[d]
<1> DEFINE conf == [s.pending[c] EXCEPT !.consumed = TRUE]
<1>1. Taken(s, c).pending = [s.pending EXCEPT ![c] = conf]
  <2> DEFINE p == [s.pending EXCEPT ![c] = conf]
  <2>1. Taken(s, c) = Written(s.balance, p, s.tasks)
    BY TakenIs DEF Written
  <2>. HIDE DEF p
  <2>2. Taken(s, c).pending = p
    BY <2>1 DEF Written
  <2>. QED
    BY <2>2 DEF p
<1>2. s.pending[c] \in Confirmation /\ s.pending \in [DOMAIN s.pending -> Confirmation]
  BY DEF Formed
<1>3. conf \in Confirmation /\ conf.consumed /\ conf.kind = s.pending[c].kind
      /\ conf.task = s.pending[c].task /\ conf.amount = s.pending[c].amount
      /\ conf.expires = s.pending[c].expires
  BY <1>2 DEF Confirmation
<1>. HIDE DEF conf
<1>. QED
  BY <1>1, <1>2, <1>3

\* What closing a task does to the tasks.
LEMMA ClosedTasks ==
  ASSUME NEW n, NEW s, Formed(s, n), NEW x \in DOMAIN s.tasks
  PROVE  LET t == [s.tasks EXCEPT ![x].is_open = FALSE]
         IN /\ DOMAIN t = DOMAIN s.tasks
            /\ t \in [DOMAIN t -> Task]
            /\ ~t[x].is_open /\ t[x].amount = s.tasks[x].amount
            /\ \A y \in DOMAIN s.tasks \ {x} : t[y] = s.tasks[y]
<1> DEFINE done == [s.tasks[x] EXCEPT !.is_open = FALSE]
<1>1. s.tasks[x] \in Task /\ s.tasks \in [DOMAIN s.tasks -> Task]
  BY DEF Formed
<1>2. done \in Task /\ ~done.is_open /\ done.amount = s.tasks[x].amount
  BY <1>1 DEF Task
<1>3. [s.tasks EXCEPT ![x].is_open = FALSE] = [s.tasks EXCEPT ![x] = done]
  OBVIOUS
<1>. HIDE DEF done
<1>. QED
  BY <1>1, <1>2, <1>3

\* submit_task leaves a sound state sound.
LEMMA FundSound ==
  ASSUME NEW n \in Nat, NEW s, Sound(s, n), NEW c \in DOMAIN s.pending,
         s.pending[c].kind = "task_create", ~s.pending[c].consumed,
         s.balance >= s.pending[c].amount
  PROVE  LET a == s.pending[c].amount
         IN Sound(Written(s.balance - a, Taken(s, c).pending,
                          Extended(s.tasks, s.pending[c].task, [is_open |-> TRUE, amount |-> a])), n)
<1> DEFINE a == s.pending[c].amount
           p == Taken(s, c).pending
           task == [is_open |-> TRUE, amount |-> a]
           t == Extended(s.tasks, c, task)
           s2 == Written(s.balance - a, p, t)
<1>0. Formed(s, n) /\ Consistent(s) /\ Balanced(s)
  BY DEF Sound
<1>1. s2.state = "open" /\ s2.balance = s.balance - a /\ s2.pending = p /\ s2.tasks = t
      /\ s2 = Written(s2.balance, s2.pending, s2.tasks)
  BY DEF Written
<1>2. /\ DOMAIN p = DOMAIN s.pending
      /\ p \in [DOMAIN p -> Confirmation]
      /\ p[c].consumed /\ p[c].kind = "task_create" /\ p[c].task = c
      /\ \A d \in DOMAIN s.pending \ {c} : p[d] = s.pending[d]
      /\ s.pending[c].task = c
  BY <1>0, TakenPending DEF Consistent
<1>3. a \in Amounts /\ a \in Nat /\ s.balance \in Nat /\ s.balance - a \in Nat
  BY <1>0, MockGibworkAssumption DEF Formed, Confirmation
<1>4. task \in Task /\ task.is_open /\ task.amount = a
  BY <1>3 DEF Task
<1>5. c \notin DOMAIN s.tasks
  BY <1>0 DEF Consistent
<1>. HIDE DEF task
<1>6. /\ DOMAIN t = DOMAIN s.tasks \cup {c}
      /\ t[c] = task
      /\ \A x \in DOMAIN s.tasks : t[x] = s.tasks[x]
      /\ t \in [DOMAIN t -> Task]
  BY <1>0, <1>4, <1>5 DEF Extended, Formed
<1>. HIDE DEF s2, p, t, a
<1>7. Formed(s2, n)
  BY <1>0, <1>1, <1>2, <1>3, <1>6 DEF Formed, Written
<1>8. Consistent(s2)
  BY <1>0, <1>1, <1>2, <1>4, <1>5, <1>6 DEF Consistent, Formed, Confirmation, Kinds
<1>9. Balanced(s2)
  <2> DEFINE E == InEscrow(s.tasks)
             w == Worth(t)
  <2>1. InEscrow(t) = E \cup {c} /\ c \notin E
    BY <1>4, <1>5, <1>6 DEF InEscrow
  <2>2. IsFiniteSet(E) /\ \A x \in E : Worth(s.tasks)[x] \in Nat
    BY SoundIs
  <2>3. w[c] = a /\ \A x \in E : w[x] = Worth(s.tasks)[x]
    BY <1>4, <1>6 DEF Worth, InEscrow
  <2>. HIDE DEF E, w
  <2>4. Sum(w, E \cup {c}) = Sum(w, E) + a
    BY <1>3, <2>1, <2>2, <2>3, SumAdds
  <2>5. Sum(w, E) = Sum(Worth(s.tasks), E) /\ Sum(Worth(s.tasks), E) \in Nat
    BY <2>2, <2>3, SumSame, SumIsNat
  <2>6. s.balance + Sum(Worth(s.tasks), E) = Balance
    BY <1>0 DEF Balanced, E
  <2>7. (s.balance - a) + Sum(w, E \cup {c}) = Balance
    BY <1>3, <2>4, <2>5, <2>6
  <2>. QED
    BY <1>1, <2>1, <2>7 DEF Balanced, w
<1>10. Sound(s2, n)
  BY <1>7, <1>8, <1>9 DEF Sound
<1>. QED
  BY <1>2, <1>10 DEF s2, t, p, a, task

\* submit_refund leaves a sound state sound, if the task is still open.
LEMMA RefundSound ==
  ASSUME NEW n \in Nat, NEW s, Sound(s, n), NEW c \in DOMAIN s.pending,
         s.pending[c].kind = "task_refund", ~s.pending[c].consumed,
         s.tasks[s.pending[c].task].is_open
  PROVE  Sound(Written(s.balance + s.pending[c].amount, Taken(s, c).pending,
                       [s.tasks EXCEPT ![s.pending[c].task].is_open = FALSE]), n)
<1> DEFINE a == s.pending[c].amount
           x == s.pending[c].task
           p == Taken(s, c).pending
           t == [s.tasks EXCEPT ![x].is_open = FALSE]
           s2 == Written(s.balance + a, p, t)
<1>0. Formed(s, n) /\ Consistent(s) /\ Balanced(s)
  BY DEF Sound
<1>1. s2.state = "open" /\ s2.balance = s.balance + a /\ s2.pending = p /\ s2.tasks = t
      /\ s2 = Written(s2.balance, s2.pending, s2.tasks)
  BY DEF Written
<1>2. /\ DOMAIN p = DOMAIN s.pending
      /\ p \in [DOMAIN p -> Confirmation]
      /\ p[c].consumed /\ p[c].kind = "task_refund" /\ p[c].task = x /\ p[c].amount = a
      /\ \A d \in DOMAIN s.pending \ {c} : p[d] = s.pending[d]
  BY <1>0, TakenPending
<1>3. a \in Nat /\ s.balance \in Nat
  BY <1>0, MockGibworkAssumption DEF Formed, Confirmation
<1>4. x \in DOMAIN s.tasks /\ s.tasks[x].amount = a
  BY <1>0 DEF Consistent
<1>5. /\ DOMAIN t = DOMAIN s.tasks
      /\ t \in [DOMAIN t -> Task]
      /\ ~t[x].is_open /\ t[x].amount = a
      /\ \A y \in DOMAIN s.tasks \ {x} : t[y] = s.tasks[y]
  BY <1>0, <1>4, ClosedTasks
<1>6. s.tasks[x].is_open
  OBVIOUS
<1>. HIDE DEF s2, p, t, a, x
<1>7. Formed(s2, n)
  BY <1>0, <1>1, <1>2, <1>3, <1>5 DEF Formed, Written
<1>8. Consistent(s2)
  BY <1>0, <1>1, <1>2, <1>4, <1>5 DEF Consistent, Formed
<1>9. Balanced(s2)
  <2> DEFINE E == InEscrow(s.tasks)
             F == InEscrow(t)
             w == Worth(s.tasks)
             v == Worth(t)
  <2>1. E = F \cup {x} /\ x \notin F
    BY <1>4, <1>5, <1>6 DEF InEscrow
  <2>2. IsFiniteSet(E) /\ \A y \in E : w[y] \in Nat
    BY SoundIs
  <2>3. w[x] = a /\ \A y \in F : v[y] = w[y]
    BY <1>4, <1>5 DEF Worth, InEscrow
  <2>4. s.balance + Sum(w, E) = Balance
    BY <1>0 DEF Balanced
  <2>. HIDE DEF E, F, w, v
  <2>5. IsFiniteSet(F)
    BY <2>1, <2>2, FS_Subset
  <2>6. Sum(w, F \cup {x}) = Sum(w, F) + a
    BY <2>1, <2>2, <2>3, <2>5, SumAdds
  <2>7. Sum(v, F) = Sum(w, F) /\ Sum(w, F) \in Nat
    BY <2>1, <2>2, <2>3, <2>5, SumSame, SumIsNat
  <2>8. (s.balance + a) + Sum(v, F) = Balance
    BY <1>3, <2>1, <2>4, <2>6, <2>7
  <2>. QED
    BY <1>1, <2>8 DEF Balanced, v, F
<1>10. Sound(s2, n)
  BY <1>7, <1>8, <1>9 DEF Sound
<1>. QED
  BY <1>10 DEF s2, t, p, a, x

(***************************************************************************)
(* The steps, for any invocations.                                         *)
(***************************************************************************)
Answers == [conf : Ids, at : 0..MaxNow, word : {"submitted", "failed"}]

\* What MInv says of the other variables.
LEMMA Types ==
  ASSUME MInv
  PROVE  /\ issued \in Nat /\ issued <= MaxIssued /\ 1..issued \subseteq Ids
         /\ now \in 0..MaxNow /\ now \in Nat /\ MaxIssued \in Nat
         /\ \A i \in Invocations : prepared[i] \subseteq Ids
BY MockGibworkAssumption DEF MInv, Ids

\* One invocation's state is replaced.
LEMMA MemoryAfter ==
  ASSUME MInv, NEW i \in Invocations, NEW s, memory' = [memory EXCEPT ![i] = s]
  PROVE  /\ memory'[i] = s
         /\ \A j \in Invocations \ {i} : memory'[j] = memory[j]
         /\ memory' = [j \in Invocations |-> memory'[j]]
<1>1. memory = [j \in Invocations |-> memory[j]]
  BY DEF MInv
<1>2. memory' = [j \in Invocations |-> IF j = i THEN s ELSE memory[j]]
  BY <1>1
<1>. QED
  BY <1>2

\* What one invocation prepared is replaced.
LEMMA PreparedAfter ==
  ASSUME MInv, NEW i \in Invocations, NEW P \in SUBSET Ids, prepared' = [prepared EXCEPT ![i] = P]
  PROVE  /\ prepared'[i] = P
         /\ \A j \in Invocations \ {i} : prepared'[j] = prepared[j]
         /\ prepared' \in [Invocations -> SUBSET Ids]
BY DEF MInv

\* An invocation reads the file.
LEMMA OpenKeeps ==
  ASSUME MInv, NEW i \in Invocations, Open(i)
  PROVE  MInv'
<1>1. /\ memory[i] = Closed /\ memory' = [memory EXCEPT ![i] = file]
      /\ UNCHANGED <<file, prepared, issued, now, told>>
  BY DEF Open
<1>2. /\ memory'[i] = file
      /\ \A j \in Invocations \ {i} : memory'[j] = memory[j]
      /\ memory' = [j \in Invocations |-> memory'[j]]
  BY <1>1, MemoryAfter
<1>3. Sound(file, issued)
  BY DEF MInv
<1>4. \A j \in Invocations : memory'[j] = Closed \/ Sound(memory'[j], issued)
  BY <1>2, <1>3 DEF MInv
<1>5. prepared[i] = {}
  BY <1>1 DEF MInv, Session
<1>6. \A j \in Invocations : Session(j)'
  BY <1>1, <1>2, <1>5 DEF MInv, Session
<1>. QED
  BY <1>1, <1>2, <1>3, <1>4, <1>6 DEF MInv, ToldOnce

\* An invocation ends.
LEMMA EndKeeps ==
  ASSUME MInv, NEW i \in Invocations, End(i)
  PROVE  MInv'
<1>1. /\ memory' = [memory EXCEPT ![i] = Closed]
      /\ prepared' = [prepared EXCEPT ![i] = {}]
      /\ UNCHANGED <<file, issued, now, told>>
  BY DEF End
<1>2. /\ memory'[i] = Closed
      /\ \A j \in Invocations \ {i} : memory'[j] = memory[j]
      /\ memory' = [j \in Invocations |-> memory'[j]]
  BY <1>1, MemoryAfter
<1>3. /\ prepared'[i] = {}
      /\ \A j \in Invocations \ {i} : prepared'[j] = prepared[j]
      /\ prepared' \in [Invocations -> SUBSET Ids]
  BY <1>1, PreparedAfter
<1>4. \A j \in Invocations : memory'[j] = Closed \/ Sound(memory'[j], issued)
  BY <1>2 DEF MInv
<1>5. \A j \in Invocations : Session(j)'
  BY <1>1, <1>2, <1>3 DEF MInv, Session
<1>. QED
  BY <1>1, <1>2, <1>3, <1>4, <1>5 DEF MInv, ToldOnce

\* Time passes.
LEMMA TickKeeps ==
  ASSUME MInv, Tick
  PROVE  MInv'
<1>1. now' \in 0..MaxNow /\ UNCHANGED <<file, memory, prepared, issued, told>>
  BY MockGibworkAssumption DEF Tick, MInv
<1>2. \A j \in Invocations : Session(j)'
  BY <1>1 DEF MInv, Session
<1>. QED
  BY <1>1, <1>2 DEF MInv, ToldOnce

\* What a step that issues a confirmation saves: one more, not used.
IssueSaves(i) ==
  /\ \E s : Save(i, s)
  /\ \E conf : ~conf.consumed /\ file'.pending = Extended(memory[i].pending, issued + 1, conf)
  /\ issued' = issued + 1
  /\ UNCHANGED told

\* A confirmation is issued: what PrepareTask and PrepareRefund have in common.
LEMMA IssueKeeps ==
  ASSUME MInv, NEW i \in Invocations, memory[i] # Closed, prepared[i] = {},
         NEW kind \in Kinds, NEW task \in Ids, NEW amount \in Amounts,
         kind = "task_create" => task = issued + 1,
         kind = "task_refund" =>
           task \in DOMAIN memory[i].tasks /\ memory[i].tasks[task].is_open
             /\ amount = memory[i].tasks[task].amount,
         Issue(i, kind, task, amount)
  PROVE  /\ MInv'
         /\ IssueSaves(i)
<1> DEFINE n == issued + 1
           s == memory[i]
           conf == [kind |-> kind, task |-> task, amount |-> amount,
                    expires |-> now + Ttl, consumed |-> FALSE]
           s2 == Written(s.balance, Extended(s.pending, n, conf), s.tasks)
<1>0. Sound(s, issued) /\ issued \in Nat /\ now \in Nat /\ Ttl \in Nat
  BY Types, MockGibworkAssumption DEF MInv
<1>1. /\ issued < MaxIssued /\ issued' = n
      /\ prepared' = [prepared EXCEPT ![i] = {n}]
      /\ memory' = [memory EXCEPT ![i] = s2] /\ file' = s2
      /\ UNCHANGED <<now, told>>
  <2>1. [s EXCEPT !.pending = Extended(@, n, conf)] = s2
    BY <1>0, IssuedIs DEF Sound
  <2>2. prepared' = [prepared EXCEPT ![i] = {n}]
    BY DEF Issue
  <2>3. Save(i, s2)
    <3>1. Save(i, [s EXCEPT !.pending = Extended(@, n, conf)])
      BY DEF Issue
    <3>. HIDE DEF s2, s, conf, n
    <3>. QED
      BY <2>1, <3>1
  <2>. QED
    BY <2>2, <2>3 DEF Issue, Save
<1>2. conf \in Confirmation /\ ~conf.consumed /\ conf.kind = kind /\ conf.task = task
      /\ conf.amount = amount
  BY <1>0 DEF Confirmation
<1>. HIDE DEF conf
<1>3. Sound(s2, n)
  BY <1>0, <1>2, PrepareSound
<1>4. /\ s2.pending[n] = conf /\ n \in DOMAIN s2.pending /\ s2.tasks = s.tasks
  BY DEF Written, Extended
<1>5. n \in Ids /\ n \in 0..MaxIssued /\ n # 0 /\ n \notin 1..issued
  BY <1>0, <1>1, MockGibworkAssumption DEF Ids
<1>6. \A use \in told : use.conf # n
  BY <1>5 DEF MInv, ToldOnce
<1>7. \A j \in Invocations : n \notin prepared[j]
  <2>. SUFFICES ASSUME NEW j \in Invocations, n \in prepared[j]
                PROVE  FALSE
    OBVIOUS
  <2>1. memory[j] # Closed /\ n \in DOMAIN memory[j].pending
    BY DEF MInv, Session
  <2>2. Sound(memory[j], issued)
    BY <2>1 DEF MInv
  <2>. QED
    BY <1>5, <2>1, <2>2 DEF Sound, Formed
<1>. HIDE DEF n, s, s2
<1>8. /\ memory'[i] = s2
      /\ \A j \in Invocations \ {i} : memory'[j] = memory[j]
      /\ memory' = [j \in Invocations |-> memory'[j]]
  BY <1>1, MemoryAfter
<1>9. /\ prepared'[i] = {n}
      /\ \A j \in Invocations \ {i} : prepared'[j] = prepared[j]
      /\ prepared' \in [Invocations -> SUBSET Ids]
  <2>1. {n} \in SUBSET Ids
    BY <1>5
  <2>. QED
    BY <1>1, <2>1, PreparedAfter
<1>10. s2 # Closed
  BY <1>3, <1>5, SoundIs
<1>11. \A j \in Invocations : memory'[j] = Closed \/ Sound(memory'[j], n)
  BY <1>0, <1>3, <1>8, SoundLater DEF MInv, n
<1>12. Session(i)'
  BY <1>1, <1>2, <1>4, <1>6, <1>7, <1>8, <1>9, <1>10 DEF Session, s
<1>13. \A j \in Invocations \ {i} : Session(j)'
  BY <1>1, <1>7, <1>8, <1>9 DEF MInv, Session
<1>14. ToldOnce'
  BY <1>0, <1>1 DEF MInv, ToldOnce, n
<1>15. MInv'
  BY <1>1, <1>3, <1>5, <1>8, <1>9, <1>11, <1>12, <1>13, <1>14 DEF MInv
<1>16. s2.pending = Extended(s.pending, n, conf)
  BY DEF s2, Written
<1>17. IssueSaves(i)
  <2>1. Save(i, s2) /\ file'.pending = Extended(memory[i].pending, issued + 1, conf)
    BY <1>1, <1>16 DEF Save, s, n
  <2>. QED
    BY <1>1, <1>2, <2>1 DEF IssueSaves, n
<1>. QED
  BY <1>15, <1>17

\* PrepareTask and PrepareRefund.
LEMMA PrepareKeeps ==
  ASSUME MInv, NEW i \in Invocations,
         (\E amount \in Amounts : PrepareTask(i, amount)) \/ \E task \in Ids : PrepareRefund(i, task)
  PROVE  /\ MInv'
         /\ memory[i] # Closed /\ IssueSaves(i)
<1>1. ASSUME NEW amount \in Amounts, PrepareTask(i, amount)
      PROVE  /\ MInv'
             /\ memory[i] # Closed /\ IssueSaves(i)
  <2>1. /\ memory[i] # Closed /\ prepared[i] = {}
        /\ Issue(i, "task_create", issued + 1, amount)
    BY <1>1 DEF PrepareTask
  <2>2. issued + 1 \in Ids
    BY <2>1, Types DEF Issue, Ids
  <2>3. "task_create" \in Kinds
    BY DEF Kinds
  <2>. QED
    BY <2>1, <2>2, <2>3, IssueKeeps
<1>2. ASSUME NEW task \in Ids, PrepareRefund(i, task)
      PROVE  /\ MInv'
             /\ memory[i] # Closed /\ IssueSaves(i)
  <2>1. /\ memory[i] # Closed /\ prepared[i] = {}
        /\ task \in DOMAIN memory[i].tasks /\ memory[i].tasks[task].is_open
        /\ Issue(i, "task_refund", task, memory[i].tasks[task].amount)
    BY <1>2 DEF PrepareRefund
  <2>2. memory[i].tasks[task].amount \in Amounts
    BY <2>1 DEF MInv, Sound, Formed, Task
  <2>3. "task_refund" \in Kinds
    BY DEF Kinds
  <2>. QED
    BY <2>1, <2>2, <2>3, IssueKeeps
<1>. QED
  BY <1>1, <1>2

\* What a session knows of the confirmation it prepared.
LEMMA PreparedIs ==
  ASSUME MInv, NEW i \in Invocations, NEW c \in prepared[i]
  PROVE  /\ memory[i] # Closed /\ Sound(memory[i], issued)
         /\ c \in DOMAIN memory[i].pending
         /\ c \in 1..issued /\ c \in Ids
         /\ prepared[i] = {c}
         /\ memory[i].pending[c].consumed <=> \E use \in told : use.conf = c
         /\ memory[i].pending[c].kind = "task_refund" /\ ~memory[i].pending[c].consumed =>
              memory[i].tasks[memory[i].pending[c].task].is_open
         /\ \A j \in Invocations \ {i} : c \notin prepared[j]
<1>1. /\ memory[i] # Closed /\ c \in DOMAIN memory[i].pending
      /\ memory[i].pending[c].consumed <=> \E use \in told : use.conf = c
      /\ memory[i].pending[c].kind = "task_refund" /\ ~memory[i].pending[c].consumed =>
           memory[i].tasks[memory[i].pending[c].task].is_open
      /\ prepared[i] = {c}
      /\ \A j \in Invocations \ {i} : c \notin prepared[j]
  BY DEF MInv, Session
<1>2. Sound(memory[i], issued)
  BY <1>1 DEF MInv
<1>3. c \in 1..issued
  BY <1>1, <1>2 DEF Sound, Formed
<1>. QED
  BY <1>1, <1>2, <1>3, Types

\* The end of a submit is noted: told grows by one, of a confirmation it does
\* not hold yet.
LEMMA ToldMore ==
  ASSUME MInv, NEW c \in 1..issued, \A use \in told : use.conf # c,
         NEW word \in {"submitted", "failed"}, Answered(c, word)
  PROVE  /\ told' = told \cup {[conf |-> c, at |-> now, word |-> word]}
         /\ told' \subseteq Answers
         /\ ToldOnce'
         /\ UNCHANGED <<issued, now>>
         /\ \E use \in told' : use.conf = c
         /\ \A d : d # c => ((\E use \in told' : use.conf = d) <=> \E use \in told : use.conf = d)
<1> DEFINE new == [conf |-> c, at |-> now, word |-> word]
<1>1. told' = told \cup {new} /\ issued' = issued /\ now' = now
  BY DEF Answered
<1>2. new \in Answers /\ new.conf = c
  BY Types DEF Answers
<1>. HIDE DEF new
<1>3. told \subseteq Answers
  BY DEF MInv, Answers
<1>4. ToldOnce'
  BY <1>1, <1>2 DEF MInv, ToldOnce
<1>. QED
  BY <1>1, <1>2, <1>3, <1>4 DEF new

\* A submit that took effect: what SubmitTask and SubmitRefund have in common.
LEMMA SettleKeeps ==
  ASSUME MInv, NEW i \in Invocations, NEW c \in prepared[i], ~memory[i].pending[c].consumed,
         NEW b, NEW t, Sound(Written(b, Taken(memory[i], c).pending, t), issued),
         Save(i, Written(b, Taken(memory[i], c).pending, t)), Settled(c)
  PROVE  MInv'
<1> DEFINE s == memory[i]
           p == Taken(s, c).pending
           s2 == Written(b, p, t)
<1>1. /\ Sound(s, issued) /\ c \in DOMAIN s.pending /\ c \in 1..issued /\ prepared[i] = {c}
      /\ \A use \in told : use.conf # c
      /\ \A j \in Invocations \ {i} : c \notin prepared[j]
  BY PreparedIs
<1>2. /\ told' \subseteq Answers /\ ToldOnce' /\ UNCHANGED <<issued, now>>
      /\ \E use \in told' : use.conf = c
      /\ \A d : d # c => ((\E use \in told' : use.conf = d) <=> \E use \in told : use.conf = d)
  BY <1>1, ToldMore DEF Settled
<1>3. c \in DOMAIN p /\ p[c].consumed
  BY <1>1, TakenPending DEF Sound
<1>4. s2.pending = p /\ Sound(s2, issued) /\ s2 # Closed
  BY Types, SoundIs DEF Written
<1>5. memory' = [memory EXCEPT ![i] = s2] /\ file' = s2 /\ prepared' = prepared
  BY DEF Save, Settled
<1>. HIDE DEF s2, p, s
<1>6. /\ memory'[i] = s2
      /\ \A j \in Invocations \ {i} : memory'[j] = memory[j]
      /\ memory' = [j \in Invocations |-> memory'[j]]
  BY <1>5, MemoryAfter
<1>7. \A j \in Invocations : memory'[j] = Closed \/ Sound(memory'[j], issued)
  BY <1>4, <1>6 DEF MInv
<1>8. Session(i)'
  BY <1>1, <1>2, <1>3, <1>4, <1>5, <1>6 DEF MInv, Session
<1>9. ASSUME NEW j \in Invocations, j # i
      PROVE  Session(j)'
  <2>1. Session(j) /\ memory'[j] = memory[j] /\ prepared'[j] = prepared[j]
    BY <1>5, <1>6, <1>9 DEF MInv
  <2>2. \A d \in prepared[j] : d # c
    BY <1>1, <1>9
  <2>3. \A d \in prepared[j] :
          (\E use \in told' : use.conf = d) <=> \E use \in told : use.conf = d
    BY <1>2, <2>2
  <2>4. \A d \in prepared'[j] :
          LET conf == memory'[j].pending[d]
          IN /\ d \in DOMAIN memory'[j].pending
             /\ conf.consumed <=> \E use \in told' : use.conf = d
             /\ conf.kind = "task_refund" /\ ~conf.consumed => memory'[j].tasks[conf.task].is_open
    BY <2>1, <2>3 DEF Session
  <2>5. \A k \in Invocations \ {j} : prepared'[k] \cap prepared'[j] = {}
    BY <1>5, <2>1 DEF Session
  <2>6. /\ memory'[j] = Closed => prepared'[j] = {}
        /\ \A d, e \in prepared'[j] : d = e
    BY <2>1 DEF Session
  <2>. QED
    BY <2>4, <2>5, <2>6 DEF Session
<1>. QED
  BY <1>2, <1>4, <1>5, <1>6, <1>7, <1>8, <1>9 DEF MInv, Answers

\* SubmitTask.
LEMMA SubmitTaskKeeps ==
  ASSUME MInv, NEW i \in Invocations, NEW c \in Ids, SubmitTask(i, c)
  PROVE  /\ MInv'
         /\ c \in prepared[i] /\ ~memory[i].pending[c].consumed /\ now < memory[i].pending[c].expires
         /\ \E b, t : Save(i, Written(b, Taken(memory[i], c).pending, t))
         /\ Settled(c)
<1> DEFINE s == memory[i]
           a == s.pending[c].amount
           b == s.balance - a
           y == [is_open |-> TRUE, amount |-> a]
           k == s.pending[c].task
           t == Extended(s.tasks, k, y)
           s2 == Written(b, Taken(s, c).pending, t)
<1>1. /\ c \in prepared[i] /\ c \in DOMAIN s.pending
      /\ ~s.pending[c].consumed /\ s.pending[c].kind = "task_create"
      /\ now < s.pending[c].expires /\ s.balance >= a
      /\ Settled(c)
      /\ Save(i, [Taken(s, c) EXCEPT !.balance = @ - a,
                    !.tasks = Extended(@, s.pending[c].task, [is_open |-> TRUE, amount |-> a])])
  BY DEF SubmitTask, Takeable
<1>2. Sound(s, issued) /\ issued \in Nat
  BY <1>1, PreparedIs, Types
<1>3. Save(i, s2)
  <2> DEFINE u == Taken(s, c)
  <2>1. Formed(s, issued) /\ c \in DOMAIN s.pending
    BY <1>1, <1>2 DEF Sound
  <2>2. u = Written(s.balance, u.pending, s.tasks)
    BY <2>1, TakenLeaves
  <2>3. PICK q : q = u.pending
    OBVIOUS
  <2>4. [u EXCEPT !.balance = b, !.tasks = t] = s2
    <3>1. s2 = Written(b, q, t)
      BY <2>3
    <3>2. u = Written(s.balance, q, s.tasks)
      BY <2>2, <2>3
    <3>. HIDE DEF s, u, b, t, s2
    <3>3. [u EXCEPT !.balance = b] = Written(b, q, s.tasks)
      BY <3>2 DEF Written
    <3>4. [Written(b, q, s.tasks) EXCEPT !.tasks = t] = Written(b, q, t)
      BY DEF Written
    <3>. QED
      BY <3>1, <3>3, <3>4, Zenon
  <2>5. u.balance = s.balance /\ u.tasks = s.tasks
    <3>. HIDE DEF s, u
    <3>. QED
      BY <2>2 DEF Written
  <2>6. [u EXCEPT !.balance = @ - a, !.tasks = Extended(@, k, y)]
          = [u EXCEPT !.balance = b, !.tasks = t]
    <3>. HIDE DEF s, u, a, k, y
    <3>. QED
      BY <2>5
  <2>7. Save(i, [u EXCEPT !.balance = @ - a, !.tasks = Extended(@, k, y)])
    BY <1>1
  <2>. HIDE DEF s, u, a, k, y, b, t, s2
  <2>. QED
    BY <2>4, <2>6, <2>7
<1>4. Sound(s2, issued)
  BY <1>1, <1>2, FundSound
<1>. HIDE DEF b, t
<1>5. MInv'
  BY <1>1, <1>3, <1>4, SettleKeeps
<1>. QED
  BY <1>1, <1>3, <1>5

\* SubmitRefund.
LEMMA SubmitRefundKeeps ==
  ASSUME MInv, NEW i \in Invocations, NEW c \in Ids, SubmitRefund(i, c)
  PROVE  /\ MInv'
         /\ c \in prepared[i] /\ ~memory[i].pending[c].consumed /\ now < memory[i].pending[c].expires
         /\ \E b, t : Save(i, Written(b, Taken(memory[i], c).pending, t))
         /\ Settled(c)
<1> DEFINE s == memory[i]
           a == s.pending[c].amount
           x == s.pending[c].task
           b == s.balance + a
           t == [s.tasks EXCEPT ![x].is_open = FALSE]
           s2 == Written(b, Taken(s, c).pending, t)
<1>1. /\ c \in prepared[i] /\ c \in DOMAIN s.pending
      /\ ~s.pending[c].consumed /\ s.pending[c].kind = "task_refund"
      /\ now < s.pending[c].expires
      /\ Settled(c)
      /\ Save(i, [Taken(s, c) EXCEPT !.balance = @ + a, !.tasks[x].is_open = FALSE])
  BY DEF SubmitRefund, Takeable
<1>2. Sound(s, issued) /\ issued \in Nat /\ s.tasks[x].is_open
  BY <1>1, PreparedIs, Types
<1>3. x \in DOMAIN s.tasks
  BY <1>1, <1>2 DEF Sound, Consistent
<1>4. Save(i, s2)
  <2> DEFINE u == Taken(s, c)
  <2>1. Formed(s, issued) /\ c \in DOMAIN s.pending
    BY <1>1, <1>2 DEF Sound
  <2>2. u = Written(s.balance, u.pending, s.tasks)
    BY <2>1, TakenLeaves
  <2>3. PICK q : q = u.pending
    OBVIOUS
  <2>4. [u EXCEPT !.balance = b, !.tasks = t] = s2
    <3>1. s2 = Written(b, q, t)
      BY <2>3
    <3>2. u = Written(s.balance, q, s.tasks)
      BY <2>2, <2>3
    <3>. HIDE DEF s, u, b, t, s2
    <3>3. [u EXCEPT !.balance = b] = Written(b, q, s.tasks)
      BY <3>2 DEF Written
    <3>4. [Written(b, q, s.tasks) EXCEPT !.tasks = t] = Written(b, q, t)
      BY DEF Written
    <3>. QED
      BY <3>1, <3>3, <3>4, Zenon
  <2>5. u.balance = s.balance /\ u.tasks = s.tasks
    <3>. HIDE DEF s, u
    <3>. QED
      BY <2>2 DEF Written
  <2>6. [u EXCEPT !.balance = @ + a, !.tasks[x].is_open = FALSE]
          = [u EXCEPT !.balance = u.balance + a, !.tasks = [u.tasks EXCEPT ![x].is_open = FALSE]]
    <3>. HIDE DEF s, u, a, x
    <3>. QED
      BY Zenon
  <2>7. [u EXCEPT !.balance = @ + a, !.tasks[x].is_open = FALSE]
          = [u EXCEPT !.balance = b, !.tasks = t]
    <3>. HIDE DEF s, u, a, x
    <3>. QED
      BY <2>5, <2>6
  <2>8. Save(i, [u EXCEPT !.balance = @ + a, !.tasks[x].is_open = FALSE])
    BY <1>1
  <2>. HIDE DEF s, u, a, x, b, t, s2
  <2>. QED
    BY <2>4, <2>7, <2>8
<1>5. Sound(s2, issued)
  BY <1>1, <1>2, RefundSound
<1>. HIDE DEF b, t
<1>6. MInv'
  BY <1>1, <1>4, <1>5, SettleKeeps
<1>. QED
  BY <1>1, <1>4, <1>6

\* SubmitRefused.
LEMMA SubmitRefusedKeeps ==
  ASSUME MInv, NEW i \in Invocations, NEW c \in Ids, SubmitRefused(i, c)
  PROVE  MInv'
<1>1. /\ c \in prepared[i] /\ \A use \in told : use.conf # c
      /\ memory' = [memory EXCEPT ![i] = Closed]
      /\ prepared' = [prepared EXCEPT ![i] = {}]
      /\ Answered(c, "failed") /\ file' = file
  BY DEF SubmitRefused
<1>2. /\ prepared[i] = {c} /\ c \in 1..issued
      /\ \A j \in Invocations \ {i} : c \notin prepared[j]
  BY <1>1, PreparedIs
<1>3. /\ told' \subseteq Answers /\ ToldOnce' /\ UNCHANGED <<issued, now>>
      /\ \A d : d # c => ((\E use \in told' : use.conf = d) <=> \E use \in told : use.conf = d)
  BY <1>1, <1>2, ToldMore
<1>4. /\ memory'[i] = Closed
      /\ \A j \in Invocations \ {i} : memory'[j] = memory[j]
      /\ memory' = [j \in Invocations |-> memory'[j]]
  BY <1>1, MemoryAfter
<1>5. /\ prepared'[i] = {}
      /\ \A j \in Invocations \ {i} : prepared'[j] = prepared[j]
      /\ prepared' \in [Invocations -> SUBSET Ids]
  BY <1>1, PreparedAfter
<1>6. \A j \in Invocations : memory'[j] = Closed \/ Sound(memory'[j], issued)
  BY <1>4 DEF MInv
<1>7. Session(i)'
  BY <1>4, <1>5 DEF Session
<1>8. \A j \in Invocations \ {i} : Session(j)'
  BY <1>2, <1>3, <1>4, <1>5 DEF MInv, Session
<1>. QED
  BY <1>1, <1>3, <1>4, <1>5, <1>6, <1>7, <1>8 DEF MInv, Answers

(***************************************************************************)
(* What holds of any invocations.                                          *)
(***************************************************************************)
\* The empty state is sound.
LEMMA FreshSound == Sound(Fresh, 0)
<1>1. /\ Fresh.state = "open" /\ Fresh.balance = Balance
      /\ Fresh.pending = Nothing /\ Fresh.tasks = Nothing
      /\ Fresh = [ state |-> "open", balance |-> Fresh.balance,
                   pending |-> Fresh.pending, tasks |-> Fresh.tasks ]
  BY DEF Fresh
<1>2. DOMAIN Nothing = {} /\ \A S : Nothing \in [{} -> S]
  BY DEF Nothing
<1>3. Formed(Fresh, 0)
  BY <1>1, <1>2, MockGibworkAssumption DEF Formed
<1>4. Consistent(Fresh)
  BY <1>1, <1>2 DEF Consistent
<1>5. InEscrow(Fresh.tasks) = {}
  BY <1>1, <1>2 DEF InEscrow
<1>6. Balanced(Fresh)
  BY <1>1, <1>5, SumOfNothing, MockGibworkAssumption DEF Balanced
<1>. QED
  BY <1>3, <1>4, <1>6 DEF Sound

\* The invariant holds at first.
LEMMA MInvInit == Init => MInv
<1>. SUFFICES ASSUME Init
              PROVE  MInv
  OBVIOUS
<1>1. /\ file = Fresh /\ memory = [i \in Invocations |-> Closed]
      /\ prepared = [i \in Invocations |-> {}] /\ issued = 0 /\ now = 0 /\ told = {}
  BY DEF Init
<1>2. \A i \in Invocations : Session(i)
  BY <1>1 DEF Session
<1>. QED
  BY <1>1, <1>2, FreshSound, MockGibworkAssumption DEF MInv, ToldOnce

\* Every step keeps it.
LEMMA MInvNext == MInv /\ [Next]_vars => MInv'
<1>. SUFFICES ASSUME MInv, [Next]_vars
              PROVE  MInv'
  OBVIOUS
<1>1. CASE UNCHANGED vars
  BY <1>1 DEF vars, MInv, Session, ToldOnce
<1>2. CASE Tick
  BY <1>2, TickKeeps
<1>3. ASSUME NEW i \in Invocations,
             \/ Open(i)
             \/ End(i)
             \/ \E amount \in Amounts : PrepareTask(i, amount)
             \/ \E t \in Ids : PrepareRefund(i, t)
             \/ \E c \in Ids : SubmitTask(i, c) \/ SubmitRefund(i, c) \/ SubmitRefused(i, c)
      PROVE  MInv'
  BY <1>3, OpenKeeps, EndKeeps, PrepareKeeps, SubmitTaskKeeps, SubmitRefundKeeps, SubmitRefusedKeeps
<1>. QED
  BY <1>1, <1>2, <1>3 DEF Next

\* The invariant of any invocations, overlapping ones included.
THEOREM MockInvariance == Spec => []MInv
BY MInvInit, MInvNext, PTL DEF Spec

\* A sound state has its type, its wallet within what it held at first.
LEMMA SoundType ==
  ASSUME NEW n \in Nat, n <= MaxIssued, NEW s, Sound(s, n)
  PROVE  StateOK(s)
<1>1. Formed(s, n) /\ Consistent(s) /\ Balanced(s)
  BY DEF Sound
<1>2. s.state = "open"
  BY <1>1 DEF Formed
<1> DEFINE sum == Sum(Worth(s.tasks), InEscrow(s.tasks))
<1>3. sum \in Nat /\ s.balance \in Nat /\ s.balance + sum = Balance
  BY <1>1, SoundIs, SumIsNat DEF Formed, Balanced
<1>. HIDE DEF sum
<1>4. s.balance \in 0..Balance
  BY <1>3, MockGibworkAssumption
<1>5. DOMAIN s.pending \subseteq Ids /\ DOMAIN s.tasks \subseteq Ids
  BY <1>1, MockGibworkAssumption DEF Formed, Consistent, Ids
<1>6. /\ \A c \in DOMAIN s.pending : s.pending[c] \in Confirmation
      /\ \A t \in DOMAIN s.tasks : s.tasks[t] \in [is_open : BOOLEAN, amount : Amounts]
  BY <1>1 DEF Formed, Task
<1>. QED
  BY <1>2, <1>4, <1>5, <1>6 DEF StateOK

\* Everything keeps its type (TypeOK), and the wallet of the file and of every
\* open adapter stays between nothing and what it held at first.
THEOREM MockTypeCorrect == Spec => []TypeOK
<1>1. MInv => TypeOK
  BY Types, SoundType DEF MInv, TypeOK
<1>. QED
  BY <1>1, MockInvariance, PTL

\* Money is neither made nor lost (Conserved): what the file says is in the wallet
\* and in open bounties is together what the wallet held at first, also when
\* invocations overlap and one overwrites what the other saved.
THEOREM MoneyConserved == Spec => []Conserved
<1>1. ASSUME MInv
      PROVE  Conserved
  <2>1. Sound(file, issued) /\ issued \in Nat
    BY <1>1, Types DEF MInv
  <2>2. IsFiniteSet(InEscrow(file.tasks))
    BY <2>1, SoundIs
  <2>3. MapThenSumSet(LAMBDA t : file.tasks[t].amount, InEscrow(file.tasks))
          = Sum(Worth(file.tasks), InEscrow(file.tasks))
    BY <2>2, EscrowSum
  <2>4. file.balance + Sum(Worth(file.tasks), InEscrow(file.tasks)) = Balance
    BY <2>1 DEF Sound, Balanced
  <2>. HIDE DEF Sum
  <2>. QED
    BY <2>3, <2>4 DEF Conserved, InEscrow
<1>. QED
  BY <1>1, MockInvariance, PTL

(***************************************************************************)
(* What holds of invocations that run one at a time.                       *)
(***************************************************************************)
\* The step of Alone and MemoryIsFile, which every action keeps.
LEMMA AloneNext ==
  ASSUME OInv, ~Overlap, NEW i \in Invocations,
         \/ Open(i)
         \/ memory[i] # Closed /\ \E s : Save(i, s)
         \/ memory[i] # Closed /\ memory' = [memory EXCEPT ![i] = Closed] /\ file' = file
  PROVE  Alone' /\ MemoryIsFile'
<1>1. MInv /\ Alone /\ MemoryIsFile
  BY DEF OInv
<1>2. CASE Open(i)
  <2>1. /\ \A j \in Invocations : memory[j] = Closed
        /\ memory' = [memory EXCEPT ![i] = file] /\ file' = file
    BY <1>2 DEF Open
  <2>2. memory'[i] = file /\ \A j \in Invocations \ {i} : memory'[j] = Closed
    BY <1>1, <2>1, MemoryAfter
  <2>. QED
    BY <2>1, <2>2 DEF Alone, MemoryIsFile
<1>3. ASSUME NEW s, memory[i] # Closed, memory' = [memory EXCEPT ![i] = s],
             s = file' \/ (s = Closed /\ file' = file)
      PROVE  Alone' /\ MemoryIsFile'
  <2>1. \A j \in Invocations \ {i} : memory[j] = Closed
    BY <1>1, <1>3 DEF Alone
  <2>2. memory'[i] = s /\ \A j \in Invocations \ {i} : memory'[j] = Closed
    BY <1>1, <1>3, <2>1, MemoryAfter
  <2>. QED
    BY <1>3, <2>2 DEF Alone, MemoryIsFile
<1>. QED
  BY <1>2, <1>3 DEF Save

\* The file of a lone invocation that saved a confirmation more knows as before.
LEMMA KnowsIssued ==
  ASSUME OInv, NEW i \in Invocations, memory[i] # Closed, IssueSaves(i)
  PROVE  FileKnows'
<1>1. MInv /\ FileKnows /\ memory[i] = file
  BY DEF OInv, MemoryIsFile
<1>2. PICK conf : ~conf.consumed /\ file'.pending = Extended(file.pending, issued + 1, conf)
  BY <1>1 DEF IssueSaves
<1> DEFINE p == file'.pending
<1>3. /\ DOMAIN p = DOMAIN file.pending \cup {issued + 1}
      /\ ~p[issued + 1].consumed
      /\ \A c \in DOMAIN file.pending : c # issued + 1 => p[c] = file.pending[c]
  BY <1>2 DEF Extended
<1>4. DOMAIN file.pending \subseteq 1..issued /\ \A use \in told : use.conf \in 1..issued
  BY <1>1 DEF MInv, ToldOnce, Sound, Formed
<1>5. issued + 1 \notin 1..issued
  BY <1>1, Types
<1>6. told' = told
  BY DEF IssueSaves
<1>. HIDE DEF p
<1>7. \A use \in told : use.conf \in DOMAIN p =>
        use.conf \in DOMAIN file.pending /\ p[use.conf] = file.pending[use.conf]
  BY <1>3, <1>4, <1>5
<1>8. \A use \in told :
        IF use.word = "submitted"
        THEN use.conf \in DOMAIN p /\ p[use.conf].consumed /\ use.at < p[use.conf].expires
        ELSE use.conf \in DOMAIN p => ~p[use.conf].consumed
  BY <1>1, <1>3, <1>7 DEF FileKnows
<1>9. \A c \in DOMAIN p : p[c].consumed => \E use \in told : use.conf = c /\ use.word = "submitted"
  BY <1>1, <1>3, <1>4, <1>5 DEF FileKnows
<1>. QED
  BY <1>6, <1>8, <1>9 DEF FileKnows, p

\* The file of a lone invocation that used a confirmation in time knows of it.
LEMMA KnowsSettled ==
  ASSUME OInv, NEW i \in Invocations, NEW c \in prepared[i],
         now < memory[i].pending[c].expires, \A use \in told : use.conf # c,
         NEW b, NEW t, Save(i, Written(b, Taken(memory[i], c).pending, t)), Settled(c)
  PROVE  FileKnows'
<1>1. MInv /\ FileKnows
  BY DEF OInv
<1>2. memory[i] = file /\ c \in DOMAIN file.pending /\ Formed(file, issued)
  BY <1>1, PreparedIs DEF OInv, MemoryIsFile, Sound
<1> DEFINE p == Taken(file, c).pending
<1>3. file'.pending = p
  BY <1>2 DEF Save, Written
<1>4. /\ DOMAIN p = DOMAIN file.pending
      /\ p[c].consumed /\ p[c].expires = file.pending[c].expires
      /\ \A d \in DOMAIN file.pending \ {c} : p[d] = file.pending[d]
  BY <1>2, TakenPending
<1> DEFINE new == [conf |-> c, at |-> now, word |-> "submitted"]
<1>5. told' = told \cup {new} /\ new.conf = c /\ new.at = now /\ new.word = "submitted"
  BY DEF Settled, Answered
<1>6. now < p[c].expires
  BY <1>2, <1>4
<1>. HIDE DEF p, new
<1>7. \A use \in told' :
        IF use.word = "submitted"
        THEN use.conf \in DOMAIN p /\ p[use.conf].consumed /\ use.at < p[use.conf].expires
        ELSE use.conf \in DOMAIN p => ~p[use.conf].consumed
  BY <1>1, <1>2, <1>4, <1>5, <1>6 DEF FileKnows
<1>8. \A d \in DOMAIN p : p[d].consumed => \E use \in told' : use.conf = d /\ use.word = "submitted"
  BY <1>1, <1>4, <1>5 DEF FileKnows
<1>. QED
  BY <1>3, <1>7, <1>8 DEF FileKnows

\* The file of a lone invocation whose submit was refused knows of that.
LEMMA KnowsRefused ==
  ASSUME OInv, NEW i \in Invocations, NEW c \in Ids, SubmitRefused(i, c)
  PROVE  FileKnows'
<1>1. MInv /\ FileKnows
  BY DEF OInv
<1>2. c \in prepared[i] /\ (\A use \in told : use.conf # c) /\ file' = file
      /\ told' = told \cup {[conf |-> c, at |-> now, word |-> "failed"]}
  BY DEF SubmitRefused, Answered
<1>3. memory[i] = file /\ ~file.pending[c].consumed
  BY <1>1, <1>2, PreparedIs DEF OInv, MemoryIsFile
<1>. QED
  BY <1>1, <1>2, <1>3 DEF FileKnows

\* The invariant holds at first, and a lone invocation keeps it.
LEMMA OInvInit == Init => OInv
<1>. SUFFICES ASSUME Init
              PROVE  OInv
  OBVIOUS
<1>1. file = Fresh /\ memory = [i \in Invocations |-> Closed] /\ told = {}
  BY DEF Init
<1>2. DOMAIN Fresh.pending = {}
  BY DEF Fresh, Nothing
<1>. QED
  BY <1>1, <1>2, MInvInit DEF OInv, Alone, MemoryIsFile, FileKnows

\* Every step of a lone invocation keeps it.
LEMMA OInvNext ==
  ASSUME ~Overlap, OInv, [Next]_vars
  PROVE  OInv'
<1>1. MInv'
  BY MInvNext DEF OInv
<1>2. CASE UNCHANGED vars
  BY <1>1, <1>2 DEF vars, OInv, Alone, MemoryIsFile, FileKnows
<1>3. CASE Tick
  BY <1>1, <1>3 DEF Tick, OInv, Alone, MemoryIsFile, FileKnows
<1>4. ASSUME NEW i \in Invocations, Open(i)
      PROVE  OInv'
  <2>1. FileKnows'
    BY <1>4 DEF OInv, Open, FileKnows
  <2>. QED
    BY <1>1, <1>4, <2>1, AloneNext DEF OInv
<1>5. ASSUME NEW i \in Invocations, End(i)
      PROVE  OInv'
  <2>1. FileKnows'
    BY <1>5 DEF OInv, End, FileKnows
  <2>. QED
    BY <1>1, <1>5, <2>1, AloneNext DEF OInv, End
<1>6. ASSUME NEW i \in Invocations,
             (\E amount \in Amounts : PrepareTask(i, amount)) \/ \E t \in Ids : PrepareRefund(i, t)
      PROVE  OInv'
  <2>1. memory[i] # Closed /\ IssueSaves(i)
    BY <1>6, PrepareKeeps DEF OInv
  <2>2. Alone' /\ MemoryIsFile'
    BY <2>1, AloneNext DEF IssueSaves
  <2>. QED
    BY <1>1, <2>1, <2>2, KnowsIssued DEF OInv
<1>7. ASSUME NEW i \in Invocations, NEW c \in Ids, SubmitTask(i, c) \/ SubmitRefund(i, c)
      PROVE  OInv'
  <2>1. MInv
    BY DEF OInv
  <2>2. /\ c \in prepared[i] /\ now < memory[i].pending[c].expires
        /\ \E b, t : Save(i, Written(b, Taken(memory[i], c).pending, t))
        /\ Settled(c)
    BY <1>7, <2>1, SubmitTaskKeeps, SubmitRefundKeeps
  <2>3. PICK b, t : Save(i, Written(b, Taken(memory[i], c).pending, t))
    BY <2>2
  <2>4. memory[i] # Closed
    BY <2>1, <2>2, PreparedIs
  <2>5. Alone' /\ MemoryIsFile'
    BY <2>3, <2>4, AloneNext
  <2>6. \A use \in told : use.conf # c
    BY <1>7, <2>1, <2>2, PreparedIs DEF SubmitTask, SubmitRefund, Takeable
  <2>7. FileKnows'
    BY <2>2, <2>3, <2>6, KnowsSettled
  <2>. QED
    BY <1>1, <2>5, <2>7 DEF OInv
<1>8. ASSUME NEW i \in Invocations, NEW c \in Ids, SubmitRefused(i, c)
      PROVE  OInv'
  <2>1. Alone' /\ MemoryIsFile'
    BY <1>8, AloneNext DEF SubmitRefused
  <2>. QED
    BY <1>1, <1>8, <2>1, KnowsRefused DEF OInv
<1>. QED
  BY <1>2, <1>3, <1>4, <1>5, <1>6, <1>7, <1>8 DEF Next

\* The invariant of invocations that run one at a time.
THEOREM LoneInvariance == ASSUME ~Overlap PROVE Spec => []OInv
<1>1. OInv /\ [Next]_vars => OInv'
  BY OInvNext
<1>. QED
  BY <1>1, OInvInit, PTL DEF Spec

\* A confirmation is used once and before it expires, and never after its submit
\* was refused (UsedOnceInTime).
THEOREM LoneUsesOnceInTime == ASSUME ~Overlap PROVE Spec => []UsedOnceInTime
<1>1. OInv => UsedOnceInTime
  BY DEF OInv, MInv, ToldOnce, FileKnows, UsedOnceInTime
<1>. QED
  BY <1>1, LoneInvariance, PTL

\* What a caller was told has been submitted is in the file, and with it in what
\* every later invocation reads (SettledIsKept).
THEOREM LoneKeepsSettled == ASSUME ~Overlap PROVE Spec => []SettledIsKept
<1>1. ASSUME OInv
      PROVE  SettledIsKept
  <2>1. Consistent(file)
    BY <1>1 DEF OInv, MInv, Sound
  <2>. SUFFICES ASSUME NEW use \in told, use.word = "submitted"
                PROVE  /\ use.conf \in DOMAIN file.pending
                       /\ file.pending[use.conf].consumed
                       /\ file.pending[use.conf].kind = "task_create" =>
                            use.conf \in DOMAIN file.tasks
                       /\ file.pending[use.conf].kind = "task_refund" =>
                            ~file.tasks[file.pending[use.conf].task].is_open
    BY DEF SettledIsKept
  <2>2. use.conf \in DOMAIN file.pending /\ file.pending[use.conf].consumed
    BY <1>1 DEF OInv, FileKnows
  <2>. QED
    BY <2>1, <2>2 DEF Consistent
<1>. QED
  BY <1>1, LoneInvariance, PTL

(***************************************************************************)
(* The mock submits as adapters/base.py promises.                          *)
(***************************************************************************)
\* The word of which T tells of c.
WordIn(T, c) ==
  IF \E use \in T : use.conf = c THEN (CHOOSE use \in T : use.conf = c).word ELSE "nothing"

\* If T tells of each confirmation once, that is what it tells.
LEMMA WordInIs ==
  ASSUME NEW T, \A use, other \in T : use.conf = other.conf => use = other, NEW use \in T
  PROVE  WordIn(T, use.conf) = use.word
<1>1. (CHOOSE u \in T : u.conf = use.conf) = use
  OBVIOUS
<1>. QED
  BY <1>1 DEF WordIn

\* What is said of a confirmation is what came of it.
Fate(word) ==
  CASE word = "submitted" -> "applied"
    [] word = "failed" -> "doomed"
    [] OTHER -> "unsent"

\* So it is with the file of a lone invocation.
LEMMA FateIs == OInv => \A d \in Ids : FateOf(d) = Fate(WordIn(told, d))
<1>. SUFFICES ASSUME OInv, NEW c \in Ids
              PROVE  FateOf(c) = Fate(WordIn(told, c))
  OBVIOUS
<1>1. Word(c) = WordIn(told, c)
  BY DEF Word, WordIn
<1>2. FileKnows /\ ToldOnce /\ told \subseteq Answers
  BY DEF OInv, MInv, Answers
<1>3. CASE \E use \in told : use.conf = c
  <2>1. PICK use \in told : use.conf = c
    BY <1>3
  <2>2. WordIn(told, c) = use.word
    BY <1>2, <2>1, WordInIs DEF ToldOnce
  <2>3. use.word \in {"submitted", "failed"}
    BY <1>2 DEF Answers
  <2>4. use.word = "submitted" <=> c \in DOMAIN file.pending /\ file.pending[c].consumed
    BY <1>2, <2>1, <2>3 DEF FileKnows
  <2>. QED
    BY <1>1, <2>2, <2>3, <2>4 DEF FateOf, Fate
<1>4. CASE ~ \E use \in told : use.conf = c
  <2>1. WordIn(told, c) = "nothing"
    BY <1>4 DEF WordIn
  <2>2. ~(c \in DOMAIN file.pending /\ file.pending[c].consumed)
    BY <1>2, <1>4 DEF FileKnows
  <2>. QED
    BY <1>1, <2>1, <2>2 DEF FateOf, Fate
<1>. QED
  BY <1>3, <1>4

\* And it is after the step.
LEMMA FateIsAfter ==
  ASSUME OInv'
  PROVE  \A d \in Ids : FateOf(d)' = Fate(WordIn(told', d))
<1>1. (\A d \in Ids : FateOf(d) = Fate(WordIn(told, d)))'
  BY FateIs, PTL
<1>. QED
  BY <1>1 DEF WordIn, Fate

\* A step that tells of nothing more is no step of the promise.
LEMMA SilentStutters ==
  ASSUME OInv, OInv', told' = told
  PROVE  UNCHANGED Promise!vars
<1>1. \A c \in Ids : FateOf(c) = Fate(WordIn(told, c))
  BY FateIs
<1>2. \A d \in Ids : FateOf(d)' = Fate(WordIn(told', d))
  BY FateIsAfter
<1>3. \A c \in Ids : Word(c)' = Word(c) /\ FateOf(c)' = FateOf(c)
  BY <1>1, <1>2 DEF Word, WordIn
<1>4. [c \in Ids |-> FateOf(c)]' = [c \in Ids |-> FateOf(c)]
  BY <1>3
<1>5. [c \in Ids |-> Word(c)]' = [c \in Ids |-> Word(c)]
  BY <1>3
<1>. QED
  BY <1>4, <1>5 DEF Promise!vars

\* The end of a submit is all of the promise's steps at once.
LEMMA SubmitIsAtOnce ==
  ASSUME OInv, OInv', NEW c \in Ids, \A use \in told : use.conf # c,
         NEW word \in {"submitted", "failed"}, Answered(c, word)
  PROVE  Promise!Next
<1> DEFINE new == [conf |-> c, at |-> now, word |-> word]
           F == [d \in Ids |-> FateOf(d)]
           W == [d \in Ids |-> Word(d)]
<1>1. told' = told \cup {new} /\ new.conf = c /\ new.word = word
  BY DEF Answered
<1>. HIDE DEF new
<1>2. ToldOnce /\ ToldOnce'
  BY DEF OInv, MInv
<1>3. \A d \in Ids : Word(d) = WordIn(told, d) /\ FateOf(d) = Fate(WordIn(told, d))
  BY FateIs DEF Word, WordIn
<1>4. \A d \in Ids : Word(d)' = WordIn(told', d)
  BY DEF Word, WordIn
<1>5. \A d \in Ids : FateOf(d)' = Fate(WordIn(told', d))
  BY FateIsAfter
<1>6. WordIn(told, c) = "nothing" /\ WordIn(told', c) = word
  <2>1. WordIn(told, c) = "nothing"
    BY DEF WordIn
  <2>2. \A use, other \in told' : use.conf = other.conf => use = other
    BY <1>2 DEF ToldOnce
  <2>. QED
    BY <1>1, <2>1, <2>2, WordInIs
<1>7. ASSUME NEW d \in Ids, d # c
      PROVE  WordIn(told', d) = WordIn(told, d)
  <2>1. CASE \E use \in told : use.conf = d
    <3>1. PICK use \in told : use.conf = d
      BY <2>1
    <3>2. /\ \A u, o \in told : u.conf = o.conf => u = o
          /\ \A u, o \in told' : u.conf = o.conf => u = o
          /\ use \in told'
      BY <1>1, <1>2 DEF ToldOnce
    <3>. QED
      BY <3>1, <3>2, WordInIs
  <2>2. CASE ~ \E use \in told : use.conf = d
    BY <1>1, <1>7, <2>2 DEF WordIn
  <2>. QED
    BY <2>1, <2>2
<1>8. \A d \in Ids : /\ F'[d] = Fate(WordIn(told', d)) /\ F[d] = Fate(WordIn(told, d))
                     /\ W'[d] = WordIn(told', d) /\ W[d] = WordIn(told, d)
  BY <1>3, <1>4, <1>5
<1>9. F' = [F EXCEPT ![c] = Fate(word)] /\ W' = [W EXCEPT ![c] = word]
  <2>1. F = [d \in Ids |-> F[d]] /\ W = [d \in Ids |-> W[d]]
    OBVIOUS
  <2>2. F' = [d \in Ids |-> F'[d]] /\ W' = [d \in Ids |-> W'[d]]
    OBVIOUS
  <2>3. \A d \in Ids : F'[d] = IF d = c THEN Fate(word) ELSE F[d]
    BY <1>6, <1>7, <1>8
  <2>4. \A d \in Ids : W'[d] = IF d = c THEN word ELSE W[d]
    BY <1>6, <1>7, <1>8
  <2>. HIDE DEF F, W
  <2>5. F' = [F EXCEPT ![c] = Fate(word)]
    BY <2>1, <2>2, <2>3
  <2>6. W' = [W EXCEPT ![c] = word]
    BY <2>1, <2>2, <2>4
  <2>. QED
    BY <2>5, <2>6
<1>10. F[c] = "unsent" /\ W[c] = "nothing" /\ W'[c] = word
  BY <1>6, <1>8 DEF Fate
<1>11. Promise!AtOnce(c)
  <2>1. CASE word = "submitted"
    <3> DEFINE end == <<"applied", "submitted">>
    <3>1. F' = [F EXCEPT ![c] = end[1]] /\ W' = [W EXCEPT ![c] = end[2]]
      BY <1>9, <2>1 DEF Fate
    <3>. QED
      BY <1>10, <3>1 DEF Promise!AtOnce
  <2>2. CASE word = "failed"
    <3> DEFINE end == <<"doomed", "failed">>
    <3>1. F' = [F EXCEPT ![c] = end[1]] /\ W' = [W EXCEPT ![c] = end[2]]
      BY <1>9, <2>2 DEF Fate
    <3>. QED
      BY <1>10, <3>1 DEF Promise!AtOnce
  <2>. QED
    BY <2>1, <2>2
<1>12. W' # W
  <2>. HIDE DEF W
  <2>. QED
    BY <1>10
<1>13. Promise!vars' # Promise!vars
  BY <1>12 DEF Promise!vars
<1>. QED
  BY <1>11, <1>13 DEF Promise!Next

\* Run one at a time, invocations keep what adapters/base.py promises of submits
\* (MockKeepsWord): a submit takes effect or is refused for good in one step, the
\* caller is told which, and no later save undoes it.
THEOREM LoneKeepsWord == ASSUME ~Overlap PROVE Spec => MockKeepsWord
<1>1. Init => Promise!Init
  <2>. SUFFICES ASSUME Init
                PROVE  Promise!Init
    OBVIOUS
  <2>1. \A c \in Ids : Word(c) = "nothing" /\ FateOf(c) = "unsent"
    BY DEF Init, Fresh, Nothing, Word, FateOf
  <2>. QED
    BY <2>1 DEF Promise!Init
<1>2. OInv /\ OInv' /\ [Next]_vars => [Promise!Next]_(Promise!vars)
  <2>. SUFFICES ASSUME OInv, OInv', [Next]_vars
                PROVE  [Promise!Next]_(Promise!vars)
    OBVIOUS
  <2>1. MInv
    BY DEF OInv
  <2>2. CASE told' = told
    BY <2>2, SilentStutters
  <2>3. ASSUME NEW i \in Invocations, NEW c \in Ids, SubmitTask(i, c) \/ SubmitRefund(i, c)
        PROVE  Promise!Next
    <3>1. c \in prepared[i] /\ ~memory[i].pending[c].consumed /\ Answered(c, "submitted")
      BY <2>3 DEF SubmitTask, SubmitRefund, Takeable, Settled
    <3>2. \A use \in told : use.conf # c
      BY <2>1, <3>1, PreparedIs
    <3>. QED
      BY <3>1, <3>2, SubmitIsAtOnce
  <2>4. ASSUME NEW i \in Invocations, NEW c \in Ids, SubmitRefused(i, c)
        PROVE  Promise!Next
    BY <2>4, SubmitIsAtOnce DEF SubmitRefused
  <2>5. CASE UNCHANGED vars \/ Tick
    BY <2>2, <2>5 DEF vars, Tick
  <2>6. ASSUME NEW i \in Invocations,
               \/ Open(i)
               \/ End(i)
               \/ \E amount \in Amounts : PrepareTask(i, amount)
               \/ \E t \in Ids : PrepareRefund(i, t)
        PROVE  told' = told
    BY <2>6 DEF Open, End, PrepareTask, PrepareRefund, Issue
  <2>. QED
    BY <2>2, <2>3, <2>4, <2>5, <2>6 DEF Next
<1>. QED
  BY <1>1, <1>2, LoneInvariance, PTL DEF Spec, MockKeepsWord, Promise!Spec
=============================================================================
