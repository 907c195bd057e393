---------------------------- MODULE HashdictProofs ----------------------------
(***************************************************************************)
(* Proofs about hashdict.  First its lock: for any number of enumerators   *)
(* and any order of calls, the session count is the number of walks under  *)
(* way.  Then its data: slots and trove mirror each other.  That rests on  *)
(* the probes, of which it is proved that they visit every slot, so that   *)
(* whatever is probed for is met within the paths' length; on the loops    *)
(* that squeeze the trove and fill the slots, by induction over the trove; *)
(* and on an invariant (MirrorInv) that says, for every slot in use, that  *)
(* a probe for its key gets there.  From it follow that every key is found *)
(* and that deletions end.  Last, that hashdict implements OrderedDict:    *)
(* its sequence of entries is written out by counting, for an index of the *)
(* trove, the live entries before it (Place), and each call is shown to do *)
(* to that sequence what the ordered dictionary does.                      *)
(***************************************************************************)
EXTENDS Hashdict, FiniteSetTheorems, WellFoundedInduction, TLAPS

\* Induction over the numbers, said of a set, so that it has no operator for a
\* parameter.  It rests on what the library says of the strict subsets of a finite
\* set: they get no smaller for ever.
LEMMA Induction ==
  ASSUME NEW S, 0 \in S, \A n \in Nat : n \in S => n + 1 \in S
  PROVE  Nat \subseteq S
  <1> DEFINE T == {1 .. n : n \in Nat \ S}
             R == StrictSubsetOrdering(Nat)
  <1> SUFFICES ASSUME ~(Nat \subseteq S) PROVE FALSE
    OBVIOUS
  <1>0. T # {}
    OBVIOUS
  <1>1. T \subseteq FiniteSubsetsOf(Nat)
    <2>1. \A n \in Nat : 1 .. n \in FiniteSubsetsOf(Nat)
      BY FS_Interval DEF FiniteSubsetsOf
    <2>2. QED
      BY <2>1
  <1>2. PICK x \in T : \A y \in T : ~(<<y, x>> \in R)
    <2> HIDE DEF T, R
    <2>1. QED
      BY <1>0, <1>1, FS_StrictSubsetOrderingWellFounded, WFMin DEF R
  <1>3. PICK m \in Nat \ S : x = 1 .. m
    OBVIOUS
  <1>4. m - 1 \in Nat \ S /\ m \in 1 .. m /\ m \notin 1 .. (m - 1)
    BY <1>3
  <1>5. <<1 .. (m - 1), x>> \in R
    BY <1>3, <1>4 DEF StrictSubsetOrdering
  <1>6. QED
    BY <1>2, <1>4, <1>5

Going == {e \in Enumor : InProgress(e)}

\* What the steps need to know of the enumerators: their fields.
Shaped(en) ==
  /\ en = [e \in Enumor |-> en[e]]
  /\ \A e \in Enumor :
       /\ en[e] = [from |-> en[e].from, started |-> en[e].started,
                   ended |-> en[e].ended, next |-> en[e].next]
       /\ en[e].started \in BOOLEAN /\ en[e].ended \in BOOLEAN

LockInv == Shaped(enumors) /\ SessionsExact

--------------------------------------------------------------------------------
(***************************************************************************)
(* Counting the walks.                                                     *)
(***************************************************************************)
LEMMA SomeCount ==
  ASSUME NEW S, IsFiniteSet(S), NEW T \in SUBSET S
  PROVE  IsFiniteSet(T) /\ Cardinality(T) \in Nat
  <1>1. IsFiniteSet(T)
    BY FS_Subset
  <1>2. QED
    BY <1>1, FS_CardinalityType

\* A walk that begins adds one to the number of walks.
LEMMA OneMore ==
  ASSUME NEW S, IsFiniteSet(S), NEW T \in SUBSET S, NEW e, e \notin T
  PROVE  Cardinality(T \cup {e}) = Cardinality(T) + 1
  <1>1. IsFiniteSet(T)
    BY SomeCount
  <1>2. QED
    BY <1>1, FS_AddElement

\* A walk that ends takes one from it.
LEMMA OneLess ==
  ASSUME NEW S, IsFiniteSet(S), NEW T \in SUBSET S, NEW e \in T
  PROVE  Cardinality(T \ {e}) = Cardinality(T) - 1 /\ Cardinality(T) > 0
  <1>1. IsFiniteSet(T) /\ Cardinality(T) \in Nat
    BY SomeCount
  <1>2. Cardinality(T) # 0
    BY <1>1, FS_EmptySet
  <1>3. Cardinality(T \ {e}) = Cardinality(T) - 1
    BY <1>1, FS_RemoveElement
  <1>4. QED
    BY <1>1, <1>2, <1>3

--------------------------------------------------------------------------------
(***************************************************************************)
(* What each call does to the enumerators and to the count.                *)
(***************************************************************************)
\* A call that leaves the enumerators alone, and the count, keeps the lock.
LEMMA UntouchedLock ==
  ASSUME LockInv, UNCHANGED <<enumors, sessions>>, pending' => sessions > 0
  PROVE  LockInv'
  BY DEF LockInv, Shaped, SessionsExact, InProgress

LEMMA SetKeyLock ==
  ASSUME LockInv, NEW k, NEW v, NEW overwrite, SetKey(k, v, overwrite)
  PROVE  LockInv'
  <1>1. UNCHANGED <<sessions, pending, enumors>>
    BY DEF SetKey
  <1>2. QED
    BY <1>1, UntouchedLock DEF LockInv, SessionsExact

\* Deleting may postpone a shrink, but only while there is a walk.
LEMMA CheckToCompactLock ==
  ASSUME NEW sess, NEW sl, NEW ac, NEW dm, NEW tr, NEW dead,
         CheckToCompact(sess, sl, ac, dm, tr, dead)
  PROVE  pending' => sess # 0
  BY DEF CheckToCompact, Postponed

LEMMA DelLock ==
  ASSUME IsFiniteSet(Enumor), LockInv, NEW k, Del(k)
  PROVE  LockInv'
  <1>1. /\ UNCHANGED <<sessions, enumors>>
        /\ pending' = pending \/ (pending' => sessions # 0)
    BY CheckToCompactLock DEF Del, Answers, dictVars
  <1>2. sessions \in Nat
    BY SomeCount DEF LockInv, SessionsExact
  <1>3. QED
    BY <1>1, <1>2, UntouchedLock DEF LockInv, SessionsExact

LEMMA AnswersLock ==
  ASSUME LockInv, NEW r, Answers(r)
  PROVE  LockInv'
  <1>1. UNCHANGED <<sessions, pending, enumors>>
    BY DEF Answers, dictVars
  <1>2. QED
    BY <1>1, UntouchedLock DEF LockInv, SessionsExact

\* Compacting, renaming and the debug parameters touch neither.
LEMMA CompactLock ==
  ASSUME LockInv, Compact \/ (\E k, new : KeyRename(k, new)) \/ (\E pct : SetDbgParams(pct))
  PROVE  LockInv'
  <1>1. UNCHANGED <<sessions, pending, enumors>>
    BY DEF Compact, KeyRename, SetDbgParams, Answers, dictVars
  <1>2. QED
    BY <1>1, UntouchedLock DEF LockInv, SessionsExact

\* Clearing and copying are done only when nobody walks.
LEMMA ClearLock ==
  ASSUME IsFiniteSet(Enumor), LockInv, Clear \/ CopyDict
  PROVE  LockInv'
  <1>1. Going \in SUBSET Enumor /\ Cardinality(Going) \in Nat
    BY SomeCount DEF Going
  <1>2. sessions = Cardinality(Going) /\ (pending => sessions > 0)
    BY DEF LockInv, SessionsExact, Going
  <1>3. CASE Answers(ret')
    BY <1>3, AnswersLock
  <1>4. CASE sessions <= 0 /\ sessions' = 0 /\ pending' = FALSE /\ UNCHANGED enumors
    <2>1. sessions = 0
      BY <1>1, <1>2, <1>4
    <2>2. UNCHANGED <<enumors, sessions>> /\ (pending' => sessions > 0)
      BY <1>4, <2>1
    <2>3. QED
      BY <2>2, UntouchedLock
  <1>5. CASE CopyDict
    <2>1. Going = {}
      BY <1>5 DEF CopyDict, Going
    <2>2. sessions = 0
      BY <1>2, <2>1, FS_EmptySet
    <2>3. sessions' = 0 /\ pending' = FALSE /\ UNCHANGED enumors
      BY <1>5 DEF CopyDict
    <2>4. UNCHANGED <<enumors, sessions>> /\ (pending' => sessions > 0)
      BY <2>2, <2>3
    <2>5. QED
      BY <2>4, UntouchedLock
  <1>6. QED
    BY <1>3, <1>4, <1>5 DEF Clear, Answers

--------------------------------------------------------------------------------
(***************************************************************************)
(* The enumerators' own calls.                                             *)
(***************************************************************************)
LEMMA DecreaseLock ==
  ASSUME NEW sess \in Nat, pending => sessions > 0, DecreaseSessionCount(sess)
  PROVE  sessions' = sess /\ (pending' => sess > 0)
  <1>1. CASE sess = 0 /\ pending
    BY <1>1, CheckToCompactLock DEF DecreaseSessionCount
  <1>2. CASE ~(sess = 0 /\ pending)
    BY <1>2 DEF DecreaseSessionCount
  <1>3. QED
    BY <1>1, <1>2

LEMMA GetKeysLock ==
  ASSUME IsFiniteSet(Enumor), LockInv, GetKeys
  PROVE  LockInv'
  <1>1. sessions \in Nat /\ (pending => sessions > 0)
    BY SomeCount DEF LockInv, SessionsExact
  <1>2. sessions' = sessions /\ (pending' => sessions > 0)
    BY <1>1, DecreaseLock DEF GetKeys
  <1>3. UNCHANGED enumors
    BY DEF GetKeys
  <1>4. QED
    BY <1>2, <1>3, UntouchedLock

\* Enumerators keep their fields when one is replaced.
LEMMA ReplacedShape ==
  ASSUME Shaped(enumors), NEW e \in Enumor, NEW f, NEW s \in BOOLEAN, NEW d \in BOOLEAN, NEW n,
         enumors' = [enumors EXCEPT ![e] = [from |-> f, started |-> s, ended |-> d, next |-> n]]
  PROVE  Shaped(enumors')
  BY DEF Shaped

\* One enumerator changes: how the walks, and with them the count, change.
LEMMA OneEnumorChanges ==
  ASSUME IsFiniteSet(Enumor), LockInv, NEW e \in Enumor, NEW rec,
         Shaped(enumors'), enumors' = [enumors EXCEPT ![e] = rec],
         pending' => sessions' > 0,
         sessions' = IF InProgress(e) = InProgress(e)' THEN sessions
                     ELSE IF InProgress(e) THEN sessions - 1 ELSE sessions + 1
  PROVE  LockInv'
  <1> DEFINE T == {x \in Enumor : InProgress(x)}
  <1>1. T \in SUBSET Enumor /\ Cardinality(T) \in Nat /\ sessions = Cardinality(T)
    BY SomeCount DEF LockInv, SessionsExact
  <1>2. \A x \in Enumor : x # e => (InProgress(x)' <=> InProgress(x))
    BY DEF InProgress, LockInv, Shaped
  <1>3. InProgress(e) \in BOOLEAN /\ InProgress(e)' \in BOOLEAN
    BY DEF InProgress
  <1>4. sessions' = Cardinality(T')
    <2>1. CASE InProgress(e) = InProgress(e)'
      <3>1. T' = T
        BY <1>2, <2>1
      <3>2. QED
        BY <1>1, <2>1, <3>1
    <2>2. CASE InProgress(e) /\ ~InProgress(e)'
      <3>1. T' = T \ {e} /\ e \in T
        BY <1>2, <2>2
      <3>2. Cardinality(T \ {e}) = Cardinality(T) - 1
        BY <1>1, <3>1, OneLess
      <3>3. QED
        BY <1>1, <2>2, <3>1, <3>2
    <2>3. CASE ~InProgress(e) /\ InProgress(e)'
      <3>1. T' = T \cup {e} /\ e \notin T
        BY <1>2, <2>3
      <3>2. Cardinality(T \cup {e}) = Cardinality(T) + 1
        BY <1>1, <3>1, OneMore
      <3>3. QED
        BY <1>1, <2>3, <3>1, <3>2
    <2>4. QED
      BY <1>3, <2>1, <2>2, <2>3
  <1>5. QED
    BY <1>4 DEF LockInv, SessionsExact

\* A walk that ends, and what was postponed until then.
LEMMA WalkEndsLock ==
  ASSUME IsFiniteSet(Enumor), LockInv, NEW e \in Enumor, NEW rec,
         Shaped(enumors'), enumors' = [enumors EXCEPT ![e] = rec],
         InProgress(e), InProgress(e)' = FALSE, DecreaseSessionCount(sessions - 1)
  PROVE  LockInv'
  <1>1. Going \in SUBSET Enumor /\ e \in Going /\ sessions = Cardinality(Going)
    BY DEF Going, LockInv, SessionsExact
  <1>2. Cardinality(Going) \in Nat /\ Cardinality(Going) > 0
    BY <1>1, SomeCount, OneLess
  <1>3. sessions - 1 \in Nat /\ (pending => sessions > 0)
    BY <1>1, <1>2 DEF LockInv, SessionsExact
  <1>4. sessions' = sessions - 1 /\ (pending' => sessions - 1 > 0)
    BY <1>3, DecreaseLock
  <1>5. InProgress(e) = TRUE
    BY DEF InProgress
  <1>6. /\ sessions' = IF InProgress(e) = InProgress(e)' THEN sessions
                       ELSE IF InProgress(e) THEN sessions - 1 ELSE sessions + 1
        /\ pending' => sessions' > 0
    BY <1>4, <1>5
  <1>7. QED
    BY <1>6, OneEnumorChanges

LEMMA EnumNextLock ==
  ASSUME IsFiniteSet(Enumor), LockInv, NEW e \in Enumor, EnumNext(e)
  PROVE  LockInv'
  <1> DEFINE was == enumors[e].started
             start == StartOf(e)
             found == IF start = 0 THEN 0 ELSE NextLive(start)
             goes == [from |-> enumors[e].from, started |-> TRUE,
                      ended |-> FALSE, next |-> found + 1]
             ends == [from |-> enumors[e].from, ended |-> TRUE,
                      started |-> was, next |-> 0]
  <1>1. sessions \in Nat /\ (pending => sessions > 0)
    BY SomeCount DEF LockInv, SessionsExact
  <1>2. Shaped(enumors) /\ was \in BOOLEAN
    BY DEF LockInv, Shaped
  <1>3. CASE UNCHANGED <<sessions, pending, enumors>>
    BY <1>1, <1>3, UntouchedLock
  <1>4. CASE /\ ~enumors[e].ended /\ enumors' = [enumors EXCEPT ![e] = goes]
             /\ sessions' = sessions + IF was THEN 0 ELSE 1
             /\ UNCHANGED pending
    <2> HIDE DEF found
    <2>1. Shaped(enumors')
      BY <1>2, <1>4, ReplacedShape
    <2>2. InProgress(e)' = TRUE
      BY <1>2, <1>4 DEF InProgress, Shaped
    <2>3. CASE was
      <3>1. InProgress(e) = TRUE
        BY <1>4, <2>3 DEF InProgress
      <3>2. sessions' = sessions + 0 /\ pending' = pending
        BY <1>4, <2>3
      <3>3. sessions' = sessions /\ (pending' => sessions' > 0)
        BY <1>1, <3>2
      <3>4. QED
        BY <1>4, <2>1, <2>2, <3>1, <3>3, OneEnumorChanges
    <2>4. CASE ~was
      <3>1. InProgress(e) = FALSE
        BY <2>4 DEF InProgress
      <3>2. sessions' = sessions + 1 /\ pending' = pending
        BY <1>1, <1>4, <2>4
      <3>3. pending' => sessions' > 0
        BY <1>1, <3>2
      <3>4. QED
        BY <1>4, <2>1, <2>2, <3>1, <3>2, <3>3, OneEnumorChanges
    <2>5. QED
      BY <2>3, <2>4
  <1>5. CASE /\ ~enumors[e].ended /\ enumors' = [enumors EXCEPT ![e] = ends]
             /\ IF EndsSession(e) THEN DecreaseSessionCount(sessions - 1)
                ELSE UNCHANGED <<slotVars, highmark, troveVars, sessions, pending>>
    <2>1. Shaped(enumors')
      BY <1>2, <1>5, ReplacedShape
    <2>2. InProgress(e)' = FALSE
      BY <1>2, <1>5 DEF InProgress, Shaped
    <2>3. CASE was
      <3>1. InProgress(e)
        BY <1>5, <2>3 DEF InProgress
      <3>2. DecreaseSessionCount(sessions - 1)
        BY <1>5, <2>3 DEF EndsSession
      <3>3. QED
        BY <1>5, <2>1, <2>2, <3>1, <3>2, WalkEndsLock
    <2>4. CASE ~was
      <3>1. InProgress(e) = FALSE
        BY <2>4 DEF InProgress
      <3>2. sessions' = sessions /\ pending' = pending
        BY <1>5, <2>4 DEF EndsSession
      <3>3. QED
        BY <1>1, <1>5, <2>1, <2>2, <3>1, <3>2, OneEnumorChanges
    <2>5. QED
      BY <2>3, <2>4
  <1>6. QED
    BY <1>3, <1>4, <1>5 DEF EnumNext

LEMMA EnumResetLock ==
  ASSUME IsFiniteSet(Enumor), LockInv, NEW e \in Enumor, NEW from, EnumReset(e, from)
  PROVE  LockInv'
  <1>1. sessions \in Nat /\ (pending => sessions > 0)
    BY SomeCount DEF LockInv, SessionsExact
  <1>2. Shaped(enumors)
    BY DEF LockInv
  <1>3. enumors' = [enumors EXCEPT ![e] = FreshEnumor(from)] /\ Shaped(enumors')
    BY <1>2 DEF EnumReset, FreshEnumor, Shaped
  <1>4. InProgress(e)' = FALSE
    BY <1>2, <1>3 DEF InProgress, FreshEnumor, Shaped
  <1>5. CASE InProgress(e)
    BY <1>3, <1>4, <1>5, WalkEndsLock DEF EnumReset, SessionsAfterReset
  <1>6. CASE ~InProgress(e)
    <2>1. UNCHANGED <<sessions, pending>>
      BY <1>6 DEF EnumReset
    <2>2. InProgress(e) = FALSE
      BY <1>6 DEF InProgress
    <2>3. /\ sessions' = IF InProgress(e) = InProgress(e)' THEN sessions
                         ELSE IF InProgress(e) THEN sessions - 1 ELSE sessions + 1
          /\ pending' => sessions' > 0
      BY <1>1, <1>4, <2>1, <2>2
    <2>4. QED
      BY <1>3, <2>3, OneEnumorChanges
  <1>7. QED
    BY <1>5, <1>6

\* A copy made between walks is not itself a walk.
LEMMA EnumCopyLock ==
  ASSUME IsFiniteSet(Enumor), "EnumCopyWalking" \notin Calls, LockInv,
         NEW e \in Enumor, NEW e2 \in Enumor, EnumCopy(e, e2)
  PROVE  LockInv'
  <1>1. sessions \in Nat /\ (pending => sessions > 0)
    BY SomeCount DEF LockInv, SessionsExact
  <1>2. Shaped(enumors)
    BY DEF LockInv
  <1>3. enumors' = [enumors EXCEPT ![e2] = enumors[e]] /\ Shaped(enumors')
    BY <1>2 DEF EnumCopy, Shaped
  <1>4. InProgress(e2) = FALSE /\ InProgress(e2)' = FALSE
    BY <1>2, <1>3 DEF EnumCopy, InProgress, Shaped
  <1>5. UNCHANGED <<sessions, pending>>
    BY DEF EnumCopy, dictVars
  <1>6. /\ sessions' = IF InProgress(e2) = InProgress(e2)' THEN sessions
                       ELSE IF InProgress(e2) THEN sessions - 1 ELSE sessions + 1
        /\ pending' => sessions' > 0
    BY <1>1, <1>4, <1>5
  <1>7. QED
    BY <1>3, <1>6, OneEnumorChanges

--------------------------------------------------------------------------------
(***************************************************************************)
(* The specification.                                                      *)
(***************************************************************************)
LEMMA InitLock ==
  ASSUME Init
  PROVE  LockInv
  <1>1. Shaped(enumors)
    BY DEF Init, FreshEnumor, Shaped
  <1>2. {e \in Enumor : InProgress(e)} = {}
    BY DEF Init, FreshEnumor, InProgress
  <1>3. sessions = Cardinality({e \in Enumor : InProgress(e)})
    BY <1>2, FS_EmptySet DEF Init
  <1>4. QED
    BY <1>1, <1>3 DEF Init, LockInv, SessionsExact

LEMMA NextLock ==
  ASSUME IsFiniteSet(Enumor), "EnumCopyWalking" \notin Calls, LockInv, [Next]_vars
  PROVE  LockInv'
  <1>1. CASE \E k \in Key, v \in Value, overwrite \in BOOLEAN : SetKey(k, v, overwrite)
    BY <1>1, SetKeyLock
  <1>2. ASSUME NEW k \in Key, Get(k)
        PROVE  LockInv'
    BY <1>2, AnswersLock DEF Get
  <1>3. ASSUME NEW k \in Key, Del(k)
        PROVE  LockInv'
    BY <1>3, DelLock
  <1>4. CASE Compact \/ (\E k, new \in Key : KeyRename(k, new))
               \/ (\E pct \in HungrySlots : SetDbgParams(pct))
    BY <1>4, CompactLock
  <1>5. CASE Clear \/ CopyDict
    BY <1>5, ClearLock
  <1>6. CASE GetKeys
    BY <1>6, GetKeysLock
  <1>7. ASSUME NEW e \in Enumor,
               EnumNext(e) \/ (\E from \in FromKeys : EnumReset(e, from))
                 \/ (\E e2 \in Enumor : EnumCopy(e, e2))
        PROVE  LockInv'
    BY <1>7, EnumNextLock, EnumResetLock, EnumCopyLock
  <1>8. CASE UNCHANGED vars
    <2>1. UNCHANGED <<sessions, pending, enumors>>
      BY <1>8 DEF vars
    <2>2. QED
      BY <2>1, UntouchedLock DEF LockInv, SessionsExact
  <1>9. QED
    BY <1>1, <1>2, <1>3, <1>4, <1>5, <1>6, <1>7, <1>8 DEF Next

\* hashdict.h:386 "if >0, someone is enumerating this dict, that locks the
\* dict": for any keys, hashes and tuning, and any number of enumerators, the
\* count is exactly the number of walks under way, and a postponed shrink
\* waits for one of them -- as long as no enumerator is copied in mid-walk.
THEOREM SessionsCorrect ==
  ASSUME IsFiniteSet(Enumor), "EnumCopyWalking" \notin Calls
  PROVE  Spec => []SessionsExact
  <1>1. Init => LockInv
    BY InitLock
  <1>2. LockInv /\ [Next]_vars => LockInv'
    BY NextLock
  <1>3. LockInv => SessionsExact
    BY DEF LockInv
  <1>4. QED
    BY <1>1, <1>2, <1>3, PTL DEF Spec

--------------------------------------------------------------------------------
(***************************************************************************)
(* Powers of two, and loops of n rounds.                                   *)
(***************************************************************************)
Rounds(n, b, g, f) == f[0] = b /\ \A i \in 1 .. n : f[i] = g[i][f[i - 1]]

\* What a loop of n rounds computes, each round a function of the one before.
LEMMA Iteration ==
  ASSUME NEW n \in Nat, NEW V, NEW b \in V, NEW g, g \in [1 .. n -> [V -> V]]
  PROVE  \E f \in [0 .. n -> V] : Rounds(n, b, g, f)
  <1> DEFINE Runs(m) == \E f \in [0 .. m -> V] : Rounds(m, b, g, f)
             S == {m \in Nat : m <= n => Runs(m)}
  <1>1. 0 \in S
    <2>1. [i \in 0 .. 0 |-> b] \in [0 .. 0 -> V] /\ [i \in 0 .. 0 |-> b][0] = b
      OBVIOUS
    <2>2. \A i \in 1 .. 0 : FALSE
      OBVIOUS
    <2>3. Runs(0)
      BY <2>1, <2>2, Zenon DEF Rounds
    <2>4. QED
      BY <2>3
  <1>2. ASSUME NEW m \in Nat, m \in S
        PROVE  m + 1 \in S
    <2>1. SUFFICES ASSUME m + 1 <= n PROVE Runs(m + 1)
      OBVIOUS
    <2>2. PICK f \in [0 .. m -> V] : f[0] = b /\ \A i \in 1 .. m : f[i] = g[i][f[i - 1]]
      BY <1>2, <2>1 DEF Rounds
    <2> DEFINE h == [i \in 0 .. m + 1 |-> IF i = m + 1 THEN g[m + 1][f[m]] ELSE f[i]]
    <2>3. m + 1 \in 1 .. n /\ f[m] \in V /\ g[m + 1] \in [V -> V]
      BY <2>1
    <2>4. g[m + 1][f[m]] \in V
      BY <2>3
    <2>5. h \in [0 .. m + 1 -> V]
      BY <2>4
    <2>6. h[0] = b
      BY <2>2
    <2>7. ASSUME NEW i \in 1 .. m + 1 PROVE h[i] = g[i][h[i - 1]]
      <3>1. h[i - 1] = f[i - 1]
        OBVIOUS
      <3>2. CASE i = m + 1
        BY <3>1, <3>2
      <3>3. CASE i # m + 1
        BY <2>2, <3>1, <3>3
      <3>4. QED
        BY <3>2, <3>3
    <2>8. QED
      <3> HIDE DEF h
      <3>1. QED
        BY <2>5, <2>6, <2>7 DEF Rounds
  <1>3. Nat \subseteq S
    <2> HIDE DEF S
    <2>1. QED
      BY <1>1, <1>2, Induction
  <1>4. QED
    BY <1>3

\* Doubling: 1 << n is what it should be.
LEMMA Doubling ==
  /\ Pow2 \in [Nat -> Nat \ {0}]
  /\ Pow2[0] = 1
  /\ \A n \in Nat : Pow2[n + 1] = 2 * Pow2[n]
  <1> DEFINE Doubles(n, f) == f[0] = 1 /\ \A i \in 1 .. n : f[i] = 2 * f[i - 1]
             Upto(n) == {f \in [0 .. n -> Nat \ {0}] : Doubles(n, f)}
             T(n) == CHOOSE f \in Upto(n) : TRUE
             P == [n \in Nat |-> T(n)[n]]
  <1>1. ASSUME NEW n \in Nat PROVE Upto(n) # {}
    <2> DEFINE V == Nat \ {0}
               b == 1
               g == [i \in 1 .. n |-> [v \in V |-> 2 * v]]
    <2>1. b \in V /\ g \in [1 .. n -> [V -> V]]
      OBVIOUS
    <2>2. PICK f \in [0 .. n -> V] : Rounds(n, b, g, f)
      <3> HIDE DEF V, b, g
      <3>1. QED
        BY <2>1, Iteration
    <2>3. f[0] = 1 /\ \A i \in 1 .. n : f[i] = g[i][f[i - 1]]
      <3> HIDE DEF g
      <3>1. QED
        BY <2>2 DEF Rounds
    <2>4. f \in [0 .. n -> Nat \ {0}]
      BY <2>2
    <2>5. ASSUME NEW i \in 1 .. n PROVE f[i] = 2 * f[i - 1]
      <3>1. f[i - 1] \in V
        BY <2>2
      <3>2. g[i][f[i - 1]] = 2 * f[i - 1]
        <4> HIDE DEF V
        <4>1. QED
          BY <3>1
      <3>3. QED
        <4> HIDE DEF g
        <4>1. QED
          BY <2>3, <3>2
    <2>8. Doubles(n, f)
      BY <2>3, <2>5
    <2>6. f \in Upto(n)
      <3> HIDE DEF Doubles
      <3>1. QED
        BY <2>4, <2>8
    <2>7. QED
      <3> HIDE DEF Upto
      <3>1. QED
        BY <2>6
  <1>2. ASSUME NEW n \in Nat, NEW m \in Nat, n <= m, NEW f \in Upto(n), NEW h \in Upto(m)
        PROVE  f[n] = h[n]
    <2> DEFINE S == {i \in Nat : i <= n => f[i] = h[i]}
    <2>1. 0 \in S
      OBVIOUS
    <2>2. ASSUME NEW i \in Nat, i \in S PROVE i + 1 \in S
      <3>1. SUFFICES ASSUME i + 1 <= n PROVE f[i + 1] = h[i + 1]
        OBVIOUS
      <3>2. f[i] = h[i]
        BY <2>2, <3>1
      <3>3. i + 1 \in 1 .. n /\ i + 1 \in 1 .. m /\ (i + 1) - 1 = i
        BY <1>2, <3>1
      <3>4. f[i + 1] = 2 * f[i] /\ h[i + 1] = 2 * h[i]
        BY <3>3
      <3>5. QED
        BY <3>2, <3>4
    <2>3. Nat \subseteq S
      <3> HIDE DEF S
      <3>1. QED
        BY <2>1, <2>2, Induction
    <2>4. QED
      BY <2>3
  <1>3. ASSUME NEW n \in Nat
        PROVE  T(n) \in Upto(n)
    BY <1>1, Zenon
  <1> HIDE DEF T
  <1>4. ASSUME NEW n \in Nat
        PROVE  P[n] \in Nat \ {0}
    BY <1>3
  <1>5. P[0] = 1
    BY <1>3
  <1>6. ASSUME NEW n \in Nat
        PROVE  P[n + 1] = 2 * P[n]
    <2>1. n + 1 \in Nat /\ n <= n + 1 /\ n + 1 \in 1 .. n + 1 /\ (n + 1) - 1 = n
      OBVIOUS
    <2>2. T(n) \in Upto(n) /\ T(n + 1) \in Upto(n + 1)
      BY <1>3, <2>1
    <2>3. T(n)[n] = T(n + 1)[n]
      <3> HIDE DEF Upto
      <3>1. QED
        BY <1>2, <2>1, <2>2
    <2>4. T(n + 1)[n + 1] = 2 * T(n + 1)[n]
      BY <2>1, <2>2
    <2>5. P[n] = T(n)[n] /\ P[n + 1] = T(n + 1)[n + 1]
      BY <2>1
    <2>6. QED
      <3> HIDE DEF P
      <3>1. QED
        BY <2>3, <2>4, <2>5
  <1>7. P = [n \in Nat |-> IF n = 0 THEN 1 ELSE 2 * P[n - 1]]
    <2>1. ASSUME NEW n \in Nat PROVE P[n] = IF n = 0 THEN 1 ELSE 2 * P[n - 1]
      <3> HIDE DEF P
      <3>1. CASE n = 0
        BY <1>5, <3>1
      <3>2. CASE n # 0
        <4>1. n - 1 \in Nat /\ (n - 1) + 1 = n
          BY <3>2
        <4>2. P[(n - 1) + 1] = 2 * P[n - 1]
          BY <1>6, <4>1
        <4>3. QED
          BY <3>2, <4>1, <4>2
      <3>3. QED
        BY <3>1, <3>2
    <2>2. P = [n \in Nat |-> P[n]]
      OBVIOUS
    <2>3. QED
      <3> HIDE DEF P
      <3>1. QED
        BY <2>1, <2>2
  <1>8. Pow2 = [n \in Nat |-> IF n = 0 THEN 1 ELSE 2 * Pow2[n - 1]]
    <2> HIDE DEF P
    <2>1. QED
      BY <1>7, Zenon DEF Pow2
  <1>9. \A n \in Nat : Pow2[n + 1] = 2 * Pow2[n]
    <2>1. QED
      BY <1>8
  <1>10. Pow2[0] = 1
    BY <1>8
  <1>11. ASSUME NEW n \in Nat PROVE Pow2[n] \in Nat \ {0}
    <2> DEFINE S == {i \in Nat : Pow2[i] \in Nat \ {0}}
    <2>1. 0 \in S
      BY <1>10
    <2>2. ASSUME NEW i \in Nat, i \in S PROVE i + 1 \in S
      BY <1>9, <2>2
    <2>3. Nat \subseteq S
      <3> HIDE DEF S
      <3>1. QED
        BY <2>1, <2>2, Induction
    <2>4. QED
      BY <2>3
  <1>12. QED
    BY <1>8, <1>9, <1>10, <1>11

--------------------------------------------------------------------------------
(***************************************************************************)
(* LCGen's sequence as a run of numbers.                                   *)
(***************************************************************************)
\* What \div and % mean, in the form the provers multiply out.
LEMMA Remainder ==
  ASSUME NEW x \in Int, NEW m \in Nat \ {0}
  PROVE  \E q \in Int, r \in 0 .. m - 1 : q = x \div m /\ r = x % m /\ x = m * q + r
  <1> DEFINE q == x \div m
             r == x % m
  <1>1. q \in Int /\ r \in 0 .. m - 1 /\ x = m * q + r
    OBVIOUS
  <1>2. q = x \div m /\ r = x % m
    OBVIOUS
  <1> HIDE DEF q, r
  <1>3. QED
    BY <1>1, <1>2

\* A number below m times n, divided by m, is below n.
LEMMA Quotient ==
  ASSUME NEW x \in Nat, NEW m \in Nat \ {0}
  PROVE  x \div m \in Nat /\ \A n \in Nat : x < m * n => x \div m < n
  <1>1. PICK q \in Int, r \in 0 .. m - 1 : q = x \div m /\ x = m * q + r
    BY Remainder
  <1>2. q >= 0
    <2>1. q < 0 => m * q <= m * (-1)
      OBVIOUS
    <2>2. QED
      BY <1>1, <2>1
  <1>3. ASSUME NEW n \in Nat, x < m * n PROVE q < n
    <2>1. q >= n => m * q >= m * n
      OBVIOUS
    <2>2. QED
      BY <1>1, <1>3, <2>1
  <1>4. QED
    BY <1>1, <1>2, <1>3

\* Products of whole numbers are whole.
LEMMA Products ==
  \A a, b \in Nat : Pow2[a + b] = Pow2[a] * Pow2[b]
  <1> SUFFICES ASSUME NEW a \in Nat PROVE \A b \in Nat : Pow2[a + b] = Pow2[a] * Pow2[b]
    OBVIOUS
  <1> DEFINE S == {b \in Nat : Pow2[a + b] = Pow2[a] * Pow2[b]}
  <1>1. 0 \in S
    BY Doubling
  <1>2. ASSUME NEW b \in Nat, b \in S PROVE b + 1 \in S
    <2>1. Pow2[a + (b + 1)] = 2 * Pow2[a + b]
      <3>1. a + (b + 1) = (a + b) + 1 /\ a + b \in Nat
        OBVIOUS
      <3>2. QED
        BY <3>1, Doubling
    <2>2. Pow2[b + 1] = 2 * Pow2[b] /\ Pow2[a] \in Nat /\ Pow2[b] \in Nat
      BY Doubling
    <2>3. Pow2[a + b] = Pow2[a] * Pow2[b]
      BY <1>2
    <2>4. Pow2[a + (b + 1)] = Pow2[a] * Pow2[b + 1]
      <3> DEFINE p == Pow2[a]
                 q == Pow2[b]
      <3>1. p \in Nat /\ q \in Nat
        BY <2>2
      <3>2. Pow2[a + (b + 1)] = 2 * (p * q) /\ Pow2[b + 1] = 2 * q
        BY <2>1, <2>2, <2>3
      <3> HIDE DEF p, q
      <3>3. 2 * (p * q) = p * (2 * q)
        BY <3>1
      <3>4. QED
        BY <3>2, <3>3 DEF p
    <2>5. QED
      BY <2>4
  <1>3. Nat \subseteq S
    <2> HIDE DEF S
    <2>1. QED
      BY <1>1, <1>2, Induction
  <1>4. QED
    BY <1>3

\* Wider slots are more slots.
LEMMA Wider ==
  \A a, b \in Nat : a <= b => Pow2[a] <= Pow2[b]
  <1> SUFFICES ASSUME NEW a \in Nat, NEW b \in Nat, a <= b PROVE Pow2[a] <= Pow2[b]
    OBVIOUS
  <1> DEFINE d == b - a
             p == Pow2[a]
             q == Pow2[d]
  <1>1. d \in Nat /\ a + d = b
    OBVIOUS
  <1>2. p \in Nat /\ q \in Nat \ {0}
    BY <1>1, Doubling
  <1>3. Pow2[b] = p * q
    <2> HIDE DEF d
    <2>1. QED
      BY <1>1, Products
  <1> HIDE DEF p, q
  <1>4. p <= p * q
    BY <1>2
  <1>5. QED
    BY <1>3, <1>4 DEF p

--------------------------------------------------------------------------------
(***************************************************************************)
(* The probe sequence.                                                     *)
(***************************************************************************)
\* f is the run of LCGen from perturbation h through slots of width w.
Generates(h, w, f) ==
  /\ f \in [0 .. PathLength(w) -> [cur : Nat, perturb : Nat]]
  /\ f[0] = [cur |-> 0, perturb |-> h]
  /\ \A i \in 1 .. PathLength(w) :
       /\ f[i].cur = (f[i - 1].cur * 5 + 1 + f[i - 1].perturb) % Pow2[w]
       /\ f[i].perturb = f[i - 1].perturb \div Pow2[PerturbShift]

\* Path() is such a run.
LEMMA PathIsRun ==
  ASSUME NEW h \in Nat, NEW w \in Nat
  PROVE  \E f : Generates(h, w, f) /\ Path(h, w) = [i \in 1 .. PathLength(w) |-> f[i].cur]
  <1> DEFINE n == PathLength(w)
             V == [cur : Nat, perturb : Nat]
             b == [cur |-> 0, perturb |-> h]
             m == Pow2[w]
             d == Pow2[PerturbShift]
             Step(x) == [cur |-> (x.cur * 5 + 1 + x.perturb) % m, perturb |-> x.perturb \div d]
             g == [i \in 1 .. n |-> [x \in V |-> Step(x)]]
             Lcg(f) == f = [i \in 0 .. n |-> IF i = 0 THEN b ELSE Step(f[i - 1])]
             lcg == CHOOSE f : Lcg(f)
  <1>1. n \in Nat /\ m \in Nat \ {0} /\ d \in Nat \ {0}
    BY TuningAssumption, Doubling DEF PathLength
  <1> HIDE DEF n, m, d
  <1>2. ASSUME NEW x \in V PROVE Step(x) \in V
    <2>1. x.cur \in Nat /\ x.perturb \in Nat
      OBVIOUS
    <2>2. x.cur * 5 + 1 + x.perturb \in Nat
      BY <2>1
    <2>3. (x.cur * 5 + 1 + x.perturb) % m \in Nat /\ x.perturb \div d \in Nat
      BY <1>1, <2>1, <2>2, Remainder, Quotient
    <2>4. QED
      BY <2>3
  <1>3. b \in V /\ g \in [1 .. n -> [V -> V]]
    <2> HIDE DEF Step, V
    <2>1. g \in [1 .. n -> [V -> V]]
      BY <1>2
    <2>2. QED
      BY <2>1 DEF V
  <1>4. PICK f \in [0 .. n -> V] : Rounds(n, b, g, f)
    <2> HIDE DEF V, b, g
    <2>1. QED
      BY <1>1, <1>3, Iteration
  <1>5. f[0] = b /\ \A i \in 1 .. n : f[i] = Step(f[i - 1])
    <2> HIDE DEF Step, b
    <2>1. f[0] = b /\ \A i \in 1 .. n : f[i] = g[i][f[i - 1]]
      <3> HIDE DEF g, V
      <3>1. QED
        BY <1>4 DEF Rounds
    <2>2. ASSUME NEW i \in 1 .. n PROVE f[i - 1] \in V
      <3> HIDE DEF V
      <3>1. i - 1 \in 0 .. n
        BY <1>1
      <3>2. QED
        BY <1>4, <3>1
    <2>3. QED
      <3> HIDE DEF V
      <3>1. QED
        BY <2>1, <2>2
  <1>6. Lcg(f)
    <2> HIDE DEF Step, b
    <2>1. f = [i \in 0 .. n |-> f[i]]
      <3> HIDE DEF V
      <3>1. QED
        BY <1>4
    <2>2. \A i \in 0 .. n : f[i] = IF i = 0 THEN b ELSE Step(f[i - 1])
      BY <1>1, <1>5
    <2>3. QED
      BY <2>1, <2>2
  <1>7. Lcg(lcg)
    <2> HIDE DEF Lcg
    <2>1. QED
      BY <1>6, Zenon
  <1>8. Path(h, w) = [i \in 1 .. n |-> lcg[i].cur]
    BY Zenon DEF Path, n, m, d
  <1>9. lcg \in [0 .. n -> V]
    <2> DEFINE S == {i \in Nat : i <= n => lcg[i] \in V}
    <2> HIDE DEF Step, b, V, lcg
    <2>1. 0 \in S
      BY <1>1, <1>3, <1>7
    <2>2. ASSUME NEW i \in Nat, i \in S PROVE i + 1 \in S
      <3>1. SUFFICES ASSUME i + 1 <= n PROVE lcg[i + 1] \in V
        OBVIOUS
      <3>2. lcg[i] \in V
        BY <2>2, <3>1, <1>1
      <3>3. i + 1 \in 0 .. n /\ i + 1 # 0 /\ (i + 1) - 1 = i
        BY <3>1, <1>1
      <3>4. lcg[i + 1] = Step(lcg[i])
        BY <3>3, <1>7
      <3>5. QED
        BY <3>2, <3>4, <1>2
    <2>3. Nat \subseteq S
      <3> HIDE DEF S
      <3>1. QED
        BY <2>1, <2>2, Induction
    <2>4. \A i \in 0 .. n : lcg[i] \in V
      BY <2>3, <1>1
    <2>5. lcg = [i \in 0 .. n |-> lcg[i]]
      BY <1>7
    <2>6. QED
      BY <2>4, <2>5
  <1>10. lcg[0] = b /\ \A i \in 1 .. n : lcg[i] = Step(lcg[i - 1])
    <2> HIDE DEF lcg, Step, b
    <2>1. QED
      BY <1>1, <1>7
  <1>11. Generates(h, w, lcg)
    <2> HIDE DEF lcg
    <2>1. ASSUME NEW i \in 1 .. n
          PROVE  /\ lcg[i].cur = (lcg[i - 1].cur * 5 + 1 + lcg[i - 1].perturb) % m
                 /\ lcg[i].perturb = lcg[i - 1].perturb \div d
      <3> DEFINE x == lcg[i - 1]
      <3>1. lcg[i] = Step(x)
        <4> HIDE DEF Step
        <4>1. QED
          BY <1>10
      <3> HIDE DEF x
      <3>2. lcg[i].cur = (x.cur * 5 + 1 + x.perturb) % m /\ lcg[i].perturb = x.perturb \div d
        BY <3>1
      <3>3. QED
        BY <3>2 DEF x
    <2>2. QED
      BY <1>9, <1>10, <2>1 DEF Generates, n, m, d
  <1>12. QED
    BY <1>8, <1>11 DEF n

--------------------------------------------------------------------------------
(***************************************************************************)
(* Once the perturbation is used up the sequence runs freely.              *)
(***************************************************************************)
\* A probe is a slot.
LEMMA ProbesAreSlots ==
  ASSUME NEW h \in Nat, NEW w \in Nat, NEW f, Generates(h, w, f), NEW i \in 0 .. PathLength(w)
  PROVE  f[i].cur \in 0 .. Pow2[w] - 1 /\ f[i].perturb \in Nat
  <1> DEFINE n == PathLength(w)
             m == Pow2[w]
             x == f[i - 1].cur * 5 + 1 + f[i - 1].perturb
  <1>1. m \in Nat \ {0} /\ n \in Nat
    BY TuningAssumption, Doubling DEF PathLength
  <1>2. \A j \in 0 .. n : f[j].cur \in Nat /\ f[j].perturb \in Nat
    BY DEF Generates
  <1>3. CASE i = 0
    <2>1. f[i].cur = 0
      BY <1>3 DEF Generates
    <2>2. QED
      BY <1>1, <1>2, <2>1
  <1>4. CASE i # 0
    <2>1. i \in 1 .. n /\ i - 1 \in 0 .. n
      BY <1>1, <1>4
    <2>2. f[i].cur = x % m
      BY <2>1 DEF Generates
    <2>3. x \in Int
      BY <1>2, <2>1
    <2> HIDE DEF n, m, x
    <2>4. x % m \in 0 .. m - 1
      BY <1>1, <2>3, Remainder
    <2>5. f[i].cur \in 0 .. Pow2[w] - 1
      BY <2>2, <2>4 DEF m
    <2>6. QED
      BY <1>2, <2>5 DEF n
  <1>5. QED
    BY <1>3, <1>4

\* After GiveUp probes the perturbation is used up.
LEMMA PerturbUsedUp ==
  ASSUME NEW h \in Nat, NEW w \in Nat, NEW f, Generates(h, w, f),
         h < Pow2[PerturbShift * GiveUp], NEW i \in GiveUp .. PathLength(w)
  PROVE  f[i].perturb = 0
  <1> DEFINE n == PathLength(w)
             d == Pow2[PerturbShift]
             E(j) == Pow2[PerturbShift * (GiveUp - j)]
             S == {j \in Nat : j <= GiveUp => f[j].perturb < E(j)}
             Z == {j \in Nat : GiveUp + j <= n => f[GiveUp + j].perturb = 0}
  <1>1. GiveUp \in Nat /\ PerturbShift \in Nat /\ d \in Nat \ {0} /\ n \in Nat /\ GiveUp <= n
    BY TuningAssumption, Doubling DEF PathLength
  <1>2. ASSUME NEW j \in 0 .. n - 1
        PROVE  f[j].perturb \in Nat /\ f[j + 1].perturb = f[j].perturb \div d
    <2>1. j \in 0 .. n /\ j + 1 \in 1 .. n /\ (j + 1) - 1 = j
      BY <1>1
    <2>2. QED
      BY <2>1, ProbesAreSlots DEF Generates
  <1>3. 0 \in S
    <2>1. f[0].perturb = h
      BY DEF Generates
    <2>2. GiveUp - 0 = GiveUp
      BY <1>1
    <2>3. QED
      BY <2>1, <2>2
  <1>4. ASSUME NEW j \in Nat, j \in S PROVE j + 1 \in S
    <2>1. SUFFICES ASSUME j + 1 <= GiveUp PROVE f[j + 1].perturb < E(j + 1)
      OBVIOUS
    <2> DEFINE r == PerturbShift * (GiveUp - (j + 1))
               x == f[j].perturb
    <2>2. r \in Nat /\ PerturbShift * (GiveUp - j) = PerturbShift + r
      BY <1>1, <2>1
    <2>3. E(j) = d * E(j + 1)
      <3> HIDE DEF r
      <3>1. Pow2[PerturbShift + r] = d * Pow2[r]
        BY <1>1, <2>2, Products
      <3>2. QED
        BY <2>2, <3>1 DEF r
    <2>4. E(j + 1) \in Nat
      BY <2>2, Doubling
    <2>5. x \in Nat /\ f[j + 1].perturb = x \div d
      BY <1>1, <1>2, <2>1
    <2>6. x < d * E(j + 1)
      BY <1>1, <1>4, <2>1, <2>3
    <2> HIDE DEF x, d, E
    <2>7. x \div d < E(j + 1)
      BY <1>1, <2>4, <2>5, <2>6, Quotient
    <2>8. QED
      BY <2>5, <2>7
  <1>5. f[GiveUp].perturb = 0
    <2>1. Nat \subseteq S
      <3> HIDE DEF S
      <3>1. QED
        BY <1>3, <1>4, Induction
    <2>2. f[GiveUp].perturb < E(GiveUp)
      BY <1>1, <2>1
    <2>3. E(GiveUp) = 1
      <3>1. PerturbShift * (GiveUp - GiveUp) = 0
        BY <1>1
      <3>2. QED
        BY <3>1, Doubling
    <2>4. f[GiveUp].perturb \in Nat
      BY <1>1, ProbesAreSlots
    <2>5. QED
      BY <2>2, <2>3, <2>4
  <1>6. 0 \in Z
    BY <1>1, <1>5
  <1>7. ASSUME NEW j \in Nat, j \in Z PROVE j + 1 \in Z
    <2>1. SUFFICES ASSUME GiveUp + (j + 1) <= n PROVE f[GiveUp + (j + 1)].perturb = 0
      OBVIOUS
    <2>2. GiveUp + j \in 0 .. n - 1 /\ GiveUp + (j + 1) = (GiveUp + j) + 1
      BY <1>1, <2>1
    <2>3. f[GiveUp + j].perturb = 0
      BY <1>1, <1>7, <2>1
    <2>4. f[GiveUp + (j + 1)].perturb = 0 \div d
      BY <1>2, <2>2, <2>3
    <2> HIDE DEF d
    <2>5. 0 \div d \in Nat /\ (0 < d * 1 => 0 \div d < 1)
      BY <1>1, Quotient
    <2>6. QED
      BY <1>1, <2>4, <2>5
  <1>8. Nat \subseteq Z
    <2> HIDE DEF Z
    <2>1. QED
      BY <1>6, <1>7, Induction
  <1>9. i - GiveUp \in Nat /\ GiveUp + (i - GiveUp) = i /\ i <= n
    BY <1>1
  <1>10. QED
    BY <1>8, <1>9

\* From then on the next slot is 5 * cur + 1, up to whole rounds.
LEMMA FreeRunning ==
  ASSUME NEW h \in Nat, NEW w \in Nat, NEW f, Generates(h, w, f),
         h < Pow2[PerturbShift * GiveUp], NEW i \in GiveUp .. PathLength(w) - 1
  PROVE  \E q \in Int : f[i + 1].cur = 5 * f[i].cur + 1 + q * Pow2[w]
  <1> DEFINE n == PathLength(w)
             m == Pow2[w]
             c == f[i].cur
  <1>1. m \in Nat \ {0} /\ n \in Nat /\ i \in 0 .. n /\ i + 1 \in 1 .. n /\ (i + 1) - 1 = i
        /\ i \in GiveUp .. n
    BY TuningAssumption, Doubling DEF PathLength
  <1>2. f[i].perturb = 0
    BY <1>1, PerturbUsedUp
  <1>3. c \in Nat
    BY <1>1, ProbesAreSlots
  <1>4. f[i + 1].cur = (c * 5 + 1 + 0) % m
    BY <1>1, <1>2 DEF Generates
  <1> HIDE DEF n, m, c
  <1>5. c * 5 + 1 + 0 \in Int
    BY <1>3
  <1>6. PICK q \in Int, r \in 0 .. m - 1 : r = (c * 5 + 1 + 0) % m /\ c * 5 + 1 + 0 = m * q + r
    BY <1>1, <1>5, Remainder
  <1>7. r = 5 * c + 1 + (- q) * m
    BY <1>1, <1>3, <1>6
  <1>8. - q \in Int /\ f[i + 1].cur = 5 * c + 1 + (- q) * m
    BY <1>4, <1>6, <1>7
  <1>9. QED
    BY <1>8 DEF m, c

--------------------------------------------------------------------------------
(***************************************************************************)
(* cur' = 5 * cur + 1 visits every slot within 2^w steps: jumps of 2^v     *)
(* steps, by doubling, and then every distance, bit by bit.                *)
(***************************************************************************)
\* 2^v steps on, cur is (1 + 4a*2^v) * cur + 2^v * (1 + 2b): an odd multiple of
\* 2^v away, up to multiples of 2 * 2^v.
Jumps(w, f, p) ==
  \E a, b \in Int : \A i \in GiveUp .. PathLength(w) :
     i + p <= PathLength(w) =>
       \E q \in Int : f[i + p].cur = (1 + 4 * p * a) * f[i].cur + p * (1 + 2 * b) + q * Pow2[w]

\* Two jumps in a row make one of twice the length.
LEMMA TwoJumps ==
  ASSUME NEW p \in Int, NEW a \in Int, NEW b \in Int, NEW m \in Int,
         NEW x \in Int, NEW q1 \in Int, NEW q2 \in Int
  PROVE  LET y == (1 + 4 * p * a) * x + p * (1 + 2 * b) + q1 * m
             z == (1 + 4 * p * a) * y + p * (1 + 2 * b) + q2 * m
             a2 == a + 2 * p * a * a
             b2 == b + p * a + 2 * p * a * b
         IN  z = (1 + 4 * (2 * p) * a2) * x + (2 * p) * (1 + 2 * b2)
                 + ((1 + 4 * p * a) * q1 + q2) * m
  OBVIOUS

\* Hence the steps jump so for every power of 2 up to the table's width.
LEMMA AllJump ==
  ASSUME NEW h \in Nat, NEW w \in Nat, NEW f, Generates(h, w, f),
         h < Pow2[PerturbShift * GiveUp]
  PROVE  \A v \in Nat : Jumps(w, f, Pow2[v])
  <1> DEFINE n == PathLength(w)
             m == Pow2[w]
             S == {v \in Nat : Jumps(w, f, Pow2[v])}
  <1>1. m \in Nat \ {0} /\ n \in Nat /\ GiveUp \in Nat
    BY TuningAssumption, Doubling DEF PathLength
  <1>2. \A i \in GiveUp .. n : f[i].cur \in Nat
    <2>1. \A i \in GiveUp .. n : i \in 0 .. n
      BY <1>1
    <2>2. QED
      BY <2>1, ProbesAreSlots
  <1>3. 0 \in S
    <2>1. ASSUME NEW i \in GiveUp .. n, i + 1 <= n
          PROVE  \E q \in Int : f[i + 1].cur
                                = (1 + 4 * 1 * 1) * f[i].cur + 1 * (1 + 2 * 0) + q * m
      <3>1. i \in GiveUp .. n - 1
        BY <1>1, <2>1
      <3>2. PICK q \in Int : f[i + 1].cur = 5 * f[i].cur + 1 + q * m
        BY <3>1, FreeRunning
      <3>3. f[i].cur \in Nat
        BY <1>2
      <3> HIDE DEF m
      <3>4. f[i + 1].cur = (1 + 4 * 1 * 1) * f[i].cur + 1 * (1 + 2 * 0) + q * m
        BY <1>1, <3>2, <3>3
      <3>5. QED
        BY <3>4
    <2>2. Jumps(w, f, 1)
      <3>1. 1 \in Int /\ 0 \in Int
        OBVIOUS
      <3>2. QED
        BY <2>1, <3>1, Zenon DEF Jumps, m, n
    <2>3. QED
      BY <2>2, Doubling
  <1>4. ASSUME NEW v \in Nat, v \in S PROVE v + 1 \in S
    <2> DEFINE p == Pow2[v]
    <2>1. p \in Nat \ {0} /\ Pow2[v + 1] = 2 * p
      BY Doubling
    <2> HIDE DEF p
    <2>2. PICK a \in Int, b \in Int : \A i \in GiveUp .. n : i + p <= n =>
            \E q \in Int : f[i + p].cur = (1 + 4 * p * a) * f[i].cur + p * (1 + 2 * b) + q * m
      BY <1>4 DEF Jumps, p
    <2> DEFINE a2 == a + 2 * p * a * a
               b2 == b + p * a + 2 * p * a * b
    <2>3. ASSUME NEW i \in GiveUp .. n, i + 2 * p <= n
          PROVE  \E q \in Int : f[i + 2 * p].cur
                    = (1 + 4 * (2 * p) * a2) * f[i].cur + (2 * p) * (1 + 2 * b2) + q * m
      <3> DEFINE x == f[i].cur
                 y == f[i + p].cur
                 z == f[i + 2 * p].cur
      <3>1. /\ i + p \in GiveUp .. n /\ i + p <= n
            /\ (i + p) + p <= n /\ (i + p) + p = i + 2 * p
        BY <1>1, <2>1, <2>3
      <3>2. x \in Int
        BY <1>2
      <3>3. PICK q1 \in Int : y = (1 + 4 * p * a) * x + p * (1 + 2 * b) + q1 * m
        BY <2>2, <3>1
      <3>4. PICK q2 \in Int : z = (1 + 4 * p * a) * y + p * (1 + 2 * b) + q2 * m
        BY <2>2, <3>1
      <3> DEFINE q == (1 + 4 * p * a) * q1 + q2
      <3>5. q \in Int
        BY <2>1
      <3> HIDE DEF x, y, z, m
      <3>6. z = (1 + 4 * (2 * p) * a2) * x + (2 * p) * (1 + 2 * b2) + q * m
        BY <1>1, <2>1, <3>2, <3>3, <3>4, TwoJumps
      <3> HIDE DEF q, a2, b2
      <3>7. QED
        BY <3>5, <3>6 DEF x, z
    <2>4. a2 \in Int /\ b2 \in Int
      BY <2>1
    <2>5. Jumps(w, f, 2 * p)
      <3> HIDE DEF m, n, a2, b2
      <3>1. QED
        BY <2>3, <2>4 DEF Jumps, m, n
    <2>6. QED
      BY <2>1, <2>5
  <1>5. Nat \subseteq S
    <2> HIDE DEF S
    <2>1. QED
      BY <1>3, <1>4, Induction
  <1>6. QED
    BY <1>5

\* Any 2^v probes in a row reach every number, up to multiples of 2^v.
Reaches(w, f, p) ==
  \A a \in GiveUp .. PathLength(w), t \in Int :
     a + p - 1 <= PathLength(w) =>
       \E i \in a .. a + p - 1, q \in Int : f[i].cur = t + q * p

\* When the half cycle misses t it hits the number half a cycle from it, and
\* the jump from there lands on t.
LEMMA OddJump ==
  ASSUME NEW p \in Int, NEW a \in Int, NEW b \in Int, NEW s \in Int,
         NEW t \in Int, NEW k \in Int, NEW q \in Int
  PROVE  LET x == t + (2 * k + 1) * p
         IN  (1 + 4 * p * a) * x + p * (1 + 2 * b) + q * (2 * p * s)
               = t + (k + 1 + 2 * a * x + b + q * s) * (2 * p)
  OBVIOUS

\* Every distance is covered, one bit after the other.
LEMMA AllReached ==
  ASSUME NEW h \in Nat, NEW w \in Nat, NEW f, Generates(h, w, f),
         h < Pow2[PerturbShift * GiveUp]
  PROVE  Reaches(w, f, Pow2[w])
  <1> DEFINE n == PathLength(w)
             m == Pow2[w]
             S == {v \in Nat : v <= w => Reaches(w, f, Pow2[v])}
  <1>1. m \in Nat \ {0} /\ n \in Nat /\ GiveUp \in Nat
    BY TuningAssumption, Doubling DEF PathLength
  <1>2. \A i \in GiveUp .. n : f[i].cur \in Nat
    <2>1. \A i \in GiveUp .. n : i \in 0 .. n
      BY <1>1
    <2>2. QED
      BY <2>1, ProbesAreSlots
  <1>3. 0 \in S
    <2>1. ASSUME NEW a \in GiveUp .. n, NEW t \in Int, a + 1 - 1 <= n
          PROVE  \E i \in a .. a + 1 - 1, q \in Int : f[i].cur = t + q * 1
      <3>1. a \in a .. a + 1 - 1 /\ f[a].cur - t \in Int /\ f[a].cur = t + (f[a].cur - t) * 1
        BY <1>1, <1>2
      <3>2. QED
        BY <3>1
    <2>2. Reaches(w, f, 1)
      BY <2>1 DEF Reaches
    <2>3. QED
      BY <2>2, Doubling
  <1>4. ASSUME NEW v \in Nat, v \in S PROVE v + 1 \in S
    <2>1. SUFFICES ASSUME v + 1 <= w PROVE Reaches(w, f, Pow2[v + 1])
      OBVIOUS
    <2> DEFINE p == Pow2[v]
               s == Pow2[w - (v + 1)]
    <2>2. p \in Nat \ {0} /\ Pow2[v + 1] = 2 * p
      BY Doubling
    <2>3. s \in Int /\ m = 2 * p * s
      <3> DEFINE r == w - (v + 1)
      <3>1. r \in Nat /\ v + 1 \in Nat /\ (v + 1) + r = w
        BY <2>1
      <3> HIDE DEF r
      <3>2. Pow2[(v + 1) + r] = Pow2[v + 1] * Pow2[r] /\ Pow2[r] \in Nat
        BY <3>1, Products, Doubling
      <3>3. QED
        BY <2>2, <3>1, <3>2 DEF r
    <2>4. Jumps(w, f, p) /\ Reaches(w, f, p)
      BY <1>4, <2>1, AllJump
    <2> HIDE DEF p, s, m
    <2>5. PICK a \in Int, b \in Int : \A i \in GiveUp .. n : i + p <= n =>
            \E q \in Int : f[i + p].cur = (1 + 4 * p * a) * f[i].cur + p * (1 + 2 * b) + q * m
      BY <2>4 DEF Jumps, m
    <2>6. ASSUME NEW first \in GiveUp .. n, NEW t \in Int, first + 2 * p - 1 <= n
          PROVE  \E i \in first .. first + 2 * p - 1, q \in Int : f[i].cur = t + q * (2 * p)
      <3>1. first + p - 1 <= n
        BY <1>1, <2>2, <2>6
      <3>2. PICK i \in first .. first + p - 1, d \in Int : f[i].cur = t + d * p
        BY <2>4, <3>1 DEF Reaches
      <3>3. PICK k \in Int : d = 2 * k \/ d = 2 * k + 1
        <4>1. d \div 2 \in Int /\ (d = 2 * (d \div 2) \/ d = 2 * (d \div 2) + 1)
          OBVIOUS
        <4>2. QED
          BY <4>1
      <3>4. i \in GiveUp .. n /\ i \in Int
        BY <1>1, <2>2, <3>1, <3>2
      <3>5. CASE d = 2 * k
        <4>1. f[i].cur = t + k * (2 * p)
          BY <2>2, <3>2, <3>5
        <4>2. i \in first .. first + 2 * p - 1
          BY <1>1, <2>2, <3>2
        <4>3. QED
          BY <4>1, <4>2
      <3>6. CASE d = 2 * k + 1
        <4> DEFINE x == t + (2 * k + 1) * p
        <4>1. i + p <= n /\ i + p \in first .. first + 2 * p - 1
          BY <1>1, <2>2, <2>6, <3>2
        <4>2. PICK q \in Int :
                f[i + p].cur = (1 + 4 * p * a) * f[i].cur + p * (1 + 2 * b) + q * m
          BY <2>5, <3>4, <4>1
        <4>3. f[i].cur = x
          BY <3>2, <3>6
        <4>4. x \in Int
          BY <2>2
        <4> DEFINE g == k + 1 + 2 * a * x + b + q * s
        <4>5. g \in Int
          <5> HIDE DEF x
          <5>1. QED
            BY <2>3, <4>4
        <4>6. f[i + p].cur = t + g * (2 * p)
          <5>1. f[i + p].cur = (1 + 4 * p * a) * x + p * (1 + 2 * b) + q * (2 * p * s)
            <6> HIDE DEF x
            <6>1. QED
              BY <2>3, <4>2, <4>3
          <5>2. QED
            BY <2>2, <2>3, <5>1, OddJump
        <4> HIDE DEF g, x
        <4>7. QED
          BY <4>1, <4>5, <4>6
      <3>7. QED
        BY <3>3, <3>5, <3>6
    <2>7. Reaches(w, f, 2 * p)
      <3> HIDE DEF n
      <3>1. QED
        BY <2>6 DEF Reaches, n
    <2>8. QED
      BY <2>2, <2>7
  <1>5. Nat \subseteq S
    <2> HIDE DEF S
    <2>1. QED
      BY <1>3, <1>4, Induction
  <1>6. QED
    BY <1>5

\* hashdict.h:33 LCGen: once the perturbation is used up, as many probes as
\* there are slots visit every slot.
LEMMA VisitsEverySlot ==
  ASSUME NEW h \in Nat, NEW w \in Nat, h < Pow2[PerturbShift * GiveUp],
         NEW a \in Nat, a > GiveUp, a + Pow2[w] - 1 <= PathLength(w),
         NEW t \in 0 .. Pow2[w] - 1
  PROVE  \E i \in a .. a + Pow2[w] - 1 : i \in 1 .. PathLength(w) /\ Path(h, w)[i] = t
  <1> DEFINE n == PathLength(w)
             m == Pow2[w]
  <1>1. m \in Nat \ {0} /\ n \in Nat /\ GiveUp \in Nat
    BY TuningAssumption, Doubling DEF PathLength
  <1>2. PICK f : Generates(h, w, f) /\ Path(h, w) = [i \in 1 .. n |-> f[i].cur]
    BY PathIsRun
  <1>3. a \in GiveUp .. n /\ t \in Int /\ a + m - 1 <= n
    BY <1>1
  <1>4. PICK i \in a .. a + m - 1, q \in Int : f[i].cur = t + q * m
    BY <1>2, <1>3, AllReached DEF Reaches
  <1>5. i \in 1 .. n /\ i \in 0 .. n
    BY <1>1, <1>3
  <1>6. f[i].cur \in 0 .. m - 1
    BY <1>2, <1>5, ProbesAreSlots
  <1>7. q = 0
    <2> HIDE DEF m
    <2>1. q >= 1 => q * m >= m
      BY <1>1
    <2>2. q <= -1 => q * m <= - m
      BY <1>1
    <2>3. t \in 0 .. m - 1
      BY DEF m
    <2>4. QED
      BY <1>1, <1>4, <1>6, <2>1, <2>2, <2>3
  <1>8. f[i].cur = t
    BY <1>1, <1>4, <1>7
  <1>9. QED
    BY <1>2, <1>4, <1>5, <1>8

--------------------------------------------------------------------------------
(***************************************************************************)
(* Where probes land.                                                      *)
(***************************************************************************)
\* A set of natural numbers has a least one.
LEMMA Least ==
  ASSUME NEW S, S \subseteq Nat, S # {}
  PROVE  LeastOf(S) \in S /\ \A y \in S : LeastOf(S) <= y
  <1>1. \E x \in S : \A y \in S : x <= y
    <2>1. SUFFICES ASSUME \A x \in S : \E y \in S : ~(x <= y) PROVE FALSE
      OBVIOUS
    <2> DEFINE T == {n \in Nat : \A m \in S : n < m}
    <2>2. 0 \in T
      <3>1. ASSUME NEW m \in S PROVE 0 < m
        <4>1. PICK y \in S : ~(m <= y)
          BY <2>1
        <4>2. QED
          BY <4>1
      <3>2. QED
        BY <3>1
    <2>3. ASSUME NEW n \in Nat, n \in T PROVE n + 1 \in T
      <3>1. ASSUME NEW m \in S PROVE n + 1 < m
        <4>1. PICK y \in S : ~(m <= y)
          BY <2>1
        <4>2. n < y /\ y \in Nat /\ m \in Nat
          BY <2>3
        <4>3. QED
          BY <4>1, <4>2
      <3>2. QED
        BY <3>1
    <2>4. Nat \subseteq T
      <3> HIDE DEF T
      <3>1. QED
        BY <2>2, <2>3, Induction
    <2>5. PICK m \in S : TRUE
      OBVIOUS
    <2>6. m \in T
      BY <2>4
    <2>7. QED
      BY <2>5, <2>6
  <1>2. QED
    BY <1>1, Zenon DEF LeastOf

Widths      == InitialDictWidth .. MaxWidth
SlotsOf(w)  == 0 .. Pow2[w] - 1

\* What the lemmas below need of a width.
LEMMA WidthFacts ==
  ASSUME NEW w \in Widths
  PROVE  /\ w \in Nat /\ w # 0
         /\ Pow2[w] \in Nat \ {0}
         /\ GiveUp \in Nat /\ PathLength(w) \in Nat
         /\ PathLength(w) = GiveUp + 3 + 2 * Pow2[w]
         /\ Never \in Nat /\ PathLength(w) < Never
  <1>1. InitialDictWidth \in Nat \ {0} /\ MaxWidth \in Nat /\ GiveUp \in Nat
    BY TuningAssumption
  <1>2. w \in Nat /\ w # 0 /\ w <= MaxWidth
    BY <1>1 DEF Widths
  <1>3. Pow2[w] \in Nat \ {0} /\ Pow2[MaxWidth] \in Nat /\ Pow2[w] <= Pow2[MaxWidth]
    BY <1>1, <1>2, Doubling, Wider
  <1>4. QED
    BY <1>1, <1>2, <1>3 DEF PathLength, Never

\* A hash is used up after GiveUp probes.
LEMMA HashFacts ==
  ASSUME NEW k \in Key
  PROVE  HashOf[k] \in Nat /\ HashOf[k] < Pow2[PerturbShift * GiveUp]
  BY TuningAssumption

\* A path is a sequence of slots.
LEMMA PathShape ==
  ASSUME NEW w \in Widths, NEW k \in Key
  PROVE  /\ Paths[w][k] = Path(HashOf[k], w)
         /\ Paths[w][k] \in [1 .. PathLength(w) -> SlotsOf(w)]
         /\ Len(Paths[w][k]) = PathLength(w)
  <1> DEFINE n == PathLength(w)
             path == Paths[w][k]
  <1>1. w \in Nat /\ n \in Nat /\ HashOf[k] \in Nat
    BY WidthFacts, HashFacts
  <1>2. path = Path(HashOf[k], w)
    BY Zenon DEF Paths, Widths
  <1>3. PICK f : Generates(HashOf[k], w, f) /\ Path(HashOf[k], w) = [i \in 1 .. n |-> f[i].cur]
    BY <1>1, PathIsRun
  <1>4. \A i \in 1 .. n : i \in 0 .. n /\ f[i].cur \in SlotsOf(w)
    BY <1>1, <1>3, ProbesAreSlots DEF SlotsOf
  <1> HIDE DEF path, n
  <1>5. path = [i \in 1 .. n |-> f[i].cur]
    BY <1>2, <1>3
  <1>6. path \in [1 .. n -> SlotsOf(w)]
    BY <1>4, <1>5
  <1>7. path \in Seq(SlotsOf(w)) /\ Len(path) = n
    BY <1>1, <1>6
  <1>8. QED
    BY <1>2, <1>6, <1>7 DEF path, n

\* A loop that allows for n probes comes back to its first slot later.
LEMMA WrapIs ==
  ASSUME NEW w \in Widths, NEW k \in Key, NEW n \in Nat,
         GiveUp <= n, n + 2 + Pow2[w] <= PathLength(w)
  PROVE  WrapAfter(Paths[w][k], n) \in n + 3 .. PathLength(w)
  <1> DEFINE path == Paths[w][k]
             S == {i \in n + 3 .. Len(path) : path[i] = path[1]}
  <1>1. /\ w \in Nat /\ PathLength(w) \in Nat /\ GiveUp \in Nat /\ Pow2[w] \in Nat \ {0}
        /\ HashOf[k] \in Nat /\ HashOf[k] < Pow2[PerturbShift * GiveUp]
    BY WidthFacts, HashFacts
  <1>2. /\ path = Path(HashOf[k], w) /\ Len(path) = PathLength(w)
        /\ path \in [1 .. PathLength(w) -> SlotsOf(w)]
    BY PathShape
  <1> HIDE DEF path
  <1>3. path[1] \in 0 .. Pow2[w] - 1
    <2>1. 1 \in 1 .. PathLength(w)
      BY <1>1
    <2>2. QED
      BY <1>2, <2>1 DEF SlotsOf
  <1>4. n + 3 \in Nat /\ n + 3 > GiveUp /\ (n + 3) + Pow2[w] - 1 <= PathLength(w)
    BY <1>1
  <1> DEFINE a == n + 3
             t == path[1]
             h == HashOf[k]
  <1> HIDE DEF a, t, h
  <1>5. PICK i \in a .. a + Pow2[w] - 1 : i \in 1 .. PathLength(w) /\ Path(h, w)[i] = t
    <2>1. a \in Nat /\ a > GiveUp /\ a + Pow2[w] - 1 <= PathLength(w)
      BY <1>4 DEF a
    <2>2. t \in 0 .. Pow2[w] - 1
      BY <1>3 DEF t
    <2>3. w \in Nat /\ h \in Nat /\ h < Pow2[PerturbShift * GiveUp]
      BY <1>1 DEF h
    <2>4. QED
      BY <2>1, <2>2, <2>3, VisitsEverySlot
  <1>6. i \in S
    BY <1>1, <1>2, <1>5 DEF a, t, h
  <1>7. S \subseteq Nat /\ S # {}
    BY <1>2, <1>6
  <1>8. LeastOf(S) \in S
    <2> HIDE DEF S
    <2>1. QED
      BY <1>7, Least
  <1>9. LeastOf(S) \in n + 3 .. PathLength(w)
    BY <1>2, <1>8
  <1>10. QED
    BY <1>9 DEF WrapAfter, path

\* A probe for a set of slots lands on the first of them that its path meets,
\* unless there is none in the table; and it does so in time.
LEMMA Lands ==
  ASSUME NEW w \in Widths, NEW k \in Key, NEW S, S \subseteq SlotsOf(w)
  PROVE  LET path == Paths[w][k]
             at   == Landing(path, S)
         IN  \/ S = {} /\ at = Never
             \/ /\ S # {} /\ at \in 1 .. GiveUp + Pow2[w] /\ at \in 1 .. PathLength(w)
                /\ at # Never /\ path[at] \in S
                /\ \A i \in 1 .. at - 1 : path[i] \notin S
  <1> DEFINE path == Paths[w][k]
             n == PathLength(w)
             hits == {i \in DOMAIN path : path[i] \in S}
             at == Landing(path, S)
  <1>1. /\ w \in Nat /\ n \in Nat /\ GiveUp \in Nat /\ Pow2[w] \in Nat \ {0}
        /\ n = GiveUp + 3 + 2 * Pow2[w] /\ Never \in Nat /\ n < Never
        /\ HashOf[k] \in Nat /\ HashOf[k] < Pow2[PerturbShift * GiveUp]
    BY WidthFacts, HashFacts
  <1>2. path = Path(HashOf[k], w) /\ path \in [1 .. n -> SlotsOf(w)]
    BY PathShape
  <1>3. at = IF hits = {} THEN Never ELSE LeastOf(hits)
    BY DEF Landing
  <1> HIDE DEF path, n, at
  <1>4. DOMAIN path = 1 .. n
    BY <1>2
  <1>5. CASE S = {}
    <2>1. hits = {}
      BY <1>5
    <2>2. QED
      BY <1>3, <1>5, <2>1 DEF path, at
  <1>6. CASE S # {}
    <2>1. PICK t \in S : t \in 0 .. Pow2[w] - 1
      BY <1>6 DEF SlotsOf
    <2>2. /\ GiveUp + 1 \in Nat /\ GiveUp + 1 > GiveUp
          /\ (GiveUp + 1) + Pow2[w] - 1 <= PathLength(w)
      BY <1>1 DEF n
    <2> DEFINE a == GiveUp + 1
               h == HashOf[k]
    <2> HIDE DEF a, h
    <2>3. PICK i \in a .. a + Pow2[w] - 1 : i \in 1 .. PathLength(w) /\ Path(h, w)[i] = t
      <3>1. a \in Nat /\ a > GiveUp /\ a + Pow2[w] - 1 <= PathLength(w)
        BY <2>2 DEF a
      <3>2. w \in Nat /\ h \in Nat /\ h < Pow2[PerturbShift * GiveUp]
        BY <1>1 DEF h
      <3>3. QED
        BY <2>1, <3>1, <3>2, VisitsEverySlot
    <2>4. i \in hits /\ i <= GiveUp + Pow2[w]
      BY <1>1, <1>2, <1>4, <2>1, <2>3 DEF n, a, h
    <2>5. hits \subseteq Nat /\ hits # {}
      BY <1>4, <2>4
    <2>6. LeastOf(hits) \in hits /\ \A y \in hits : LeastOf(hits) <= y
      <3> HIDE DEF hits
      <3>1. QED
        BY <2>5, Least
    <2>7. at = LeastOf(hits)
      BY <1>3, <2>5
    <2>8. at \in hits /\ \A y \in hits : at <= y
      BY <2>6, <2>7
    <2>9. at \in 1 .. n /\ path[at] \in S /\ at <= i
      BY <1>4, <2>4, <2>8
    <2>10. at \in 1 .. GiveUp + Pow2[w] /\ at # Never
      BY <1>1, <2>4, <2>9
    <2>11. ASSUME NEW j \in 1 .. at - 1 PROVE path[j] \notin S
      <3>1. j \in 1 .. n /\ j < at
        BY <1>1, <2>9
      <3>2. QED
        BY <1>4, <2>8, <2>9, <3>1
    <2>12. QED
      BY <1>6, <2>9, <2>10, <2>11 DEF path, at, n
  <1>7. QED
    BY <1>5, <1>6 DEF path, at

--------------------------------------------------------------------------------
(***************************************************************************)
(* Squeezing the dead entries out of a trove.                              *)
(***************************************************************************)
Entry == [key : Key, val : Value] \cup {Dead}

LiveUpTo(tr, n) == {i \in 1 .. n : tr[i] # Dead}
LiveAt(tr)      == LiveUpTo(tr, Len(tr))

\* r holds the live ones of the first n entries of tr, in their order: its
\* j-th is the kept[j]-th of tr.
SiftsUpTo(tr, n, r, kept) ==
  /\ r \in Seq(Entry)
  /\ kept \in [1 .. Len(r) -> LiveUpTo(tr, n)]
  /\ \A a, b \in 1 .. Len(r) : a < b => kept[a] < kept[b]
  /\ \A i \in LiveUpTo(tr, n) : \E j \in 1 .. Len(r) : kept[j] = i
  /\ \A j \in 1 .. Len(r) : r[j] = tr[kept[j]]
  /\ Cardinality(LiveUpTo(tr, n)) = Len(r)

\* The live entries counted, one more each time.
LEMMA CountUpTo ==
  ASSUME NEW tr, NEW n \in Nat
  PROVE  /\ IsFiniteSet(LiveUpTo(tr, n)) /\ Cardinality(LiveUpTo(tr, n)) \in Nat
         /\ LiveUpTo(tr, 0) = {}
         /\ tr[n + 1] = Dead => LiveUpTo(tr, n + 1) = LiveUpTo(tr, n)
         /\ tr[n + 1] # Dead =>
              /\ LiveUpTo(tr, n + 1) = LiveUpTo(tr, n) \cup {n + 1}
              /\ n + 1 \notin LiveUpTo(tr, n)
              /\ Cardinality(LiveUpTo(tr, n + 1)) = Cardinality(LiveUpTo(tr, n)) + 1
  <1>1. IsFiniteSet(1 .. n) /\ LiveUpTo(tr, n) \in SUBSET (1 .. n)
    BY FS_Interval DEF LiveUpTo
  <1>2. IsFiniteSet(LiveUpTo(tr, n)) /\ Cardinality(LiveUpTo(tr, n)) \in Nat
    BY <1>1, SomeCount
  <1>3. LiveUpTo(tr, 0) = {}
    BY DEF LiveUpTo
  <1>4. tr[n + 1] = Dead => LiveUpTo(tr, n + 1) = LiveUpTo(tr, n)
    BY DEF LiveUpTo
  <1>5. ASSUME tr[n + 1] # Dead
        PROVE  /\ LiveUpTo(tr, n + 1) = LiveUpTo(tr, n) \cup {n + 1}
               /\ n + 1 \notin LiveUpTo(tr, n)
    BY <1>5 DEF LiveUpTo
  <1>6. ASSUME tr[n + 1] # Dead
        PROVE  Cardinality(LiveUpTo(tr, n + 1)) = Cardinality(LiveUpTo(tr, n)) + 1
    BY <1>2, <1>5, <1>6, FS_AddElement
  <1>7. QED
    BY <1>2, <1>3, <1>4, <1>5, <1>6

\* The loop of CompactTrove(), entry by entry.
LEMMA LiveOfLoop ==
  ASSUME NEW tr \in Seq(Entry)
  PROVE  \E u \in [0 .. Len(tr) -> Seq(Entry)] :
           /\ u[0] = <<>>
           /\ \A i \in 1 .. Len(tr) :
                u[i] = IF tr[i] = Dead THEN u[i - 1] ELSE Append(u[i - 1], tr[i])
           /\ LiveOf(tr) = u[Len(tr)]
  <1> DEFINE n == Len(tr)
             V == Seq(Entry)
             b == <<>>
             Step(i, x) == IF tr[i] = Dead THEN x ELSE Append(x, tr[i])
             g == [i \in 1 .. n |-> [x \in V |-> Step(i, x)]]
             Loop(f) == f = [i \in 0 .. n |-> IF i = 0 THEN b ELSE Step(i, f[i - 1])]
             u == CHOOSE f : Loop(f)
  <1>1. n \in Nat
    OBVIOUS
  <1>2. ASSUME NEW x \in V, NEW i \in 1 .. n PROVE Step(i, x) \in V
    OBVIOUS
  <1> HIDE DEF n
  <1>3. b \in V /\ g \in [1 .. n -> [V -> V]]
    <2>1. b \in V
      OBVIOUS
    <2> HIDE DEF Step, V
    <2>2. g \in [1 .. n -> [V -> V]]
      BY <1>2
    <2>3. QED
      BY <2>1, <2>2
  <1>4. PICK f \in [0 .. n -> V] : Rounds(n, b, g, f)
    <2> HIDE DEF V, b, g
    <2>1. QED
      BY <1>1, <1>3, Iteration
  <1> HIDE DEF V, b, Step
  <1>5. f[0] = b /\ \A i \in 1 .. n : f[i] = Step(i, f[i - 1])
    <2>1. f[0] = b /\ \A i \in 1 .. n : f[i] = g[i][f[i - 1]]
      <3> HIDE DEF g
      <3>1. QED
        BY <1>4 DEF Rounds
    <2>2. ASSUME NEW i \in 1 .. n PROVE f[i - 1] \in V
      <3>1. i - 1 \in 0 .. n
        BY <1>1
      <3>2. QED
        BY <1>4, <3>1
    <2>3. QED
      BY <2>1, <2>2
  <1>6. Loop(f)
    <2>1. f = [i \in 0 .. n |-> f[i]]
      BY <1>4
    <2>2. \A i \in 0 .. n : f[i] = IF i = 0 THEN b ELSE Step(i, f[i - 1])
      BY <1>1, <1>5
    <2>3. QED
      BY <2>1, <2>2
  <1>7. Loop(u)
    <2> HIDE DEF Loop
    <2>1. QED
      BY <1>6, Zenon
  <1>8. LiveOf(tr) = u[n]
    BY Zenon DEF LiveOf, n, b, Step
  <1> HIDE DEF u
  <1>9. u[0] = b /\ \A i \in 1 .. n : u[i] = Step(i, u[i - 1])
    BY <1>1, <1>7
  <1>10. u \in [0 .. n -> V]
    <2> DEFINE S == {i \in Nat : i <= n => u[i] \in V}
    <2>1. 0 \in S
      BY <1>1, <1>3, <1>9
    <2>2. ASSUME NEW i \in Nat, i \in S PROVE i + 1 \in S
      <3>1. SUFFICES ASSUME i + 1 <= n PROVE u[i + 1] \in V
        OBVIOUS
      <3>2. u[i] \in V
        BY <1>1, <2>2, <3>1
      <3>3. i + 1 \in 1 .. n /\ (i + 1) - 1 = i
        BY <1>1, <3>1
      <3>4. u[i + 1] = Step(i + 1, u[i])
        BY <1>9, <3>3
      <3>5. QED
        BY <1>2, <3>2, <3>3, <3>4
    <2>3. Nat \subseteq S
      <3> HIDE DEF S
      <3>1. QED
        BY <2>1, <2>2, Induction
    <2>4. \A i \in 0 .. n : u[i] \in V
      BY <1>1, <2>3
    <2>5. u = [i \in 0 .. n |-> u[i]]
      BY <1>7
    <2>6. QED
      BY <2>4, <2>5
  <1>11. QED
    BY <1>8, <1>9, <1>10 DEF n, V, b, Step

\* What it leaves: the live entries, in their order.
LEMMA LiveEntries ==
  ASSUME NEW tr \in Seq(Entry)
  PROVE  \E kept : SiftsUpTo(tr, Len(tr), LiveOf(tr), kept)
  <1> DEFINE n == Len(tr)
  <1>1. PICK u \in [0 .. n -> Seq(Entry)] :
          /\ u[0] = <<>>
          /\ \A i \in 1 .. n : u[i] = IF tr[i] = Dead THEN u[i - 1] ELSE Append(u[i - 1], tr[i])
          /\ LiveOf(tr) = u[n]
    BY LiveOfLoop
  <1> DEFINE S == {i \in Nat : i <= n => \E kept : SiftsUpTo(tr, i, u[i], kept)}
  <1>2. n \in Nat
    OBVIOUS
  <1> HIDE DEF n
  <1>3. 0 \in S
    <2>1. LiveUpTo(tr, 0) = {} /\ Cardinality(LiveUpTo(tr, 0)) = 0
      BY CountUpTo, FS_EmptySet
    <2>2. Len(u[0]) = 0 /\ u[0] \in Seq(Entry)
      BY <1>1, <1>2
    <2>3. SiftsUpTo(tr, 0, u[0], <<>>)
      BY <2>1, <2>2 DEF SiftsUpTo
    <2>4. QED
      BY <2>3
  <1>4. ASSUME NEW i \in Nat, i \in S PROVE i + 1 \in S
    <2>1. SUFFICES ASSUME i + 1 <= n PROVE \E kept : SiftsUpTo(tr, i + 1, u[i + 1], kept)
      OBVIOUS
    <2> DEFINE r == u[i]
    <2>2. PICK kept : SiftsUpTo(tr, i, r, kept)
      BY <1>2, <1>4, <2>1
    <2>3. i + 1 \in 1 .. n /\ (i + 1) - 1 = i
      BY <1>2, <2>1
    <2>4. u[i + 1] = IF tr[i + 1] = Dead THEN r ELSE Append(r, tr[i + 1])
      BY <1>1, <2>3
    <2> HIDE DEF r
    <2>5. r \in Seq(Entry) /\ Len(r) \in Nat
      BY <2>2 DEF SiftsUpTo
    <2>6. CASE tr[i + 1] = Dead
      <3>1. LiveUpTo(tr, i + 1) = LiveUpTo(tr, i)
        BY <2>6, CountUpTo
      <3>2. SiftsUpTo(tr, i + 1, r, kept)
        BY <2>2, <3>1 DEF SiftsUpTo
      <3>3. QED
        BY <2>4, <2>6, <3>2
    <2>7. CASE tr[i + 1] # Dead
      <3> DEFINE m == Len(r)
                 t == Append(r, tr[i + 1])
                 more == [j \in 1 .. m + 1 |-> IF j = m + 1 THEN i + 1 ELSE kept[j]]
                 L == LiveUpTo(tr, i)
                 L1 == LiveUpTo(tr, i + 1)
      <3>1. /\ L1 = L \cup {i + 1} /\ Cardinality(L1) = Cardinality(L) + 1
        BY <2>7, CountUpTo
      <3>2. \A x \in L : x \in Nat /\ x < i + 1
        BY DEF LiveUpTo
      <3>3. tr[i + 1] \in Entry
        BY <2>3 DEF n
      <3>4. m \in Nat /\ t \in Seq(Entry) /\ Len(t) = m + 1 /\ t[m + 1] = tr[i + 1]
            /\ \A j \in 1 .. m : t[j] = r[j]
        BY <2>5, <3>3
      <3>5. /\ kept \in [1 .. m -> L]
            /\ \A a, b \in 1 .. m : a < b => kept[a] < kept[b]
            /\ \A x \in L : \E j \in 1 .. m : kept[j] = x
            /\ \A j \in 1 .. m : r[j] = tr[kept[j]]
            /\ Cardinality(L) = m
        BY <2>2 DEF SiftsUpTo
      <3> HIDE DEF t, m, L, L1
      <3>6. more \in [1 .. m + 1 -> L1]
        BY <3>1, <3>4, <3>5
      <3>7. ASSUME NEW a \in 1 .. m + 1, NEW b \in 1 .. m + 1, a < b
            PROVE  more[a] < more[b]
        <4>1. a \in 1 .. m /\ more[a] = kept[a]
          BY <3>4, <3>7
        <4>2. CASE b = m + 1
          BY <3>2, <3>5, <4>1, <4>2
        <4>3. CASE b # m + 1
          <5>1. b \in 1 .. m /\ more[b] = kept[b]
            BY <3>4, <4>3
          <5>2. QED
            BY <3>5, <3>7, <4>1, <5>1
        <4>4. QED
          BY <4>2, <4>3
      <3>8. ASSUME NEW x \in L1
            PROVE  \E j \in 1 .. m + 1 : more[j] = x
        <4>1. CASE x = i + 1
          <5>1. m + 1 \in 1 .. m + 1 /\ more[m + 1] = x
            BY <3>4, <4>1
          <5>2. QED
            BY <5>1
        <4>2. CASE x # i + 1
          <5>1. PICK j \in 1 .. m : kept[j] = x
            BY <3>1, <3>5, <4>2
          <5>2. j \in 1 .. m + 1 /\ more[j] = x
            BY <3>4, <5>1
          <5>3. QED
            BY <5>2
        <4>3. QED
          BY <4>1, <4>2
      <3>9. ASSUME NEW j \in 1 .. m + 1
            PROVE  t[j] = tr[more[j]]
        <4>1. CASE j = m + 1
          BY <3>4, <4>1
        <4>2. CASE j # m + 1
          <5>1. j \in 1 .. m /\ more[j] = kept[j]
            BY <3>4, <4>2
          <5>2. QED
            BY <3>4, <3>5, <5>1
        <4>3. QED
          BY <4>1, <4>2
      <3>10. SiftsUpTo(tr, i + 1, t, more)
        <4> HIDE DEF more
        <4>1. Cardinality(L1) = m + 1
          BY <3>1, <3>5
        <4>2. QED
          BY <3>4, <3>6, <3>7, <3>8, <3>9, <4>1 DEF SiftsUpTo, L1
      <3>11. QED
        BY <2>4, <2>7, <3>10 DEF t
    <2>8. QED
      BY <2>6, <2>7
  <1>5. Nat \subseteq S
    <2> HIDE DEF S
    <2>1. QED
      BY <1>3, <1>4, Induction
  <1>6. QED
    BY <1>1, <1>2, <1>5 DEF n

--------------------------------------------------------------------------------
(***************************************************************************)
(* Slots that mirror a set L of indexes into the trove.                    *)
(***************************************************************************)
\* A probe for key k gets as far as slot s.
OnPath(w, sl, k, s) ==
  \E at \in 1 .. PathLength(w) :
     Paths[w][k][at] = s /\ \A i \in 1 .. at - 1 : sl[Paths[w][k][i]] # SlotEmpty

AllOnPath(w, sl, tr) == \A s \in SlotsOf(w) : sl[s] > 0 => OnPath(w, sl, tr[sl[s]].key, s)

Mirrors(w, sl, L, tr) ==
  /\ sl \in [SlotsOf(w) -> {SlotEmpty, SlotDummy} \cup L]
  /\ \A i \in L : tr[i].key \in Key /\ \E s \in SlotsOf(w) : sl[s] = i
  /\ \A s, t \in SlotsOf(w) : sl[s] > 0 /\ sl[s] = sl[t] => s = t
  /\ Cardinality(InUse(sl)) = Cardinality(L)
  /\ AllOnPath(w, sl, tr)

Indexes(L) == L \in SUBSET (Nat \ {0}) /\ IsFiniteSet(L)

\* There are 2^w slots.
LEMMA SlotCount ==
  ASSUME NEW w \in Widths, NEW S \in SUBSET SlotsOf(w)
  PROVE  /\ IsFiniteSet(SlotsOf(w)) /\ Cardinality(SlotsOf(w)) = Pow2[w]
         /\ IsFiniteSet(S) /\ Cardinality(S) \in Nat /\ Cardinality(S) <= Pow2[w]
         /\ S # SlotsOf(w) => Cardinality(S) < Pow2[w]
  <1>1. Pow2[w] \in Nat \ {0}
    BY WidthFacts
  <1>2. IsFiniteSet(SlotsOf(w)) /\ Cardinality(SlotsOf(w)) = Pow2[w]
    <2> DEFINE m == Pow2[w] - 1
    <2>1. m \in Int /\ ~(0 > m) /\ m - 0 + 1 = Pow2[w]
      BY <1>1
    <2> HIDE DEF m
    <2>2. IsFiniteSet(0 .. m) /\ Cardinality(0 .. m) = m - 0 + 1
      BY <2>1, FS_Interval
    <2>3. QED
      BY <2>1, <2>2 DEF m, SlotsOf
  <1>3. IsFiniteSet(S) /\ Cardinality(S) \in Nat
    BY <1>2, SomeCount
  <1>4. Cardinality(S) <= Pow2[w] /\ (Pow2[w] = Cardinality(S) => SlotsOf(w) = S)
    BY <1>2, FS_Subset
  <1>5. QED
    BY <1>1, <1>2, <1>3, <1>4

\* An index more: it takes a slot that is not in use and that its key reaches.
LEMMA Fills ==
  ASSUME NEW w \in Widths, NEW sl, NEW L, Indexes(L), NEW tr, Mirrors(w, sl, L, tr),
         NEW use \in SlotsOf(w), sl[use] <= 0, NEW n \in Nat \ {0}, n \notin L,
         NEW tr2, \A i \in L : tr2[i].key = tr[i].key, tr2[n].key \in Key,
         OnPath(w, sl, tr2[n].key, use)
  PROVE  /\ Indexes(L \cup {n})
         /\ Mirrors(w, [sl EXCEPT ![use] = n], L \cup {n}, tr2)
  <1> DEFINE new == [sl EXCEPT ![use] = n]
             L2 == L \cup {n}
  <1>1. L \in SUBSET (Nat \ {0}) /\ IsFiniteSet(L)
    BY DEF Indexes
  <1>2. /\ sl \in [SlotsOf(w) -> {SlotEmpty, SlotDummy} \cup L]
        /\ \A i \in L : tr[i].key \in Key /\ \E s \in SlotsOf(w) : sl[s] = i
        /\ \A s, t \in SlotsOf(w) : sl[s] > 0 /\ sl[s] = sl[t] => s = t
        /\ Cardinality(InUse(sl)) = Cardinality(L)
        /\ AllOnPath(w, sl, tr)
    BY DEF Mirrors
  <1>3. Indexes(L2) /\ Cardinality(L2) = Cardinality(L) + 1
    <2>1. IsFiniteSet(L2) /\ Cardinality(L2) = Cardinality(L) + 1
      BY <1>1, FS_AddElement
    <2>2. QED
      BY <1>1, <2>1 DEF Indexes
  <1>4. /\ new \in [SlotsOf(w) -> {SlotEmpty, SlotDummy} \cup L2]
        /\ new[use] = n /\ \A s \in SlotsOf(w) : s # use => new[s] = sl[s]
    BY <1>2
  <1> HIDE DEF new
  <1>5. /\ \A s \in SlotsOf(w) : sl[s] = 0 \/ sl[s] = -1 \/ (sl[s] \in L /\ sl[s] > 0)
        /\ sl[use] \notin L
        /\ \A s \in SlotsOf(w) : sl[s] > 0 => sl[s] \in L
    <2>1. \A s \in SlotsOf(w) : sl[s] \in {SlotEmpty, SlotDummy} \cup L
      BY <1>2
    <2>2. \A i \in L : i \in Nat /\ i > 0
      BY <1>1
    <2>3. \A s \in SlotsOf(w) : sl[s] = 0 \/ sl[s] = -1 \/ (sl[s] \in L /\ sl[s] > 0)
      BY <2>1, <2>2 DEF SlotEmpty, SlotDummy
    <2>4. QED
      BY <2>2, <2>3
  <1>6. ASSUME NEW i \in L2 PROVE \E s \in SlotsOf(w) : new[s] = i
    <2>1. CASE i = n
      BY <1>4, <2>1
    <2>2. CASE i # n
      <3>1. PICK s \in SlotsOf(w) : sl[s] = i
        BY <1>2, <2>2
      <3>2. s # use
        BY <1>5, <2>2, <3>1
      <3>3. QED
        BY <1>4, <3>1, <3>2
    <2>3. QED
      BY <2>1, <2>2
  <1>7. ASSUME NEW s \in SlotsOf(w), NEW t \in SlotsOf(w), new[s] > 0, new[s] = new[t]
        PROVE  s = t
    <2>1. \A x \in SlotsOf(w) : x # use /\ sl[x] > 0 => sl[x] # n
      BY <1>5
    <2>2. QED
      BY <1>2, <1>4, <1>7, <2>1
  <1>8. Cardinality(InUse(new)) = Cardinality(L2)
    <2>1. DOMAIN sl = SlotsOf(w) /\ DOMAIN new = SlotsOf(w)
      BY <1>2, <1>4
    <2>2. InUse(new) = InUse(sl) \cup {use} /\ use \notin InUse(sl)
      <3>1. \A s \in SlotsOf(w) : new[s] > 0 <=> (s = use \/ sl[s] > 0)
        BY <1>4
      <3>2. ~(sl[use] > 0)
        BY <1>5
      <3>3. QED
        BY <2>1, <3>1, <3>2 DEF InUse
    <2>3. InUse(sl) \in SUBSET SlotsOf(w)
      BY <2>1 DEF InUse
    <2>4. Cardinality(InUse(new)) = Cardinality(InUse(sl)) + 1
      <3>1. IsFiniteSet(InUse(sl))
        BY <2>3, SlotCount
      <3>2. QED
        BY <2>2, <3>1, FS_AddElement
    <2>5. QED
      BY <1>2, <1>3, <2>4
  <1>9. ASSUME NEW k \in Key, NEW s, OnPath(w, sl, k, s)
        PROVE  OnPath(w, new, k, s)
    <2> DEFINE path == Paths[w][k]
    <2>1. PICK at \in 1 .. PathLength(w) :
            path[at] = s /\ \A i \in 1 .. at - 1 : sl[path[i]] # SlotEmpty
      BY <1>9 DEF OnPath
    <2>2. path \in [1 .. PathLength(w) -> SlotsOf(w)] /\ PathLength(w) \in Nat
      BY PathShape, WidthFacts
    <2> HIDE DEF path
    <2>3. ASSUME NEW i \in 1 .. at - 1 PROVE new[path[i]] # SlotEmpty
      <3>1. i \in 1 .. PathLength(w)
        BY <2>2
      <3>2. path[i] \in SlotsOf(w) /\ sl[path[i]] # SlotEmpty
        BY <2>1, <2>2, <3>1
      <3>3. QED
        BY <1>4, <3>2 DEF SlotEmpty
    <2>4. QED
      BY <2>1, <2>3 DEF OnPath, path
  <1>10. \A i \in L2 : tr2[i].key \in Key
    BY <1>2
  <1>11. AllOnPath(w, new, tr2)
    <2>1. SUFFICES ASSUME NEW s \in SlotsOf(w), new[s] > 0
                   PROVE  OnPath(w, new, tr2[new[s]].key, s)
      BY DEF AllOnPath
    <2>2. CASE s = use
      BY <1>4, <1>9, <2>2
    <2>3. CASE s # use
      <3>1. new[s] = sl[s] /\ sl[s] \in L
        BY <1>4, <1>5, <2>1, <2>3
      <3>2. OnPath(w, sl, tr[sl[s]].key, s)
        BY <1>2, <2>1, <3>1 DEF AllOnPath
      <3>3. QED
        BY <1>2, <1>9, <3>1, <3>2
    <2>4. QED
      BY <2>2, <2>3
  <1>12. QED
    BY <1>3, <1>4, <1>6, <1>7, <1>8, <1>10, <1>11 DEF Mirrors, new

\* A slot made a dummy.
Emptied(new, w, sl, slot) ==
  /\ new \in [SlotsOf(w) -> Int] /\ new[slot] = SlotDummy
  /\ \A s \in SlotsOf(w) : s # slot => new[s] = sl[s]

\* The index a vacated slot held is gone.
LEMMA VacatedIndex ==
  ASSUME NEW w \in Widths, NEW sl, NEW L, Indexes(L), NEW tr, Mirrors(w, sl, L, tr),
         NEW slot \in SlotsOf(w), NEW n, n = sl[slot], n > 0, NEW L2, L2 = L \ {n}
  PROVE  Indexes(L2) /\ n \in L /\ Cardinality(L2) = Cardinality(L) - 1
  <1>1. L \in SUBSET (Nat \ {0}) /\ IsFiniteSet(L)
    BY DEF Indexes
  <1>2. sl[slot] \in {SlotEmpty, SlotDummy} \cup L
    BY DEF Mirrors
  <1>3. n \in L
    BY <1>2 DEF SlotEmpty, SlotDummy
  <1>4. IsFiniteSet(L2) /\ Cardinality(L2) = Cardinality(L) - 1
    BY <1>1, <1>3, FS_RemoveElement
  <1>5. QED
    BY <1>1, <1>3, <1>4 DEF Indexes

\* It cuts no path.
LEMMA Vacates ==
  ASSUME NEW w \in Widths, NEW sl, NEW L, Indexes(L), NEW tr, Mirrors(w, sl, L, tr),
         NEW slot \in SlotsOf(w), NEW n, n = sl[slot], n > 0,
         NEW new, Emptied(new, w, sl, slot),
         NEW L2, L2 = L \ {n}, NEW tr2, \A i \in L2 : tr2[i].key = tr[i].key
  PROVE  Mirrors(w, new, L2, tr2)
  <1>1. L \in SUBSET (Nat \ {0}) /\ IsFiniteSet(L)
    BY DEF Indexes
  <1>2. /\ sl \in [SlotsOf(w) -> {SlotEmpty, SlotDummy} \cup L]
        /\ \A i \in L : tr[i].key \in Key /\ \E s \in SlotsOf(w) : sl[s] = i
        /\ \A s, t \in SlotsOf(w) : sl[s] > 0 /\ sl[s] = sl[t] => s = t
        /\ Cardinality(InUse(sl)) = Cardinality(L)
        /\ AllOnPath(w, sl, tr)
    BY DEF Mirrors
  <1>3. /\ \A s \in SlotsOf(w) : sl[s] = 0 \/ sl[s] = -1 \/ (sl[s] \in L /\ sl[s] > 0)
        /\ \A s \in SlotsOf(w) : sl[s] > 0 => sl[s] \in L
    <2>1. \A s \in SlotsOf(w) : sl[s] \in {SlotEmpty, SlotDummy} \cup L
      BY <1>2
    <2>2. \A i \in L : i \in Nat /\ i > 0
      BY <1>1
    <2>3. \A s \in SlotsOf(w) : sl[s] = 0 \/ sl[s] = -1 \/ (sl[s] \in L /\ sl[s] > 0)
      BY <2>1, <2>2 DEF SlotEmpty, SlotDummy
    <2>4. QED
      BY <2>3
  <1>4. /\ DOMAIN new = SlotsOf(w) /\ DOMAIN sl = SlotsOf(w)
        /\ new[slot] = -1 /\ \A s \in SlotsOf(w) : s # slot => new[s] = sl[s]
    BY <1>2 DEF SlotDummy, Emptied
  <1>5. new \in [SlotsOf(w) -> {SlotEmpty, SlotDummy} \cup L2]
    <2>1. \A s \in SlotsOf(w) : s # slot => sl[s] # n
      BY <1>2
    <2>2. \A s \in SlotsOf(w) : s # slot => sl[s] \in {SlotEmpty, SlotDummy} \cup L2
      BY <1>2, <2>1
    <2>3. \A s \in SlotsOf(w) : new[s] \in {SlotEmpty, SlotDummy} \cup L2
      BY <1>4, <2>2 DEF SlotDummy
    <2>4. new = [s \in SlotsOf(w) |-> new[s]]
      BY DEF Emptied
    <2>5. QED
      BY <2>3, <2>4
  <1>6. Cardinality(L2) = Cardinality(L) - 1
    BY VacatedIndex
  <1>7. ASSUME NEW i \in L2 PROVE tr2[i].key \in Key /\ \E s \in SlotsOf(w) : new[s] = i
    <2>1. PICK s \in SlotsOf(w) : sl[s] = i
      BY <1>2
    <2>2. s # slot
      BY <2>1
    <2>3. tr2[i].key = tr[i].key
      OBVIOUS
    <2>4. QED
      BY <1>2, <1>4, <2>1, <2>2, <2>3
  <1>8. ASSUME NEW s \in SlotsOf(w), NEW t \in SlotsOf(w), new[s] > 0, new[s] = new[t]
        PROVE  s = t
    <2>1. s # slot /\ t # slot
      BY <1>4, <1>8
    <2>2. QED
      BY <1>2, <1>4, <1>8, <2>1
  <1>9. Cardinality(InUse(new)) = Cardinality(L2)
    <2>1. InUse(new) = InUse(sl) \ {slot} /\ slot \in InUse(sl)
      <3>1. \A s \in SlotsOf(w) : new[s] > 0 <=> (s # slot /\ sl[s] > 0)
        BY <1>4
      <3>2. QED
        BY <1>4, <3>1 DEF InUse
    <2>2. InUse(sl) \in SUBSET SlotsOf(w)
      BY <1>4 DEF InUse
    <2>3. Cardinality(InUse(new)) = Cardinality(InUse(sl)) - 1
      <3>1. IsFiniteSet(InUse(sl))
        BY <2>2, SlotCount
      <3>2. QED
        BY <2>1, <3>1, FS_RemoveElement
    <2>4. QED
      BY <1>2, <1>6, <2>3
  <1>10. ASSUME NEW k \in Key, NEW s, OnPath(w, sl, k, s)
         PROVE  OnPath(w, new, k, s)
    <2> DEFINE path == Paths[w][k]
    <2>1. PICK at \in 1 .. PathLength(w) :
            path[at] = s /\ \A i \in 1 .. at - 1 : sl[path[i]] # SlotEmpty
      BY <1>10 DEF OnPath
    <2>2. path \in [1 .. PathLength(w) -> SlotsOf(w)] /\ PathLength(w) \in Nat
      BY PathShape, WidthFacts
    <2> HIDE DEF path
    <2>3. ASSUME NEW i \in 1 .. at - 1 PROVE new[path[i]] # SlotEmpty
      <3>1. i \in 1 .. PathLength(w)
        BY <2>2
      <3>2. path[i] \in SlotsOf(w) /\ sl[path[i]] # SlotEmpty
        BY <2>1, <2>2, <3>1
      <3>3. QED
        BY <1>4, <3>2 DEF SlotEmpty
    <2>4. QED
      BY <2>1, <2>3 DEF OnPath, path
  <1>11. AllOnPath(w, new, tr2)
    <2>1. SUFFICES ASSUME NEW s \in SlotsOf(w), new[s] > 0
                   PROVE  OnPath(w, new, tr2[new[s]].key, s)
      BY DEF AllOnPath
    <2>2. s # slot
      BY <1>4, <2>1
    <2>3. new[s] = sl[s] /\ sl[s] > 0 /\ sl[s] \in L
      BY <1>3, <1>4, <2>1, <2>2
    <2>4. sl[s] # n
      BY <1>2, <2>2, <2>3
    <2>5. OnPath(w, sl, tr[sl[s]].key, s) /\ tr[sl[s]].key \in Key
      BY <1>2, <2>3 DEF AllOnPath
    <2>6. tr2[sl[s]].key = tr[sl[s]].key
      BY <2>3, <2>4
    <2>7. QED
      BY <1>10, <2>3, <2>5, <2>6
  <1>12. QED
    BY <1>5, <1>7, <1>8, <1>9, <1>11 DEF Mirrors

\* Only the keys of the trove count.
LEMMA KeysCount ==
  ASSUME NEW w \in Widths, NEW sl, NEW L, Indexes(L), NEW tr, Mirrors(w, sl, L, tr),
         NEW tr2, \A i \in L : tr2[i].key = tr[i].key
  PROVE  Mirrors(w, sl, L, tr2)
  <1>1. /\ sl \in [SlotsOf(w) -> {SlotEmpty, SlotDummy} \cup L]
        /\ AllOnPath(w, sl, tr)
    BY DEF Mirrors
  <1>2. \A i \in L : i \in Nat /\ i > 0
    BY DEF Indexes
  <1>3. \A s \in SlotsOf(w) : sl[s] > 0 => sl[s] \in L
    BY <1>1, <1>2 DEF SlotEmpty, SlotDummy
  <1>4. AllOnPath(w, sl, tr2)
    BY <1>1, <1>3 DEF AllOnPath
  <1>5. QED
    BY <1>4 DEF Mirrors

\* With fewer indexes than slots, and no dummies, a slot is empty.
LEMMA RoomLeft ==
  ASSUME NEW w \in Widths, NEW sl, NEW L, Indexes(L), NEW tr, Mirrors(w, sl, L, tr)
  PROVE  /\ InUse(sl) \in SUBSET SlotsOf(w) /\ Empties(sl) \in SUBSET SlotsOf(w)
         /\ Dummies(sl) \in SUBSET SlotsOf(w)
         /\ SlotsOf(w) = InUse(sl) \cup Empties(sl) \cup Dummies(sl)
         /\ Cardinality(L) \in Nat /\ Cardinality(L) <= Pow2[w]
         /\ Cardinality(L) < Pow2[w] /\ Dummies(sl) = {} => Empties(sl) # {}
  <1>1. sl \in [SlotsOf(w) -> {SlotEmpty, SlotDummy} \cup L]
        /\ Cardinality(InUse(sl)) = Cardinality(L)
    BY DEF Mirrors
  <1>2. \A i \in L : i \in Nat /\ i > 0
    BY DEF Indexes
  <1>3. \A s \in SlotsOf(w) : sl[s] = 0 \/ sl[s] = -1 \/ sl[s] > 0
    BY <1>1, <1>2 DEF SlotEmpty, SlotDummy
  <1>4. DOMAIN sl = SlotsOf(w)
    BY <1>1
  <1>5. /\ InUse(sl) \in SUBSET SlotsOf(w) /\ Empties(sl) \in SUBSET SlotsOf(w)
        /\ Dummies(sl) \in SUBSET SlotsOf(w)
        /\ SlotsOf(w) = InUse(sl) \cup Empties(sl) \cup Dummies(sl)
    BY <1>3, <1>4 DEF InUse, Empties, Dummies, SlotEmpty, SlotDummy
  <1>6. /\ Cardinality(InUse(sl)) \in Nat /\ Cardinality(InUse(sl)) <= Pow2[w]
        /\ Cardinality(SlotsOf(w)) = Pow2[w] /\ Pow2[w] \in Nat
    BY <1>5, SlotCount, WidthFacts
  <1>7. Cardinality(L) < Pow2[w] /\ Dummies(sl) = {} => Empties(sl) # {}
    <2>1. SUFFICES ASSUME Dummies(sl) = {}, Empties(sl) = {} PROVE Cardinality(L) = Pow2[w]
      BY <1>1, <1>6
    <2>2. InUse(sl) = SlotsOf(w)
      BY <1>5, <2>1
    <2>3. QED
      BY <1>1, <1>6, <2>2
  <1>8. QED
    BY <1>1, <1>5, <1>6, <1>7

--------------------------------------------------------------------------------
(***************************************************************************)
(* RebuildSlotsFromTrove().                                                *)
(***************************************************************************)
\* Each of NoSlots is empty.
LEMMA NoSlotsEmpty ==
  ASSUME NEW w \in Widths
  PROVE  /\ NoSlots(w) \in [SlotsOf(w) -> Int]
         /\ \A s \in SlotsOf(w) : NoSlots(w)[s] = 0
  <1>1. NoSlots(w) = [s \in SlotsOf(w) |-> 0]
    BY DEF NoSlots, SlotsOf, SlotEmpty
  <1>2. QED
    BY <1>1

\* The slots of a dict that holds nothing.
LEMMA NothingMirrored ==
  ASSUME NEW w \in Widths, NEW tr
  PROVE  Mirrors(w, NoSlots(w), {}, tr) /\ Dummies(NoSlots(w)) = {} /\ Indexes({})
  <1> DEFINE sl == NoSlots(w)
  <1>1. sl \in [SlotsOf(w) -> Int] /\ \A s \in SlotsOf(w) : sl[s] = 0
    BY NoSlotsEmpty
  <1> HIDE DEF sl
  <1>2. DOMAIN sl = SlotsOf(w)
    BY <1>1
  <1>3. InUse(sl) = {} /\ Dummies(sl) = {}
    BY <1>1, <1>2 DEF InUse, Dummies, SlotDummy
  <1>4. sl \in [SlotsOf(w) -> {SlotEmpty, SlotDummy} \cup {}]
    BY <1>1 DEF SlotEmpty
  <1>5. AllOnPath(w, sl, tr)
    BY <1>1 DEF AllOnPath
  <1>6. Cardinality(InUse(sl)) = Cardinality({}) /\ Indexes({})
    BY <1>3, FS_EmptySet DEF Indexes
  <1>7. QED
    BY <1>1, <1>3, <1>4, <1>5, <1>6 DEF Mirrors, sl

\* The loop of RebuildSlotsFromTrove(), entry by entry.
Placed(w, tr, i, last) ==
  [last EXCEPT ![Paths[w][tr[i].key][Landing(Paths[w][tr[i].key], Empties(last))]] = i]

\* Rebuilt() runs that loop.
LEMMA RebuiltLoop ==
  ASSUME NEW w \in Widths, NEW tr \in Seq(Entry)
  PROVE  \E u :
           /\ u[0] = NoSlots(w)
           /\ \A i \in 1 .. Len(tr) :
                u[i] = IF tr[i] = Dead THEN u[i - 1] ELSE Placed(w, tr, i, u[i - 1])
           /\ Rebuilt(w, tr) = u[Len(tr)]
  <1> DEFINE n == Len(tr)
             V == [SlotsOf(w) -> Int]
             b == NoSlots(w)
             Step(i, x) == IF tr[i] = Dead THEN x ELSE Placed(w, tr, i, x)
             g == [i \in 1 .. n |-> [x \in V |-> Step(i, x)]]
             Loop(f) == f = [i \in 0 .. n |-> IF i = 0 THEN b ELSE Step(i, f[i - 1])]
             u == CHOOSE f : Loop(f)
  <1>1. n \in Nat
    OBVIOUS
  <1>2. ASSUME NEW x \in V, NEW i \in 1 .. n PROVE Step(i, x) \in V
    <2>1. ASSUME NEW s PROVE [x EXCEPT ![s] = i] \in V
      <3>1. i \in Int
        BY <1>1
      <3>2. [x EXCEPT ![s] = i] = [t \in SlotsOf(w) |-> IF t = s THEN i ELSE x[t]]
        OBVIOUS
      <3>3. \A t \in SlotsOf(w) : (IF t = s THEN i ELSE x[t]) \in Int
        BY <3>1
      <3>4. QED
        BY <3>2, <3>3
    <2>2. Placed(w, tr, i, x) \in V
      BY <2>1 DEF Placed
    <2>3. QED
      BY <2>2
  <1> HIDE DEF n
  <1>3. b \in V /\ g \in [1 .. n -> [V -> V]]
    <2>1. b \in V
      BY NoSlotsEmpty
    <2> HIDE DEF Step, V
    <2>2. g \in [1 .. n -> [V -> V]]
      BY <1>2
    <2>3. QED
      BY <2>1, <2>2
  <1>4. PICK f \in [0 .. n -> V] : Rounds(n, b, g, f)
    <2> HIDE DEF V, b, g
    <2>1. QED
      BY <1>1, <1>3, Iteration
  <1> HIDE DEF V, b, Step
  <1>5. f[0] = b /\ \A i \in 1 .. n : f[i] = Step(i, f[i - 1])
    <2>1. f[0] = b /\ \A i \in 1 .. n : f[i] = g[i][f[i - 1]]
      <3> HIDE DEF g
      <3>1. QED
        BY <1>4 DEF Rounds
    <2>2. ASSUME NEW i \in 1 .. n PROVE f[i - 1] \in V
      <3>1. i - 1 \in 0 .. n
        BY <1>1
      <3>2. QED
        BY <1>4, <3>1
    <2>3. QED
      BY <2>1, <2>2
  <1>6. Loop(f)
    <2>1. f = [i \in 0 .. n |-> f[i]]
      BY <1>4
    <2>2. \A i \in 0 .. n : f[i] = IF i = 0 THEN b ELSE Step(i, f[i - 1])
      BY <1>1, <1>5
    <2>3. QED
      BY <2>1, <2>2
  <1>7. Loop(u)
    <2> HIDE DEF Loop
    <2>1. QED
      BY <1>6, Zenon
  <1>8. Rebuilt(w, tr) = u[n]
    BY Zenon DEF Rebuilt, n, b, Step, Placed
  <1> HIDE DEF u
  <1>9. u[0] = b /\ \A i \in 1 .. n : u[i] = Step(i, u[i - 1])
    BY <1>1, <1>7
  <1>10. QED
    BY <1>8, <1>9 DEF n, b, Step

\* Every live entry gets a slot that its key reaches, and nothing else does,
\* provided there are slots enough.
LEMMA RebuiltMirrors ==
  ASSUME NEW w \in Widths, NEW tr \in Seq(Entry), Cardinality(LiveAt(tr)) <= Pow2[w]
  PROVE  /\ Indexes(LiveAt(tr))
         /\ Mirrors(w, Rebuilt(w, tr), LiveAt(tr), tr)
         /\ Dummies(Rebuilt(w, tr)) = {}
  <1> DEFINE n == Len(tr)
             L(i) == LiveUpTo(tr, i)
  <1>1. PICK u : /\ u[0] = NoSlots(w)
                 /\ \A i \in 1 .. n :
                      u[i] = IF tr[i] = Dead THEN u[i - 1] ELSE Placed(w, tr, i, u[i - 1])
                 /\ Rebuilt(w, tr) = u[n]
    BY RebuiltLoop
  <1> DEFINE S == {i \in Nat : i <= n =>
                     Indexes(L(i)) /\ Mirrors(w, u[i], L(i), tr) /\ Dummies(u[i]) = {}}
  <1>2. n \in Nat /\ Pow2[w] \in Nat
    BY WidthFacts
  <1>3. \A i \in 1 .. n : tr[i] \in Entry
    OBVIOUS
  <1> HIDE DEF n
  <1>4. 0 \in S
    <2>1. L(0) = {}
      BY CountUpTo
    <2> HIDE DEF L
    <2>2. Indexes(L(0)) /\ Mirrors(w, u[0], L(0), tr) /\ Dummies(u[0]) = {}
      BY <1>1, <2>1, NothingMirrored
    <2>3. QED
      BY <2>2
  <1>5. ASSUME NEW i \in Nat, i \in S PROVE i + 1 \in S
    <2>1. SUFFICES ASSUME i + 1 <= n
                   PROVE  /\ Indexes(L(i + 1)) /\ Mirrors(w, u[i + 1], L(i + 1), tr)
                          /\ Dummies(u[i + 1]) = {}
      OBVIOUS
    <2> DEFINE sl == u[i]
    <2>2. i <= n /\ i + 1 \in 1 .. n /\ (i + 1) - 1 = i
      BY <1>2, <2>1
    <2>3. Indexes(L(i)) /\ Mirrors(w, sl, L(i), tr) /\ Dummies(sl) = {}
      BY <1>5, <2>2
    <2>4. u[i + 1] = IF tr[i + 1] = Dead THEN sl ELSE Placed(w, tr, i + 1, sl)
      BY <1>1, <2>2
    <2> HIDE DEF sl
    <2>5. CASE tr[i + 1] = Dead
      <3>1. L(i + 1) = L(i)
        BY <2>5, CountUpTo
      <3> HIDE DEF L
      <3>2. QED
        BY <2>3, <2>4, <2>5, <3>1
    <2>6. CASE tr[i + 1] # Dead
      <3> DEFINE k == tr[i + 1].key
                 path == Paths[w][k]
                 at == Landing(path, Empties(sl))
                 use == path[at]
                 m == i + 1
                 L1 == L(i)
                 L2 == L(m)
      <3>1. /\ L2 = L1 \cup {m} /\ m \notin L1 /\ Cardinality(L2) = Cardinality(L1) + 1
            /\ Cardinality(L1) \in Nat
        BY <2>6, CountUpTo
      <3>2. k \in Key
        BY <1>3, <2>2, <2>6 DEF Entry
      <3>3. Cardinality(L1) < Pow2[w]
        <4>1. L2 \in SUBSET LiveAt(tr) /\ IsFiniteSet(LiveAt(tr)) /\ Cardinality(LiveAt(tr)) \in Nat
          <5>1. L2 \in SUBSET LiveAt(tr)
            BY <1>2, <2>2 DEF LiveAt, LiveUpTo, n
          <5>2. IsFiniteSet(LiveAt(tr)) /\ Cardinality(LiveAt(tr)) \in Nat
            BY <1>2, CountUpTo DEF LiveAt, n
          <5>3. QED
            BY <5>1, <5>2
        <4> HIDE DEF L2, L1
        <4>2. Cardinality(L2) <= Cardinality(LiveAt(tr))
          BY <4>1, FS_Subset
        <4>3. QED
          BY <1>2, <3>1, <4>1, <4>2
      <3> HIDE DEF L1, L2, k
      <3>4. Empties(sl) \in SUBSET SlotsOf(w) /\ Empties(sl) # {}
        BY <2>3, <3>3, RoomLeft DEF L1
      <3>5. /\ at \in 1 .. PathLength(w) /\ use \in Empties(sl)
            /\ \A j \in 1 .. at - 1 : path[j] \notin Empties(sl)
        BY <3>2, <3>4, Lands
      <3>6. path \in [1 .. PathLength(w) -> SlotsOf(w)] /\ PathLength(w) \in Nat
        BY <3>2, PathShape, WidthFacts
      <3> HIDE DEF at, path
      <3>7. DOMAIN sl = SlotsOf(w)
        BY <2>3 DEF Mirrors
      <3>8. use \in SlotsOf(w) /\ sl[use] = 0
        BY <3>5, <3>7 DEF Empties, SlotEmpty
      <3>9. OnPath(w, sl, k, use)
        <4>1. ASSUME NEW j \in 1 .. at - 1 PROVE sl[path[j]] # SlotEmpty
          <5>1. j \in 1 .. PathLength(w)
            BY <3>5, <3>6
          <5>2. path[j] \in SlotsOf(w)
            BY <3>6, <5>1
          <5>3. QED
            BY <3>5, <3>7, <5>2 DEF Empties
        <4>2. QED
          BY <3>5, <4>1 DEF OnPath, path
      <3>10. u[m] = [sl EXCEPT ![use] = m]
        BY <2>4, <2>6 DEF Placed, use, path, at, m, k
      <3> HIDE DEF use
      <3>11. m \in Nat \ {0} /\ tr[m].key = k
        BY DEF k
      <3> HIDE DEF m
      <3>12. Indexes(L1 \cup {m}) /\ Mirrors(w, [sl EXCEPT ![use] = m], L1 \cup {m}, tr)
        <4>1. Indexes(L1) /\ Mirrors(w, sl, L1, tr) /\ sl[use] <= 0
          BY <2>3, <3>8 DEF L1
        <4>2. OnPath(w, sl, tr[m].key, use) /\ tr[m].key \in Key
          BY <3>2, <3>9, <3>11
        <4>3. QED
          BY <3>1, <3>8, <3>11, <4>1, <4>2, Fills
      <3>13. Dummies(u[m]) = {}
        <4>1. \A s \in SlotsOf(w) : sl[s] # SlotDummy
          BY <2>3, <3>7 DEF Dummies
        <4>2. m # SlotDummy
          BY <3>11 DEF SlotDummy
        <4>3. QED
          BY <3>7, <3>10, <4>1, <4>2 DEF Dummies
      <3>14. QED
        BY <3>1, <3>10, <3>12, <3>13 DEF L2, m
    <2>7. QED
      BY <2>5, <2>6
  <1>6. Nat \subseteq S
    <2> HIDE DEF S
    <2>1. QED
      BY <1>4, <1>5, Induction
  <1>7. Indexes(L(n)) /\ Mirrors(w, u[n], L(n), tr) /\ Dummies(u[n]) = {}
    <2>1. n \in S
      <3> HIDE DEF S
      <3>1. QED
        BY <1>2, <1>6
    <2> HIDE DEF L
    <2>2. QED
      BY <1>2, <2>1
  <1>8. L(n) = LiveAt(tr) /\ u[n] = Rebuilt(w, tr)
    <2>1. L(n) = LiveAt(tr)
      BY Zenon DEF LiveAt, n
    <2>2. u[n] = Rebuilt(w, tr)
      BY <1>1 DEF n
    <2>3. QED
      BY <2>1, <2>2
  <1> HIDE DEF L
  <1>9. QED
    BY <1>7, <1>8

\* The indexes of the live entries.
LEMMA LiveIndexes ==
  ASSUME NEW tr \in Seq(Entry)
  PROVE  /\ Indexes(LiveAt(tr)) /\ Cardinality(LiveAt(tr)) \in Nat
         /\ Cardinality(LiveAt(tr)) <= Len(tr)
         /\ \A i \in LiveAt(tr) : i \in 1 .. Len(tr) /\ tr[i] \in [key : Key, val : Value]
  <1>1. LiveAt(tr) \in SUBSET (1 .. Len(tr)) /\ Len(tr) \in Nat
    BY DEF LiveAt, LiveUpTo
  <1>2. IsFiniteSet(LiveAt(tr)) /\ Cardinality(LiveAt(tr)) \in Nat
    BY <1>1, CountUpTo DEF LiveAt
  <1>3. Cardinality(LiveAt(tr)) <= Len(tr)
    <2> DEFINE n == Len(tr)
    <2>1. n \in Nat
      BY <1>1
    <2> HIDE DEF n
    <2>2. IsFiniteSet(1 .. n) /\ Cardinality(1 .. n) = n
      <3>1. IsFiniteSet(1 .. n) /\ Cardinality(1 .. n) = IF 1 > n THEN 0 ELSE n - 1 + 1
        BY <2>1, FS_Interval
      <3>2. QED
        BY <2>1, <3>1
    <2>3. Cardinality(LiveAt(tr)) <= Cardinality(1 .. n)
      BY <1>1, <2>2, FS_Subset DEF n
    <2>4. QED
      BY <2>2, <2>3 DEF n
  <1>4. ASSUME NEW i \in LiveAt(tr)
        PROVE  i \in 1 .. Len(tr) /\ tr[i] \in [key : Key, val : Value]
    <2>1. i \in 1 .. Len(tr) /\ tr[i] # Dead
      BY DEF LiveAt, LiveUpTo
    <2>2. tr[i] \in Entry
      BY <2>1
    <2>3. QED
      BY <2>1, <2>2 DEF Entry
  <1>5. Indexes(LiveAt(tr))
    BY <1>1, <1>2 DEF Indexes
  <1>6. QED
    BY <1>2, <1>3, <1>4, <1>5

\* Slots and trove squeezed and built anew.
LEMMA Squeezed ==
  ASSUME NEW w \in Widths, NEW tr \in Seq(Entry), Cardinality(LiveAt(tr)) <= Pow2[w]
  PROVE  /\ LiveOf(tr) \in Seq(Entry)
         /\ Len(LiveOf(tr)) = Cardinality(LiveAt(tr))
         /\ LiveAt(LiveOf(tr)) = 1 .. Len(LiveOf(tr))
         /\ Cardinality(LiveAt(LiveOf(tr))) = Cardinality(LiveAt(tr))
         /\ Mirrors(w, Rebuilt(w, LiveOf(tr)), LiveAt(LiveOf(tr)), LiveOf(tr))
         /\ Dummies(Rebuilt(w, LiveOf(tr))) = {}
  <1> DEFINE r == LiveOf(tr)
  <1>1. PICK kept : SiftsUpTo(tr, Len(tr), r, kept)
    BY LiveEntries
  <1>2. /\ r \in Seq(Entry)
        /\ kept \in [1 .. Len(r) -> LiveAt(tr)]
        /\ \A j \in 1 .. Len(r) : r[j] = tr[kept[j]]
        /\ Cardinality(LiveAt(tr)) = Len(r)
    BY <1>1 DEF SiftsUpTo, LiveAt
  <1> HIDE DEF r
  <1>3. LiveAt(r) = 1 .. Len(r)
    <2>1. ASSUME NEW j \in 1 .. Len(r) PROVE r[j] # Dead
      <3>1. kept[j] \in LiveAt(tr)
        BY <1>2
      <3>2. tr[kept[j]] # Dead
        BY <3>1 DEF LiveAt, LiveUpTo
      <3>3. QED
        BY <1>2, <3>2
    <2>2. QED
      BY <2>1 DEF LiveAt, LiveUpTo
  <1>4. Cardinality(LiveAt(r)) = Len(r)
    <2> DEFINE n == Len(r)
    <2>1. n \in Nat
      BY <1>2
    <2> HIDE DEF n
    <2>2. Cardinality(1 .. n) = IF 1 > n THEN 0 ELSE n - 1 + 1
      BY <2>1, FS_Interval
    <2>3. Cardinality(1 .. n) = n
      BY <2>1, <2>2
    <2>4. QED
      BY <1>3, <2>3 DEF n
  <1>5. /\ Mirrors(w, Rebuilt(w, r), LiveAt(r), r)
        /\ Dummies(Rebuilt(w, r)) = {}
    BY <1>2, <1>4, RebuiltMirrors
  <1>6. QED
    BY <1>2, <1>3, <1>4, <1>5 DEF r

--------------------------------------------------------------------------------
(***************************************************************************)
(* The invariant: slots, trove and counts fit together.                    *)
(***************************************************************************)
\* The counted dummies are those there are, less one at most per renaming.
Counted(sl, dm, ren) ==
  /\ dm \in Int /\ IsFiniteSet(Dummies(sl))
  /\ dm <= Cardinality(Dummies(sl)) /\ Cardinality(Dummies(sl)) <= dm + ren

Fit(w, sl, ac, dm, tr, dead, ren) ==
  /\ w \in Widths /\ tr \in Seq(Entry) /\ Mirrors(w, sl, LiveAt(tr), tr)
  /\ ac = Cardinality(LiveAt(tr)) /\ dead = Len(tr) - ac
  /\ Counted(sl, dm, ren)

Unset == /\ width = 0 /\ slots = [s \in {} |-> SlotEmpty] /\ active = 0 /\ dummies = 0
         /\ trove = <<>> /\ trovedead = 0 /\ pending = FALSE

Room(tr, cap) == cap \in Nat /\ (Len(tr) < cap \/ (tr = <<>> /\ cap = 0))

Rest ==
  /\ highmark \in Int /\ highmark >= active
  /\ resizepct \in Int /\ Room(trove, trovecap)
  /\ sessions \in Int /\ pending \in BOOLEAN /\ renames \in 0 .. MaxRenames
  /\ enumors \in [Enumor -> [from : Key \cup {NoKey}, started : BOOLEAN,
                             ended : BOOLEAN, next : Nat]]

MirrorInv ==
  /\ Unset \/ Fit(width, slots, active, dummies, trove, trovedead, renames)
  /\ Rest

\* With no dummies, none are counted.
LEMMA NoDummies ==
  ASSUME NEW sl, Dummies(sl) = {}, NEW ren \in Nat
  PROVE  Counted(sl, 0, ren)
  BY FS_EmptySet DEF Counted

\* After squeezing, everything fits.
LEMMA SqueezedFit ==
  ASSUME NEW w \in Widths, NEW tr \in Seq(Entry), Cardinality(LiveAt(tr)) <= Pow2[w],
         NEW ren \in Nat
  PROVE  /\ Fit(w, Rebuilt(w, LiveOf(tr)), Cardinality(LiveAt(tr)), 0, LiveOf(tr), 0, ren)
         /\ Room(LiveOf(tr), Len(LiveOf(tr)) + 1)
  <1> DEFINE r == LiveOf(tr)
             sl == Rebuilt(w, r)
             c == Cardinality(LiveAt(tr))
  <1>1. /\ r \in Seq(Entry) /\ Len(r) = c /\ Cardinality(LiveAt(r)) = c
        /\ Mirrors(w, sl, LiveAt(r), r) /\ Dummies(sl) = {}
    BY Squeezed
  <1>2. c \in Nat
    BY LiveIndexes
  <1> HIDE DEF r, sl, c
  <1>3. Counted(sl, 0, ren)
    BY <1>1, NoDummies
  <1>4. Fit(w, sl, c, 0, r, 0, ren)
    BY <1>1, <1>2, <1>3 DEF Fit
  <1>5. Room(r, Len(r) + 1)
    BY <1>1, <1>2 DEF Room
  <1>6. QED
    BY <1>4, <1>5 DEF r, sl, c

\* There are never more keys than slots.
LEMMA FitRoom ==
  ASSUME NEW w, NEW sl, NEW ac, NEW dm, NEW tr, NEW dead, NEW ren,
         Fit(w, sl, ac, dm, tr, dead, ren)
  PROVE  /\ ac \in Nat /\ ac <= Pow2[w] /\ ac <= Len(tr) /\ Indexes(LiveAt(tr))
         /\ Dummies(sl) \in SUBSET SlotsOf(w) /\ InUse(sl) \in SUBSET SlotsOf(w)
         /\ Empties(sl) \in SUBSET SlotsOf(w)
         /\ SlotsOf(w) = InUse(sl) \cup Empties(sl) \cup Dummies(sl)
         /\ DOMAIN sl = SlotsOf(w)
  <1>1. /\ w \in Widths /\ tr \in Seq(Entry) /\ Mirrors(w, sl, LiveAt(tr), tr)
        /\ ac = Cardinality(LiveAt(tr))
    BY DEF Fit
  <1>2. Indexes(LiveAt(tr)) /\ ac <= Len(tr)
    BY <1>1, LiveIndexes
  <1>3. DOMAIN sl = SlotsOf(w)
    BY <1>1 DEF Mirrors
  <1>4. QED
    BY <1>1, <1>2, <1>3, RoomLeft

\* What a run checks follows from the invariant.
LEMMA FitMirrors ==
  ASSUME Fit(width, slots, active, dummies, trove, trovedead, renames), Rest
  PROVE  SlotsMirrorTrove
  <1>1. /\ width \in Widths /\ trove \in Seq(Entry)
        /\ active = Cardinality(LiveAt(trove)) /\ trovedead = Len(trove) - active
        /\ slots \in [SlotsOf(width) -> {SlotEmpty, SlotDummy} \cup LiveAt(trove)]
        /\ \A i \in LiveAt(trove) : \E s \in SlotsOf(width) : slots[s] = i
        /\ \A s, t \in SlotsOf(width) : slots[s] > 0 /\ slots[s] = slots[t] => s = t
        /\ Cardinality(InUse(slots)) = Cardinality(LiveAt(trove))
    BY DEF Fit, Mirrors
  <1>2. \A i \in LiveAt(trove) : i \in 1 .. Len(trove) /\ trove[i] # Dead
    BY DEF LiveAt, LiveUpTo
  <1>3. /\ active \in Nat /\ active <= Len(trove)
        /\ Dummies(slots) \in SUBSET SlotsOf(width) /\ DOMAIN slots = SlotsOf(width)
    BY FitRoom
  <1>4. Pow2[width] \in Nat \ {0} /\ width \in Nat /\ width # 0 /\ MaxRenames \in Nat
    BY <1>1, WidthFacts, TuningAssumption
  <1>5. Len(trove) \in Nat
    BY <1>1
  <1>6. /\ dummies \in Int /\ dummies <= Cardinality(Dummies(slots))
        /\ Cardinality(Dummies(slots)) <= dummies + renames
        /\ Cardinality(Dummies(slots)) \in Nat /\ Cardinality(Dummies(slots)) <= Pow2[width]
    BY <1>1, <1>3, SlotCount DEF Fit, Counted
  <1>7. renames \in 0 .. MaxRenames
    BY DEF Rest
  <1>8. /\ width \in {0} \cup InitialDictWidth .. MaxWidth
        /\ active \in 0 .. Len(trove) /\ trovedead \in 0 .. Len(trove)
        /\ dummies \in -MaxRenames .. Pow2[width] + MaxRenames
    <2>1. trovedead \in 0 .. Len(trove)
      BY <1>1, <1>3, <1>5
    <2>2. dummies \in -MaxRenames .. Pow2[width] + MaxRenames
      BY <1>4, <1>6, <1>7
    <2>3. QED
      BY <1>1, <1>3, <1>5, <2>1, <2>2 DEF Widths
  <1>9. slots \in [IF width = 0 THEN {} ELSE 0 .. Pow2[width] - 1 -> -1 .. Len(trove)]
    <2>1. \A s \in SlotsOf(width) : slots[s] \in -1 .. Len(trove)
      BY <1>1, <1>2, <1>5 DEF SlotEmpty, SlotDummy
    <2>2. slots \in [SlotsOf(width) -> -1 .. Len(trove)]
      BY <1>1, <2>1
    <2>3. SlotsOf(width) = IF width = 0 THEN {} ELSE 0 .. Pow2[width] - 1
      BY <1>4 DEF SlotsOf
    <2>4. QED
      BY <2>2, <2>3
  <1>10. trove # <<>> => Len(trove) < trovecap
    BY DEF Rest, Room
  <1>11. TypeOK
    <2>1. trove \in Seq([key : Key, val : Value] \cup {Dead})
      BY <1>1 DEF Entry
    <2>2. trovecap \in Nat
      BY DEF Rest, Room
    <2>3. QED
      BY <1>8, <1>9, <1>10, <2>1, <2>2 DEF TypeOK, Rest
  <1>12. ASSUME NEW i \in DOMAIN trove, trove[i] # Dead
         PROVE  Cardinality({s \in InUse(slots) : slots[s] = i}) = 1
    <2>1. i \in LiveAt(trove) /\ i > 0
      BY <1>1, <1>12 DEF LiveAt, LiveUpTo
    <2>2. PICK s \in SlotsOf(width) : slots[s] = i
      BY <1>1, <2>1
    <2>3. {x \in InUse(slots) : slots[x] = i} = {s}
      BY <1>1, <1>3, <2>1, <2>2 DEF InUse
    <2>4. QED
      BY <2>3, FS_Singleton
  <1>13. ASSUME NEW s \in InUse(slots)
         PROVE  trove[slots[s]] # Dead
    <2>1. s \in SlotsOf(width) /\ slots[s] > 0
      BY <1>3 DEF InUse
    <2>2. slots[s] \in LiveAt(trove)
      BY <1>1, <2>1 DEF SlotEmpty, SlotDummy
    <2>3. QED
      BY <1>2, <2>2
  <1>14. renames = 0 => dummies = Cardinality(Dummies(slots))
    BY <1>6
  <1>15. QED
    BY <1>1, <1>11, <1>12, <1>13, <1>14 DEF SlotsMirrorTrove

\* Nor has a dict that was never set anything amiss.
LEMMA UnsetMirrors ==
  ASSUME Unset, Rest
  PROVE  SlotsMirrorTrove
  <1>1. InUse(slots) = {} /\ Dummies(slots) = {} /\ Cardinality({}) = 0
    BY FS_EmptySet DEF Unset, InUse, Dummies
  <1>2. /\ width = 0 /\ slots = [s \in {} |-> SlotEmpty] /\ active = 0 /\ dummies = 0
        /\ trove = <<>> /\ trovedead = 0
    BY DEF Unset
  <1>3. slots \in [{} -> -1 .. Len(trove)]
    BY <1>2
  <1>4. MaxRenames \in Nat /\ Pow2[0] = 1
    BY TuningAssumption, Doubling
  <1>5. trovecap \in Nat
    BY DEF Rest, Room
  <1>6. dummies \in -MaxRenames .. Pow2[width] + MaxRenames
    BY <1>2, <1>4
  <1>7. TypeOK
    BY <1>2, <1>3, <1>5, <1>6 DEF TypeOK, Rest
  <1>8. DOMAIN trove = {} /\ Len(trove) = 0
    BY <1>2
  <1>9. active = Cardinality(InUse(slots)) /\ dummies = Cardinality(Dummies(slots))
        /\ trovedead = Len(trove) - active
    BY <1>1, <1>2, <1>8
  <1>10. /\ \A i \in DOMAIN trove : trove[i] # Dead =>
              Cardinality({s \in InUse(slots) : slots[s] = i}) = 1
         /\ \A s \in InUse(slots) : trove[slots[s]] # Dead
    BY <1>1, <1>8
  <1>11. QED
    BY <1>7, <1>9, <1>10 DEF SlotsMirrorTrove

\* Either way, the checked property holds.
LEMMA InvMirrors ==
  ASSUME MirrorInv
  PROVE  SlotsMirrorTrove
  BY FitMirrors, UnsetMirrors DEF MirrorInv

\* The first state.
LEMMA InitMirrors ==
  ASSUME Init
  PROVE  MirrorInv
  <1>1. MaxRenames \in Nat
    BY TuningAssumption
  <1>2. /\ width = 0 /\ slots = [s \in {} |-> SlotEmpty]
        /\ active = 0 /\ dummies = 0 /\ highmark = 0 /\ resizepct = 0
        /\ trove = <<>> /\ trovecap = 0 /\ trovedead = 0
        /\ sessions = 0 /\ pending = FALSE /\ renames = 0
        /\ enumors = [e \in Enumor |-> FreshEnumor(NoKey)]
    BY DEF Init
  <1>3. enumors \in [Enumor -> [from : Key \cup {NoKey}, started : BOOLEAN,
                                ended : BOOLEAN, next : Nat]]
    BY <1>2 DEF FreshEnumor
  <1>4. Unset
    BY <1>2 DEF Unset
  <1>5. Room(trove, trovecap)
    BY <1>2 DEF Room
  <1>6. pending \in BOOLEAN /\ renames \in 0 .. MaxRenames /\ sessions \in Int
        /\ highmark \in Int /\ highmark >= active /\ resizepct \in Int
    <2>1. pending \in BOOLEAN
      BY <1>2, Zenon
    <2>2. renames = 0 /\ sessions = 0 /\ highmark = 0 /\ active = 0 /\ resizepct = 0
      BY <1>2, Zenon
    <2>3. QED
      BY <1>1, <2>1, <2>2
  <1>7. Rest
    BY <1>3, <1>5, <1>6 DEF Rest
  <1>8. QED
    BY <1>4, <1>7 DEF MirrorInv

\* The slots after SetKey() has made room in them.
LEMMA SizedFit ==
  ASSUME MirrorInv, Sized.width <= MaxWidth
  PROVE  /\ Fit(Sized.width, Sized.slots, active, Sized.dummies, trove, trovedead, renames)
         /\ Sized.pct \in Int
  <1> DEFINE dumb == width = 0
             w == IF dumb THEN InitialDictWidth ELSE width
             pct == IF dumb THEN PctFullToResize ELSE resizepct
             below == slots_non_empty < Threshold(w, pct)
  <1>1. renames \in Nat /\ resizepct \in Int /\ PctFullToResize \in Int /\ pct \in Int
    BY TuningAssumption DEF MirrorInv, Rest
  <1>2. Sized.pct = pct
    BY DEF Sized
  <1>3. w \in Widths /\ trove \in Seq(Entry) /\ active = Cardinality(LiveAt(trove))
        /\ trovedead = Len(trove) - active /\ active \in Nat /\ active <= Pow2[w]
    <2>1. CASE Unset
      <3>1. LiveAt(trove) = {} /\ Cardinality({}) = 0
        BY <2>1, FS_EmptySet, CountUpTo DEF Unset, LiveAt
      <3>2. InitialDictWidth \in Widths /\ w = InitialDictWidth
        BY <2>1, TuningAssumption DEF Unset, Widths
      <3>3. Pow2[w] \in Nat
        BY <3>2, WidthFacts
      <3>4. trove = <<>> /\ active = 0 /\ trovedead = 0
        BY <2>1 DEF Unset
      <3> HIDE DEF w
      <3>5. trove \in Seq(Entry) /\ Len(trove) = 0
        BY <3>4
      <3>6. active = Cardinality(LiveAt(trove)) /\ trovedead = Len(trove) - active
            /\ active \in Nat /\ active <= Pow2[w]
        BY <3>1, <3>3, <3>4, <3>5
      <3>7. QED
        BY <3>2, <3>5, <3>6
    <2>2. CASE Fit(width, slots, active, dummies, trove, trovedead, renames)
      <3>1. width \in Widths /\ width # 0
        BY <2>2, WidthFacts DEF Fit
      <3>2. w = width
        BY <3>1
      <3>3. active \in Nat /\ active <= Pow2[width]
        BY <2>2, FitRoom
      <3>4. QED
        BY <2>2, <3>2, <3>3 DEF Fit
    <2>3. QED
      BY <2>1, <2>2 DEF MirrorInv
  <1> HIDE DEF w, pct
  <1>4. CASE below /\ dumb
    <2>1. Sized.width = w /\ Sized.slots = NoSlots(w) /\ Sized.dummies = dummies
      BY <1>4 DEF Sized, w, pct
    <2>2. Unset
      BY <1>4, WidthFacts DEF MirrorInv, Fit
    <2>3. dummies = 0 /\ LiveAt(trove) = {}
      BY <2>2, CountUpTo DEF Unset, LiveAt
    <2>4. Mirrors(w, NoSlots(w), LiveAt(trove), trove) /\ Counted(NoSlots(w), 0, renames)
      BY <1>1, <1>3, <2>3, NothingMirrored, NoDummies
    <2>5. QED
      BY <1>1, <1>2, <1>3, <2>1, <2>3, <2>4 DEF Fit
  <1>5. CASE below /\ ~dumb
    <2>1. Sized.width = width /\ Sized.slots = slots /\ Sized.dummies = dummies
      BY <1>5 DEF Sized, w, pct
    <2>2. Fit(width, slots, active, dummies, trove, trovedead, renames)
      BY <1>5 DEF MirrorInv, Unset
    <2>3. QED
      BY <1>1, <1>2, <2>1, <2>2
  <1>6. CASE ~below
    <2>1. Sized.width = w + 1 /\ Sized.slots = Rebuilt(w + 1, trove) /\ Sized.dummies = 0
      BY <1>6 DEF Sized, w, pct
    <2>2. w + 1 \in Widths
      BY <1>3, <2>1, TuningAssumption DEF Widths
    <2>3. active <= Pow2[w + 1]
      <3>1. w \in Nat /\ w + 1 \in Nat
        BY <1>3, WidthFacts
      <3>2. Pow2[w] \in Nat /\ Pow2[w + 1] \in Nat /\ Pow2[w] <= Pow2[w + 1]
        BY <3>1, Doubling, Wider
      <3>3. QED
        BY <1>3, <3>2
    <2> DEFINE v == w + 1
    <2> HIDE DEF v
    <2>4. Mirrors(v, Rebuilt(v, trove), LiveAt(trove), trove) /\ Dummies(Rebuilt(v, trove)) = {}
      BY <1>3, <2>2, <2>3, RebuiltMirrors DEF v
    <2>5. Counted(Rebuilt(v, trove), 0, renames)
      BY <1>1, <2>4, NoDummies
    <2>6. Fit(v, Rebuilt(v, trove), active, 0, trove, trovedead, renames)
      BY <1>3, <2>2, <2>4, <2>5 DEF Fit, v
    <2>7. QED
      BY <1>1, <1>2, <2>1, <2>6 DEF v
  <1>7. QED
    BY <1>4, <1>5, <1>6

\* Where SetKey() stops: at the key's slot, or at the first empty one that the
\* key reaches.
LEMMA SetLands ==
  ASSUME NEW sized, NEW ac, NEW dm, NEW dead, NEW ren,
         Fit(sized.width, sized.slots, ac, dm, trove, dead, ren),
         NEW k \in Key, SetLanding(sized, k) # Never
  PROVE  LET path == Paths[sized.width][k]
             at   == SetLanding(sized, k)
         IN  /\ at \in 1 .. PathLength(sized.width) /\ path[at] \in SlotsOf(sized.width)
             /\ path[at] \in Holders(sized.slots, k) \cup Empties(sized.slots)
             /\ path \in [1 .. PathLength(sized.width) -> SlotsOf(sized.width)]
             /\ \A i \in 1 .. at - 1 :
                  path[i] \notin Holders(sized.slots, k) /\ sized.slots[path[i]] # SlotEmpty
  <1> DEFINE w == sized.width
             sl == sized.slots
             path == Paths[w][k]
             S == Holders(sl, k) \cup Empties(sl)
             at == SetLanding(sized, k)
  <1>1. at = Landing(path, S)
    BY DEF SetLanding
  <1>2. w \in Widths
    BY DEF Fit
  <1>3. S \subseteq SlotsOf(w) /\ DOMAIN sl = SlotsOf(w)
    BY FitRoom DEF Holders
  <1>4. path \in [1 .. PathLength(w) -> SlotsOf(w)] /\ PathLength(w) \in Nat
    BY <1>2, PathShape, WidthFacts
  <1> HIDE DEF w, sl, S, at
  <1>5. /\ at \in 1 .. PathLength(w) /\ path[at] \in S
        /\ \A i \in 1 .. at - 1 : path[i] \notin S
    BY <1>1, <1>2, <1>3, Lands DEF at
  <1> HIDE DEF path
  <1>6. ASSUME NEW i \in 1 .. at - 1
        PROVE  path[i] \notin Holders(sl, k) /\ sl[path[i]] # SlotEmpty
    <2>1. i \in 1 .. PathLength(w)
      BY <1>4, <1>5
    <2>2. path[i] \in SlotsOf(w) /\ path[i] \notin S
      BY <1>4, <1>5, <2>1
    <2>3. QED
      BY <1>3, <2>2 DEF S, Empties
  <1>7. path[at] \in SlotsOf(w)
    BY <1>3, <1>5
  <1>8. QED
    BY <1>4, <1>5, <1>6, <1>7 DEF path, at, w, sl, S

--------------------------------------------------------------------------------
(***************************************************************************)
(* set() and setdefault().                                                 *)
(***************************************************************************)
\* The trove without its last entry.
LEMMA AllButLast ==
  ASSUME NEW S, NEW s \in Seq(S), s # <<>>
  PROVE  /\ Len(s) \in Nat /\ Len(s) >= 1
         /\ SubSeq(s, 1, Len(s) - 1) \in Seq(S)
         /\ Len(SubSeq(s, 1, Len(s) - 1)) = Len(s) - 1
         /\ \A i \in 1 .. Len(s) - 1 : SubSeq(s, 1, Len(s) - 1)[i] = s[i]
  <1> DEFINE n == Len(s) - 1
             r == SubSeq(s, 1, n)
  <1>1. Len(s) \in Nat /\ Len(s) >= 1
    OBVIOUS
  <1>2. n \in Nat /\ n <= Len(s)
    BY <1>1
  <1> HIDE DEF n
  <1>3. r = [i \in 1 .. n |-> s[i]]
    BY <1>2, SMTT(30)
  <1>4. \A i \in 1 .. n : s[i] \in S
    BY <1>1, <1>2
  <1> HIDE DEF r
  <1>5. r \in Seq(S) /\ Len(r) = n
    BY <1>2, <1>3, <1>4
  <1>6. QED
    BY <1>1, <1>3, <1>5 DEF n, r

\* RequestTroveEntry(): one live entry more, at the trove's end.
LEMMA Requested ==
  ASSUME trove \in Seq(Entry), NEW k \in Key, NEW v \in Value, NEW ac \in Nat,
         ac = Cardinality(LiveAt(trove)), trovedead = Len(trove) - ac, Room(trove, trovecap),
         RequestTroveEntry(k, v)
  PROVE  /\ trove' \in Seq(Entry) /\ Len(trove') \in Nat \ {0}
         /\ Len(trove') \notin LiveAt(trove)
         /\ LiveAt(trove') = LiveAt(trove) \cup {Len(trove')}
         /\ \A i \in LiveAt(trove) : trove'[i].key = trove[i].key
         /\ trove'[Len(trove')].key = k
         /\ trovedead' = Len(trove') - (ac + 1)
         /\ Room(trove', trovecap')
  <1> DEFINE e == [key |-> k, val |-> v]
             kept == TroveKept
             t == Append(kept, e)
             dead == trovedead - IF ReusedTail THEN 1 ELSE 0
             cap == trovecap + IF TroveFull THEN TroveIncrement ELSE 0
             m == Len(kept)
  <1>1. trove' = t /\ trovedead' = dead /\ trovecap' = cap
    BY DEF RequestTroveEntry
  <1>2. e \in Entry /\ e # Dead /\ e.key = k
    <2>1. NoKey \notin Key
      BY TuningAssumption
    <2>2. e.key = k /\ Dead.key = NoKey
      BY DEF Dead
    <2>3. QED
      BY <2>1, <2>2 DEF Entry
  <1>3. /\ kept \in Seq(Entry) /\ m \in Nat
        /\ m = Len(trove) - IF ReusedTail THEN 1 ELSE 0
        /\ \A i \in 1 .. m : kept[i] = trove[i]
    <2>1. CASE ReusedTail
      <3>1. trove # <<>> /\ kept = SubSeq(trove, 1, Len(trove) - 1)
        BY <2>1 DEF ReusedTail, TroveKept
      <3> HIDE DEF kept
      <3>2. /\ Len(trove) \in Nat /\ Len(trove) >= 1
            /\ kept \in Seq(Entry) /\ m = Len(trove) - 1
            /\ \A i \in 1 .. m : kept[i] = trove[i]
        BY <3>1, AllButLast
      <3>3. QED
        BY <2>1, <3>2
    <2>2. CASE ~ReusedTail
      BY <2>2 DEF TroveKept
    <2>3. QED
      BY <2>1, <2>2
  <1>4. ReusedTail => Len(trove) = m + 1 /\ trove[m + 1] = Dead
    BY <1>3 DEF ReusedTail
  <1> HIDE DEF e, kept
  <1>5. /\ t \in Seq(Entry) /\ Len(t) = m + 1 /\ t[m + 1] = e
        /\ \A i \in 1 .. m : t[i] = trove[i]
    BY <1>2, <1>3
  <1> HIDE DEF t, m
  <1>6. LiveAt(trove) = LiveUpTo(trove, m)
    <2>1. CASE ReusedTail
      <3>1. LiveUpTo(trove, m + 1) = LiveUpTo(trove, m)
        BY <1>3, <1>4, <2>1, CountUpTo
      <3>2. QED
        BY <1>4, <2>1, <3>1 DEF LiveAt
    <2>2. CASE ~ReusedTail
      <3>1. m = Len(trove)
        BY <1>3, <2>2
      <3>2. QED
        BY <3>1 DEF LiveAt
    <2>3. QED
      BY <2>1, <2>2
  <1>7. LiveUpTo(t, m) = LiveUpTo(trove, m)
    BY <1>5 DEF LiveUpTo
  <1>8. LiveAt(t) = LiveAt(trove) \cup {Len(t)} /\ Len(t) \notin LiveAt(trove)
    <2>1. t[m + 1] # Dead
      BY <1>2, <1>5
    <2>2. LiveUpTo(t, m + 1) = LiveUpTo(t, m) \cup {m + 1} /\ m + 1 \notin LiveUpTo(t, m)
      BY <1>3, <2>1, CountUpTo
    <2>3. QED
      BY <1>5, <1>6, <1>7, <2>2 DEF LiveAt
  <1>9. \A i \in LiveAt(trove) : t[i].key = trove[i].key
    <2>1. \A i \in LiveAt(trove) : i \in 1 .. m
      BY <1>6 DEF LiveUpTo
    <2>2. QED
      BY <1>5, <2>1
  <1>10. dead = Len(t) - (ac + 1)
    <2>1. CASE ReusedTail
      BY <1>3, <1>4, <1>5, <2>1
    <2>2. CASE ~ReusedTail
      BY <1>3, <1>5, <2>2
    <2>3. QED
      BY <2>1, <2>2
  <1>11. Room(t, cap)
    <2>1. TroveIncrement \in Nat /\ TroveIncrement >= 1 /\ (trovecap = 0 => TroveIncrement >= 2)
      <3>1. TroveInitSize \in Nat \ {0, 1} /\ TroveExtendOnceMax \in Nat \ {0, 1}
        BY TuningAssumption
      <3>2. trovecap \in Nat
        BY DEF Room
      <3>3. QED
        BY <3>1, <3>2 DEF TroveIncrement, LowerOf, HigherOf
    <2>2. trovecap \in Nat /\ (Len(trove) < trovecap \/ (Len(trove) = 0 /\ trovecap = 0))
      BY DEF Room
    <2>3. TroveFull <=> (trovecap = 0 \/ m = trovecap - 1)
      BY DEF TroveFull, m, kept
    <2>4. Len(trove) \in Nat /\ m <= Len(trove) /\ (Len(trove) = 0 => m = 0)
      BY <1>3, <1>4
    <2>5. CASE TroveFull
      <3>1. cap = trovecap + TroveIncrement
        BY <2>5
      <3>2. CASE trovecap = 0
        BY <1>3, <1>5, <2>1, <2>2, <2>4, <3>1, <3>2 DEF Room
      <3>3. CASE m = trovecap - 1
        BY <1>3, <1>5, <2>1, <2>2, <3>1, <3>3 DEF Room
      <3>4. QED
        BY <2>3, <2>5, <3>2, <3>3
    <2>6. CASE ~TroveFull
      <3>1. cap = trovecap
        BY <2>2, <2>6
      <3>2. m < trovecap - 1
        BY <1>3, <2>2, <2>3, <2>4, <2>6
      <3>3. QED
        BY <1>3, <1>5, <2>2, <3>1, <3>2 DEF Room
    <2>7. QED
      BY <2>5, <2>6
  <1>12. t[Len(t)].key = k /\ Len(t) \in Nat \ {0}
    BY <1>2, <1>3, <1>5
  <1> HIDE DEF dead, cap
  <1>13. QED
    BY <1>1, <1>5, <1>8, <1>9, <1>10, <1>11, <1>12

\* r is trove tr with e as its i-th entry.
Replaces(r, tr, i, e) ==
  /\ r \in Seq(Entry) /\ Len(r) = Len(tr) /\ r[i] = e
  /\ \A j \in 1 .. Len(tr) : j # i => r[j] = tr[j]

\* That is what an assignment to an entry does.
LEMMA Changed ==
  ASSUME NEW tr \in Seq(Entry), NEW i \in 1 .. Len(tr), NEW e \in Entry
  PROVE  Replaces([tr EXCEPT ![i] = e], tr, i, e)
  BY DEF Replaces

\* It lives unless it was deleted.
LEMMA ChangedLive ==
  ASSUME NEW tr \in Seq(Entry), NEW i \in 1 .. Len(tr), NEW e, NEW r, Replaces(r, tr, i, e)
  PROVE  /\ e = Dead => LiveAt(r) = LiveAt(tr) \ {i}
         /\ e # Dead => LiveAt(r) = LiveAt(tr) \cup {i}
  BY DEF Replaces, LiveAt, LiveUpTo

\* What the slots mirror are the keys.
LEMMA SameKeysFit ==
  ASSUME NEW w, NEW sl, NEW ac, NEW dm, NEW tr, NEW dead, NEW ren,
         Fit(w, sl, ac, dm, tr, dead, ren),
         NEW tr2 \in Seq(Entry), Len(tr2) = Len(tr), LiveAt(tr2) = LiveAt(tr),
         \A i \in LiveAt(tr) : tr2[i].key = tr[i].key
  PROVE  Fit(w, sl, ac, dm, tr2, dead, ren)
  <1>1. /\ w \in Widths /\ Mirrors(w, sl, LiveAt(tr), tr)
        /\ ac = Cardinality(LiveAt(tr)) /\ dead = Len(tr) - ac /\ Counted(sl, dm, ren)
    BY DEF Fit
  <1>2. Indexes(LiveAt(tr))
    BY FitRoom
  <1>3. Mirrors(w, sl, LiveAt(tr), tr2)
    BY <1>1, <1>2, KeysCount
  <1>4. QED
    BY <1>1, <1>3 DEF Fit

\* set() of a key that is there.
Overwrites(r, tr, i, v) == r = [tr EXCEPT ![i].val = v]

\* The keys stay.
SameKeys(r, tr) ==
  /\ r \in Seq(Entry) /\ Len(r) = Len(tr) /\ LiveAt(r) = LiveAt(tr)
  /\ \A j \in LiveAt(tr) : r[j].key = tr[j].key

LEMMA Overwritten ==
  ASSUME NEW tr \in Seq(Entry), NEW i \in LiveAt(tr), NEW v \in Value,
         NEW r, Overwrites(r, tr, i, v)
  PROVE  SameKeys(r, tr)
  <1> DEFINE e == [key |-> tr[i].key, val |-> v]
  <1>1. i \in 1 .. Len(tr) /\ tr[i] \in [key : Key, val : Value]
    BY LiveIndexes
  <1>2. e \in Entry /\ e # Dead /\ e.key = tr[i].key
    <2>1. NoKey \notin Key
      BY TuningAssumption
    <2>2. e.key = tr[i].key /\ Dead.key = NoKey /\ tr[i].key \in Key
      BY <1>1 DEF Dead
    <2>3. QED
      BY <1>1, <2>1, <2>2 DEF Entry
  <1>3. r = [tr EXCEPT ![i] = e]
    <2>1. [tr[i] EXCEPT !.val = v] = e
      BY <1>1
    <2> HIDE DEF e
    <2>2. r = [tr EXCEPT ![i] = [tr[i] EXCEPT !.val = v]]
      BY <1>1 DEF Overwrites
    <2>3. QED
      BY <2>1, <2>2
  <1> HIDE DEF e
  <1>4. Replaces(r, tr, i, e)
    BY <1>1, <1>2, <1>3, Changed
  <1>5. LiveAt(r) = LiveAt(tr)
    <2>1. LiveAt(r) = LiveAt(tr) \cup {i}
      BY <1>1, <1>2, <1>4, ChangedLive
    <2>2. QED
      BY <2>1
  <1>6. \A j \in LiveAt(tr) : r[j].key = tr[j].key
    <2>1. \A j \in LiveAt(tr) : j \in 1 .. Len(tr)
      BY DEF LiveAt, LiveUpTo
    <2>2. QED
      BY <1>2, <1>4, <2>1 DEF Replaces
  <1>7. QED
    BY <1>4, <1>5, <1>6 DEF SameKeys, Replaces

LEMMA OverwrittenFit ==
  ASSUME NEW w, NEW sl, NEW ac, NEW dm, NEW tr, NEW dead, NEW ren,
         Fit(w, sl, ac, dm, tr, dead, ren), NEW s \in SlotsOf(w), sl[s] > 0,
         NEW v \in Value, NEW r, Overwrites(r, tr, sl[s], v)
  PROVE  Fit(w, sl, ac, dm, r, dead, ren) /\ SameKeys(r, tr)
  <1>1. /\ w \in Widths /\ tr \in Seq(Entry)
        /\ sl \in [SlotsOf(w) -> {SlotEmpty, SlotDummy} \cup LiveAt(tr)]
    BY DEF Fit, Mirrors
  <1>2. sl[s] \in LiveAt(tr)
    BY <1>1 DEF SlotEmpty, SlotDummy
  <1>3. SameKeys(r, tr)
    BY <1>1, <1>2, Overwritten
  <1>4. Fit(w, sl, ac, dm, r, dead, ren)
    BY <1>3, SameKeysFit DEF SameKeys
  <1>5. QED
    BY <1>3, <1>4

\* The slot SetKey() uses: the empty one it came to, or a dummy before it.
LEMMA UsedSlot ==
  ASSUME NEW sized, NEW ac, NEW dm, NEW dead, NEW ren,
         Fit(sized.width, sized.slots, ac, dm, trove, dead, ren),
         NEW k \in Key, SetLanding(sized, k) # Never,
         sized.slots[Paths[sized.width][k][SetLanding(sized, k)]] = SlotEmpty
  PROVE  LET path == Paths[sized.width][k]
             at   == SetLanding(sized, k)
             use  == SlotToUse(sized, path, at)
         IN  /\ use \in SlotsOf(sized.width)
             /\ OnPath(sized.width, sized.slots, k, use)
             /\ \/ use = path[at] /\ sized.slots[use] = SlotEmpty
                \/ use # path[at] /\ sized.slots[use] = SlotDummy
  <1> DEFINE w == sized.width
             sl == sized.slots
             path == Paths[w][k]
             at == SetLanding(sized, k)
             use == SlotToUse(sized, path, at)
             seen == {i \in 1 .. at - 1 : path[i] \in Dummies(sl)}
             n == PathLength(w)
  <1>1. /\ at \in 1 .. n /\ path[at] \in SlotsOf(w)
        /\ path \in [1 .. n -> SlotsOf(w)]
        /\ \A i \in 1 .. at - 1 : sl[path[i]] # SlotEmpty
    BY SetLands
  <1>2. n \in Nat
    BY WidthFacts DEF Fit
  <1>3. sl[path[at]] = SlotEmpty
    OBVIOUS
  <1>4. use = IF seen = {} THEN path[at] ELSE path[LeastOf(seen)]
    BY DEF SlotToUse
  <1> HIDE DEF w, sl, path, at, use, n
  <1>5. CASE seen = {}
    <2>1. use = path[at]
      BY <1>4, <1>5
    <2>2. OnPath(w, sl, k, use)
      BY <1>1, <2>1 DEF OnPath, path, n
    <2>3. QED
      BY <1>1, <1>3, <2>1, <2>2 DEF use, at, path, sl, w
  <1>6. CASE seen # {}
    <2> DEFINE j == LeastOf(seen)
    <2>1. seen \subseteq Nat
      BY <1>1, <1>2
    <2>2. j \in seen
      <3> HIDE DEF seen
      <3>1. QED
        BY <1>6, <2>1, Least
    <2>3. use = path[j] /\ j \in 1 .. at - 1 /\ path[j] \in Dummies(sl)
      BY <1>4, <1>6, <2>2
    <2> HIDE DEF j, seen
    <2>4. j \in 1 .. n /\ \A i \in 1 .. j - 1 : i \in 1 .. at - 1
      BY <1>1, <1>2, <2>3
    <2>5. use \in SlotsOf(w) /\ sl[use] = SlotDummy
      BY <1>1, <2>3, <2>4 DEF Dummies
    <2>6. use # path[at]
      BY <1>3, <2>5 DEF SlotEmpty, SlotDummy
    <2>7. OnPath(w, sl, k, use)
      BY <1>1, <2>3, <2>4 DEF OnPath, path, n
    <2>8. QED
      BY <2>5, <2>6, <2>7 DEF use, at, path, sl, w
  <1>7. QED
    BY <1>5, <1>6

\* A slot filled: one dummy less, if it was one.
Filled(new, w, sl, use) ==
  /\ DOMAIN new = SlotsOf(w) /\ new[use] # SlotDummy
  /\ \A s \in SlotsOf(w) : s # use => new[s] = sl[s]

\* The dummies left.
LEMMA DummiesFilled ==
  ASSUME NEW w \in Widths, NEW sl, DOMAIN sl = SlotsOf(w), Dummies(sl) \in SUBSET SlotsOf(w),
         NEW use \in SlotsOf(w), NEW new, Filled(new, w, sl, use)
  PROVE  /\ IsFiniteSet(Dummies(sl)) /\ Cardinality(Dummies(sl)) \in Nat
         /\ IsFiniteSet(Dummies(new)) /\ Cardinality(Dummies(new)) \in Nat
         /\ sl[use] # SlotDummy => Dummies(new) = Dummies(sl)
         /\ sl[use] = SlotDummy => Cardinality(Dummies(new)) = Cardinality(Dummies(sl)) - 1
  <1>1. IsFiniteSet(Dummies(sl)) /\ Cardinality(Dummies(sl)) \in Nat
    BY SlotCount
  <1>2. Dummies(new) = Dummies(sl) \ {use}
    BY DEF Dummies, Filled
  <1>3. IsFiniteSet(Dummies(new)) /\ Cardinality(Dummies(new)) \in Nat
    <2>1. Dummies(new) \in SUBSET SlotsOf(w)
      BY <1>2
    <2>2. QED
      BY <2>1, SlotCount
  <1>4. sl[use] # SlotDummy => Dummies(new) = Dummies(sl)
    BY <1>2 DEF Dummies
  <1>5. sl[use] = SlotDummy => Cardinality(Dummies(new)) = Cardinality(Dummies(sl)) - 1
    <2>1. sl[use] = SlotDummy => use \in Dummies(sl)
      BY DEF Dummies
    <2>2. QED
      BY <1>1, <1>2, <2>1, FS_RemoveElement
  <1>6. QED
    BY <1>1, <1>3, <1>4, <1>5

\* The invariant after a call, from its parts.
LEMMA FitNext ==
  ASSUME Fit(width', slots', active', dummies', trove', trovedead', renames'), Rest'
  PROVE  MirrorInv'
  BY DEF MirrorInv

\* The rest, when no enumerator is touched.
LEMMA RestNext ==
  ASSUME Rest, UNCHANGED <<sessions, enumors, renames>>, pending' \in BOOLEAN,
         resizepct' \in Int, highmark' \in Int, highmark' >= active', Room(trove', trovecap')
  PROVE  Rest'
  BY DEF Rest

\* Room depends on the length only.
LEMMA LongerRoom ==
  ASSUME NEW tr, NEW tr2, NEW cap, Room(tr, cap), Len(tr2) = Len(tr),
         tr \in Seq(Entry), tr2 \in Seq(Entry)
  PROVE  Room(tr2, cap)
  BY DEF Room

\* A key more: its slot is the first that its probes may take.
LEMMA AddedFit ==
  ASSUME MirrorInv, NEW k \in Key, NEW v \in Value, Sized.width <= MaxWidth,
         SetLanding(Sized, k) # Never,
         Sized.slots[Paths[Sized.width][k][SetLanding(Sized, k)]] = SlotEmpty,
         RequestTroveEntry(k, v), NEW use,
         use = SlotToUse(Sized, Paths[Sized.width][k], SetLanding(Sized, k)),
         NEW slot, slot = Paths[Sized.width][k][SetLanding(Sized, k)]
  PROVE  /\ Fit(Sized.width, [Sized.slots EXCEPT ![use] = Len(trove')], active + 1,
                DummiesLeft(Sized, use, slot), trove', trovedead', renames)
         /\ Room(trove', trovecap')
  <1> DEFINE w == Sized.width
             sl == Sized.slots
             dm == Sized.dummies
             L == LiveAt(trove)
             L2 == LiveAt(trove')
             n == Len(trove')
             t == trove'
             new == [sl EXCEPT ![use] = n]
  <1>1. Fit(w, sl, active, dm, trove, trovedead, renames)
    BY SizedFit
  <1>2. /\ w \in Widths /\ trove \in Seq(Entry) /\ Mirrors(w, sl, L, trove)
        /\ active = Cardinality(L) /\ trovedead = Len(trove) - active /\ Counted(sl, dm, renames)
    BY <1>1 DEF Fit
  <1>3. /\ active \in Nat /\ Indexes(L) /\ Dummies(sl) \in SUBSET SlotsOf(w)
        /\ DOMAIN sl = SlotsOf(w)
    BY <1>1, FitRoom
  <1>4. Room(trove, trovecap) /\ renames \in Nat
    BY TuningAssumption DEF MirrorInv, Rest
  <1>5. /\ t \in Seq(Entry) /\ n \in Nat \ {0} /\ n \notin L /\ L2 = L \cup {n}
        /\ \A i \in L : t[i].key = trove[i].key
        /\ t[n].key = k /\ trovedead' = n - (active + 1)
        /\ Room(t, trovecap')
    BY <1>2, <1>3, <1>4, Requested
  <1>6. /\ use \in SlotsOf(w) /\ OnPath(w, sl, k, use)
        /\ \/ use = slot /\ sl[use] = SlotEmpty
           \/ use # slot /\ sl[use] = SlotDummy
    BY <1>1, UsedSlot
  <1>7. DummiesLeft(Sized, use, slot) = dm - IF use = slot THEN 0 ELSE 1
    BY DEF DummiesLeft
  <1> HIDE DEF w, sl, dm, L, L2, n, t
  <1>8. Indexes(L \cup {n}) /\ Mirrors(w, new, L \cup {n}, t)
    <2>1. sl[use] <= 0
      BY <1>6 DEF SlotEmpty, SlotDummy
    <2>2. OnPath(w, sl, t[n].key, use) /\ t[n].key \in Key
      BY <1>5, <1>6
    <2> HIDE DEF new
    <2>3. QED
      BY <1>2, <1>3, <1>5, <1>6, <2>1, <2>2, Fills DEF new
  <1>9. Counted(new, DummiesLeft(Sized, use, slot), renames)
    <2>0. Filled(new, w, sl, use)
      BY <1>3, <1>5, <1>6 DEF Filled, SlotDummy
    <2> HIDE DEF new
    <2>1. /\ IsFiniteSet(Dummies(sl)) /\ Cardinality(Dummies(sl)) \in Nat
          /\ IsFiniteSet(Dummies(new)) /\ Cardinality(Dummies(new)) \in Nat
          /\ sl[use] # SlotDummy => Dummies(new) = Dummies(sl)
          /\ sl[use] = SlotDummy => Cardinality(Dummies(new)) = Cardinality(Dummies(sl)) - 1
      BY <1>2, <1>3, <1>6, <2>0, DummiesFilled
    <2>2. dm \in Int /\ dm <= Cardinality(Dummies(sl))
          /\ Cardinality(Dummies(sl)) <= dm + renames
      BY <1>2 DEF Counted
    <2>3. CASE use = slot
      <3>1. sl[use] # SlotDummy
        BY <1>6, <2>3 DEF SlotEmpty, SlotDummy
      <3>2. DummiesLeft(Sized, use, slot) = dm
        BY <1>7, <2>2, <2>3
      <3>3. QED
        BY <2>1, <2>2, <3>1, <3>2 DEF Counted
    <2>4. CASE use # slot
      <3>1. sl[use] = SlotDummy
        BY <1>6, <2>4
      <3>2. DummiesLeft(Sized, use, slot) = dm - 1
        BY <1>7, <2>2, <2>4
      <3>3. QED
        BY <1>4, <2>1, <2>2, <3>1, <3>2 DEF Counted
    <2>5. QED
      BY <2>3, <2>4
  <1>10. active + 1 = Cardinality(L2)
    <2>1. IsFiniteSet(L)
      BY <1>3 DEF Indexes
    <2>2. QED
      BY <1>2, <1>5, <2>1, FS_AddElement
  <1> HIDE DEF new
  <1>11. Fit(w, new, active + 1, DummiesLeft(Sized, use, slot), t, trovedead', renames)
    <2>1. L2 = LiveAt(t)
      BY DEF L2, t
    <2>2. Len(t) = n
      BY DEF t, n
    <2>3. QED
      BY <1>2, <1>5, <1>8, <1>9, <1>10, <2>1, <2>2 DEF Fit
  <1>12. QED
    BY <1>5, <1>11 DEF w, new, sl, n, t

\* set() and setdefault().
LEMMA SetKeyMirrors ==
  ASSUME MirrorInv, NEW k \in Key, NEW v \in Value, NEW overwrite \in BOOLEAN,
         SetKey(k, v, overwrite)
  PROVE  MirrorInv'
  <1> DEFINE sized == Sized
             path == Paths[sized.width][k]
             at == SetLanding(sized, k)
             slot == path[at]
             use == SlotToUse(sized, path, at)
  <1>1. /\ sized.width <= MaxWidth
        /\ width' = sized.width /\ resizepct' = sized.pct
        /\ UNCHANGED <<sessions, pending, enumors, renames>>
    BY DEF SetKey
  <1>2. /\ Fit(sized.width, sized.slots, active, sized.dummies, trove, trovedead, renames)
        /\ sized.pct \in Int
    BY <1>1, SizedFit
  <1>3. /\ Rest /\ pending \in BOOLEAN /\ highmark \in Int /\ highmark >= active
        /\ Room(trove, trovecap)
    BY DEF MirrorInv, Rest
  <1>4. active \in Nat
    BY <1>2, FitRoom
  <1>5. CASE /\ slots' = sized.slots /\ dummies' = sized.dummies
             /\ UNCHANGED <<active, highmark, troveVars>>
    <2>1. UNCHANGED <<active, highmark, trove, trovecap, trovedead>>
      BY <1>5 DEF troveVars
    <2>2. Rest'
      BY <1>1, <1>2, <1>3, <2>1, RestNext
    <2>3. Fit(width', slots', active', dummies', trove', trovedead', renames')
      BY <1>1, <1>2, <1>5, <2>1
    <2>4. QED
      BY <2>2, <2>3, FitNext
  <1>6. CASE /\ at # Never /\ sized.slots[slot] > 0
             /\ slots' = sized.slots /\ dummies' = sized.dummies
             /\ trove' = IF overwrite
                         THEN [trove EXCEPT ![sized.slots[slot]].val = v] ELSE trove
             /\ UNCHANGED <<active, highmark, trovecap, trovedead>>
    <2>1. slot \in SlotsOf(sized.width)
      BY <1>2, <1>6, SetLands
    <2>2. /\ Fit(sized.width, sized.slots, active, sized.dummies, trove', trovedead, renames)
          /\ Len(trove') = Len(trove)
      <3>1. CASE overwrite
        <4>1. Overwrites(trove', trove, sized.slots[slot], v)
          BY <1>6, <3>1 DEF Overwrites
        <4> HIDE DEF sized, slot
        <4>2. QED
          BY <1>2, <1>6, <2>1, <4>1, OverwrittenFit DEF SameKeys
      <3>2. CASE ~overwrite
        BY <1>2, <1>6, <3>2
      <3>3. QED
        BY <3>1, <3>2
    <2>3. Room(trove', trovecap')
      <3>1. trove \in Seq(Entry) /\ trove' \in Seq(Entry)
        BY <1>2, <2>2 DEF Fit
      <3>2. QED
        BY <1>3, <1>6, <2>2, <3>1, LongerRoom
    <2>4. Rest'
      BY <1>1, <1>2, <1>3, <1>6, <2>3, RestNext
    <2>5. Fit(width', slots', active', dummies', trove', trovedead', renames')
      BY <1>1, <1>6, <2>2
    <2>6. QED
      BY <2>4, <2>5, FitNext
  <1>7. CASE /\ at # Never /\ sized.slots[slot] = SlotEmpty
             /\ RequestTroveEntry(k, v)
             /\ slots' = [sized.slots EXCEPT ![use] = Len(trove')]
             /\ dummies' = DummiesLeft(sized, use, slot)
             /\ active' = active + 1
             /\ highmark' = HigherOf(highmark, active + 1)
    <2>1. /\ Fit(sized.width, [sized.slots EXCEPT ![use] = Len(trove')], active + 1,
                 DummiesLeft(sized, use, slot), trove', trovedead', renames)
          /\ Room(trove', trovecap')
      BY <1>1, <1>7, AddedFit
    <2>2. Fit(width', slots', active', dummies', trove', trovedead', renames')
      BY <1>1, <1>7, <2>1
    <2>3. highmark' \in Int /\ highmark' >= active'
      BY <1>3, <1>4, <1>7 DEF HigherOf
    <2>4. Rest'
      BY <1>1, <1>2, <1>3, <2>1, <2>3, RestNext
    <2>5. QED
      BY <2>2, <2>4, FitNext
  <1>8. QED
    BY <1>5, <1>6, <1>7 DEF SetKey

--------------------------------------------------------------------------------
(***************************************************************************)
(* del() and what it sets off.                                             *)
(***************************************************************************)
\* A slot vacated is a dummy more.
LEMMA DummiesEmptied ==
  ASSUME NEW w \in Widths, NEW sl, DOMAIN sl = SlotsOf(w), Dummies(sl) \in SUBSET SlotsOf(w),
         NEW slot \in SlotsOf(w), sl[slot] > 0, NEW new, Emptied(new, w, sl, slot)
  PROVE  /\ IsFiniteSet(Dummies(sl)) /\ Cardinality(Dummies(sl)) \in Nat
         /\ IsFiniteSet(Dummies(new)) /\ Dummies(new) \in SUBSET SlotsOf(w)
         /\ Cardinality(Dummies(new)) = Cardinality(Dummies(sl)) + 1
  <1>1. IsFiniteSet(Dummies(sl)) /\ Cardinality(Dummies(sl)) \in Nat
    BY SlotCount
  <1>2. Dummies(new) = Dummies(sl) \cup {slot}
    BY DEF Dummies, Emptied
  <1>3. slot \notin Dummies(sl)
    BY DEF Dummies, SlotDummy
  <1>4. Dummies(new) \in SUBSET SlotsOf(w)
    BY <1>2
  <1>5. IsFiniteSet(Dummies(new)) /\ Cardinality(Dummies(new)) = Cardinality(Dummies(sl)) + 1
    BY <1>1, <1>2, <1>3, FS_AddElement
  <1>6. QED
    BY <1>1, <1>4, <1>5

\* A slot in use that becomes a dummy, with its entry still in the trove.
LEMMA LeftFit ==
  ASSUME NEW w, NEW sl, NEW ac, NEW dm, NEW tr, NEW dead, NEW ren,
         Fit(w, sl, ac, dm, tr, dead, ren), NEW slot \in SlotsOf(w), sl[slot] > 0
  PROVE  /\ Emptied([sl EXCEPT ![slot] = SlotDummy], w, sl, slot)
         /\ sl[slot] \in LiveAt(tr) /\ sl[slot] \in 1 .. Len(tr)
         /\ tr[sl[slot]] \in [key : Key, val : Value]
  <1>1. /\ w \in Widths /\ tr \in Seq(Entry)
        /\ sl \in [SlotsOf(w) -> {SlotEmpty, SlotDummy} \cup LiveAt(tr)]
    BY DEF Fit, Mirrors
  <1>2. sl[slot] \in LiveAt(tr)
    BY <1>1 DEF SlotEmpty, SlotDummy
  <1>3. Emptied([sl EXCEPT ![slot] = SlotDummy], w, sl, slot)
    <2>1. \A i \in LiveAt(tr) : i \in Int
      BY <1>1, LiveIndexes
    <2>2. sl \in [SlotsOf(w) -> Int]
      BY <1>1, <2>1 DEF SlotEmpty, SlotDummy
    <2>3. QED
      BY <2>2 DEF Emptied, SlotDummy
  <1>4. QED
    BY <1>1, <1>2, <1>3, LiveIndexes

\* Slots and trove right after a deletion, before anything is compacted.
LEMMA DeletedFit ==
  ASSUME NEW w, NEW sl, NEW ac, NEW dm, NEW tr, NEW dead, NEW ren \in Nat,
         Fit(w, sl, ac, dm, tr, dead, ren), NEW slot \in SlotsOf(w), sl[slot] > 0,
         NEW new, Emptied(new, w, sl, slot), NEW r, Replaces(r, tr, sl[slot], Dead)
  PROVE  Fit(w, new, ac - 1, dm + 1, r, dead + 1, ren)
  <1> DEFINE i == sl[slot]
             L == LiveAt(tr)
             L2 == LiveAt(r)
  <1>1. /\ w \in Widths /\ tr \in Seq(Entry) /\ Mirrors(w, sl, L, tr)
        /\ ac = Cardinality(L) /\ dead = Len(tr) - ac /\ Counted(sl, dm, ren)
    BY DEF Fit
  <1>2. /\ ac \in Nat /\ Indexes(L) /\ Dummies(sl) \in SUBSET SlotsOf(w)
        /\ DOMAIN sl = SlotsOf(w)
    BY FitRoom
  <1>3. i \in L /\ i \in 1 .. Len(tr)
    BY LeftFit
  <1>5. Replaces(r, tr, i, Dead)
    OBVIOUS
  <1>6. L2 = L \ {i}
    BY <1>1, <1>3, <1>5, ChangedLive
  <1>7. /\ r \in Seq(Entry) /\ Len(r) = Len(tr)
        /\ \A j \in L2 : r[j].key = tr[j].key
    <2>1. \A j \in L : j \in 1 .. Len(tr)
      BY DEF LiveAt, LiveUpTo
    <2> HIDE DEF L2
    <2>2. QED
      BY <1>5, <1>6, <2>1 DEF Replaces
  <1>8. Mirrors(w, new, L2, r) /\ Cardinality(L2) = ac - 1
    <2>1. i = sl[slot] /\ i > 0
      OBVIOUS
    <2> HIDE DEF L, i, L2
    <2>2. Mirrors(w, new, L2, r)
      BY <1>1, <1>2, <1>3, <1>6, <1>7, <2>1, Vacates
    <2>3. Cardinality(L2) = ac - 1
      BY <1>1, <1>2, <1>6, <2>1, VacatedIndex
    <2>4. QED
      BY <2>2, <2>3
  <1>9. Counted(new, dm + 1, ren)
    <2>1. /\ IsFiniteSet(Dummies(sl)) /\ Cardinality(Dummies(sl)) \in Nat
          /\ IsFiniteSet(Dummies(new))
          /\ Cardinality(Dummies(new)) = Cardinality(Dummies(sl)) + 1
      BY <1>1, <1>2, <1>3, DummiesEmptied
    <2>2. dm \in Int /\ dm <= Cardinality(Dummies(sl))
          /\ Cardinality(Dummies(sl)) <= dm + ren
      BY <1>1 DEF Counted
    <2>3. QED
      BY <2>1, <2>2 DEF Counted
  <1>10. dead + 1 = Len(r) - (ac - 1)
    BY <1>1, <1>2, <1>7
  <1> HIDE DEF L
  <1>11. QED
    BY <1>1, <1>6, <1>7, <1>8, <1>9, <1>10 DEF Fit

\* CompactTrove() leaves slots and trove that fit, if the slots are enough.
LEMMA CompactFit ==
  ASSUME NEW w \in Widths, NEW tr \in Seq(Entry), NEW ac, ac = Cardinality(LiveAt(tr)),
         ac <= Pow2[w], NEW ren \in Nat, CompactTo(w, tr)
  PROVE  /\ Fit(width', slots', ac, dummies', trove', trovedead', ren)
         /\ Room(trove', trovecap')
  <1>1. /\ width' = w /\ slots' = Rebuilt(w, LiveOf(tr)) /\ dummies' = 0
        /\ trove' = LiveOf(tr) /\ trovecap' = Len(LiveOf(tr)) + 1 /\ trovedead' = 0
    BY DEF CompactTo
  <1>2. /\ Fit(w, Rebuilt(w, LiveOf(tr)), Cardinality(LiveAt(tr)), 0, LiveOf(tr), 0, ren)
        /\ Room(LiveOf(tr), Len(LiveOf(tr)) + 1)
    BY SqueezedFit
  <1>3. QED
    BY <1>1, <1>2

\* CheckToCompactSlotAndTrove().
LEMMA CheckedFit ==
  ASSUME NEW sess, NEW sl, NEW ac, NEW dm, NEW tr, NEW dead, renames \in Nat,
         Fit(width, sl, ac, dm, tr, dead, renames), Room(tr, trovecap),
         highmark \in Int, highmark >= ac, CheckToCompact(sess, sl, ac, dm, tr, dead)
  PROVE  /\ Fit(width', slots', ac, dummies', trove', trovedead', renames)
         /\ Room(trove', trovecap')
         /\ highmark' \in Int /\ highmark' >= ac /\ pending' \in BOOLEAN
  <1> DEFINE shrinks == ~Postponed(sess) /\ highmark >= ShrinkHighMark /\ ac <= ShrinkLowMark
             compacts == /\ ~Postponed(sess) /\ ~shrinks /\ Len(tr) > TroveInitSize
                         /\ (dead * 100) \div Len(tr) > PctDummyToCompact
  <1>1. pending' = Postponed(sess) /\ highmark' = IF shrinks THEN ac ELSE highmark
    BY DEF CheckToCompact
  <1>2. \/ shrinks /\ CompactTo(InitialDictWidth, tr)
        \/ compacts /\ CompactTo(width, tr)
        \/ /\ ~shrinks /\ ~compacts
           /\ slots' = sl /\ dummies' = dm /\ trove' = tr /\ trovedead' = dead
           /\ UNCHANGED <<width, trovecap>>
    BY DEF CheckToCompact
  <1>3. width \in Widths /\ tr \in Seq(Entry) /\ ac = Cardinality(LiveAt(tr))
    BY DEF Fit
  <1>4. ac \in Nat /\ ac <= Pow2[width]
    BY FitRoom
  <1>5. pending' \in BOOLEAN
    <2>1. Postponed(sess) \in BOOLEAN
      BY DEF Postponed
    <2>2. QED
      BY <1>1, <2>1
  <1>6. highmark' \in Int /\ highmark' >= ac
    <2> HIDE DEF shrinks
    <2>1. QED
      BY <1>1, <1>4
  <1>7. CASE shrinks /\ CompactTo(InitialDictWidth, tr)
    <2>1. /\ InitialDictWidth \in Widths /\ Pow2[InitialDictWidth] \in Nat
          /\ ShrinkLowMark \in Nat /\ ShrinkLowMark <= Pow2[InitialDictWidth]
      <3>1. InitialDictWidth \in Widths
        BY TuningAssumption DEF Widths
      <3>2. QED
        BY <3>1, TuningAssumption, WidthFacts
    <2>2. ac <= ShrinkLowMark
      BY <1>7
    <2>3. ac <= Pow2[InitialDictWidth]
      BY <1>4, <2>1, <2>2
    <2>4. CompactTo(InitialDictWidth, tr)
      BY <1>7
    <2>5. QED
      BY <1>3, <1>5, <1>6, <2>1, <2>3, <2>4, CompactFit
  <1>8. CASE compacts /\ CompactTo(width, tr)
    <2>1. CompactTo(width, tr)
      BY <1>8
    <2> HIDE DEF compacts, shrinks
    <2>2. QED
      BY <1>3, <1>4, <1>5, <1>6, <2>1, CompactFit
  <1>9. CASE /\ slots' = sl /\ dummies' = dm /\ trove' = tr /\ trovedead' = dead
             /\ UNCHANGED <<width, trovecap>>
    <2> HIDE DEF compacts, shrinks
    <2>1. QED
      BY <1>5, <1>6, <1>9
  <1>10. QED
    BY <1>2, <1>7, <1>8, <1>9

\* How often keys were renamed is a number.
LEMMA RenamesNat ==
  ASSUME Rest
  PROVE  renames \in Nat
  BY TuningAssumption DEF Rest

\* A dict that was set fits.
LEMMA SetFit ==
  ASSUME MirrorInv, width # 0
  PROVE  /\ Fit(width, slots, active, dummies, trove, trovedead, renames)
         /\ Rest /\ width \in Widths
  BY DEF MirrorInv, Unset, Fit

\* in_del() and what it sets off.
LEMMA DelMirrors ==
  ASSUME MirrorInv, NEW k \in Key, Del(k), width # 0,
         NEW slot, slot = Paths[width][k][Landing(Paths[width][k], Holders(slots, k) \cup Empties(slots))],
         Landing(Paths[width][k], Holders(slots, k) \cup Empties(slots)) # Never,
         slots[slot] > 0,
         active' = active - 1,
         CheckToCompact(sessions, Vacated(slot), active - 1, dummies + 1,
                        [trove EXCEPT ![slots[slot]] = Dead], trovedead + 1),
         UNCHANGED <<resizepct, sessions, enumors, renames>>
  PROVE  MirrorInv'
  <1> DEFINE r == [trove EXCEPT ![slots[slot]] = Dead]
             new == Vacated(slot)
  <1>1. /\ Fit(width, slots, active, dummies, trove, trovedead, renames)
        /\ Rest /\ width \in Widths /\ renames \in Nat
    BY SetFit, RenamesNat
  <1>2. slot \in SlotsOf(width)
    <2> DEFINE S == Holders(slots, k) \cup Empties(slots)
    <2>1. S \subseteq SlotsOf(width)
      BY <1>1, FitRoom DEF Holders
    <2> HIDE DEF S
    <2>2. Paths[width][k][Landing(Paths[width][k], S)] \in S
      <3>1. Landing(Paths[width][k], S) # Never
        BY DEF S
      <3>2. QED
        BY <1>1, <2>1, <3>1, Lands
    <2>3. slot \in S
      BY <2>2 DEF S
    <2>4. QED
      BY <2>1, <2>3
  <1>3. /\ Fit(width, new, active - 1, dummies + 1, r, trovedead + 1, renames)
        /\ r \in Seq(Entry) /\ Len(r) = Len(trove)
    <2>1. /\ Emptied(new, width, slots, slot) /\ slots[slot] \in 1 .. Len(trove)
      BY <1>1, <1>2, LeftFit DEF Vacated
    <2>2. Replaces(r, trove, slots[slot], Dead)
      <3>1. trove \in Seq(Entry) /\ Dead \in Entry
        BY <1>1 DEF Fit, Entry
      <3> DEFINE i == slots[slot]
      <3> HIDE DEF i
      <3>2. QED
        BY <2>1, <3>1, Changed DEF i
    <2> HIDE DEF r, new
    <2>3. Fit(width, new, active - 1, dummies + 1, r, trovedead + 1, renames)
      BY <1>1, <1>2, <2>1, <2>2, DeletedFit
    <2>4. QED
      BY <2>2, <2>3 DEF Replaces
  <1> HIDE DEF r, new
  <1>4. Room(r, trovecap) /\ highmark \in Int /\ highmark >= active - 1
    <2>1. Room(trove, trovecap) /\ highmark \in Int /\ highmark >= active
      BY <1>1 DEF Rest
    <2>2. trove \in Seq(Entry) /\ active \in Nat
      BY <1>1, FitRoom DEF Fit
    <2>3. Room(r, trovecap)
      BY <1>3, <2>1, <2>2, LongerRoom
    <2>4. QED
      BY <2>1, <2>2, <2>3
  <1>5. CheckToCompact(sessions, new, active - 1, dummies + 1, r, trovedead + 1)
    BY DEF r, new
  <1>6. /\ Fit(width', slots', active - 1, dummies', trove', trovedead', renames)
        /\ Room(trove', trovecap')
        /\ highmark' \in Int /\ highmark' >= active - 1 /\ pending' \in BOOLEAN
    BY <1>1, <1>3, <1>4, <1>5, CheckedFit
  <1>7. Rest'
    <2>1. resizepct' \in Int
      BY <1>1 DEF Rest
    <2>2. QED
      BY <1>1, <1>6, <2>1, RestNext
  <1>8. Fit(width', slots', active', dummies', trove', trovedead', renames')
    BY <1>6
  <1>9. QED
    BY <1>7, <1>8, FitNext

\* A call that changes nothing.
LEMMA Answered ==
  ASSUME MirrorInv, UNCHANGED <<dictVars, enumors, renames>>
  PROVE  MirrorInv'
  <1>1. /\ width' = width /\ slots' = slots /\ active' = active /\ dummies' = dummies
        /\ highmark' = highmark /\ resizepct' = resizepct /\ trove' = trove
        /\ trovecap' = trovecap /\ trovedead' = trovedead /\ sessions' = sessions
        /\ pending' = pending /\ enumors' = enumors /\ renames' = renames
    BY DEF dictVars
  <1>2. Rest'
    BY <1>1 DEF MirrorInv, Rest
  <1>3. Unset => Unset'
    BY <1>1 DEF Unset
  <1>4. Fit(width, slots, active, dummies, trove, trovedead, renames)
          => Fit(width', slots', active', dummies', trove', trovedead', renames')
    BY <1>1
  <1>5. QED
    BY <1>2, <1>3, <1>4 DEF MirrorInv

\* compact().
LEMMA CompactMirrors ==
  ASSUME MirrorInv, width # 0, CompactTo(CompactWidth, trove),
         UNCHANGED <<active, highmark, resizepct, sessions, pending, enumors, renames>>
  PROVE  MirrorInv'
  <1>1. /\ Fit(width, slots, active, dummies, trove, trovedead, renames)
        /\ Rest /\ width \in Widths /\ renames \in Nat
    BY SetFit, RenamesNat
  <1>2. /\ active \in Nat /\ active <= Pow2[width] /\ trove \in Seq(Entry)
        /\ active = Cardinality(LiveAt(trove))
    BY <1>1, FitRoom DEF Fit
  <1>3. CompactWidth \in Widths /\ active <= Pow2[CompactWidth]
    <2> DEFINE S == {w \in InitialDictWidth .. MaxWidth : active <= Pow2[w]}
    <2>1. width \in S
      BY <1>1, <1>2 DEF Widths
    <2>2. S \subseteq Nat
      BY TuningAssumption
    <2>3. LeastOf(S) \in S
      <3> HIDE DEF S
      <3>1. QED
        BY <2>1, <2>2, Least
    <2>4. CompactWidth = LeastOf(S)
      BY DEF CompactWidth
    <2>5. QED
      BY <2>3, <2>4 DEF Widths
  <1>4. /\ Fit(width', slots', active, dummies', trove', trovedead', renames)
        /\ Room(trove', trovecap')
    BY <1>1, <1>2, <1>3, CompactFit
  <1>5. Fit(width', slots', active', dummies', trove', trovedead', renames')
    BY <1>4
  <1>6. Rest'
    <2>1. /\ pending' \in BOOLEAN /\ resizepct' \in Int /\ highmark' \in Int
          /\ highmark' >= active'
      BY <1>1 DEF Rest
    <2>2. QED
      BY <1>1, <1>4, <2>1, RestNext
  <1>7. QED
    BY <1>5, <1>6, FitNext

\* clear().
LEMMA ClearMirrors ==
  ASSUME MirrorInv,
         width' = 0, slots' = [s \in {} |-> SlotEmpty],
         active' = 0, dummies' = 0, highmark' = 0, resizepct' = 0,
         trove' = <<>>, trovecap' = 0, trovedead' = 0,
         sessions' = 0, pending' = FALSE, UNCHANGED <<enumors, renames>>
  PROVE  MirrorInv'
  <1>1. Unset'
    BY DEF Unset
  <1>2. Room(trove', trovecap')
    BY DEF Room
  <1>3. pending' \in BOOLEAN
    BY Zenon
  <1>4. /\ renames' \in 0 .. MaxRenames
        /\ enumors' \in [Enumor -> [from : Key \cup {NoKey}, started : BOOLEAN,
                                    ended : BOOLEAN, next : Nat]]
    BY DEF MirrorInv, Rest
  <1>5. highmark' \in Int /\ highmark' >= active' /\ resizepct' \in Int /\ sessions' \in Int
    OBVIOUS
  <1>6. Rest'
    BY <1>2, <1>3, <1>4, <1>5 DEF Rest
  <1>7. QED
    BY <1>1, <1>6 DEF MirrorInv

--------------------------------------------------------------------------------
(***************************************************************************)
(* key_rename().                                                           *)
(***************************************************************************)
\* key_rename(): a slot left and another taken, by an entry with a new key.
LEMMA RenamedFit ==
  ASSUME NEW w, NEW sl, NEW ac, NEW dm, NEW tr, NEW dead, NEW ren \in Nat,
         Fit(w, sl, ac, dm, tr, dead, ren), NEW old \in SlotsOf(w), NEW n, n = sl[old], n > 0,
         NEW left, Emptied(left, w, sl, old), NEW k \in Key, NEW use,
         use = Paths[w][k][Landing(Paths[w][k], Empties(left) \cup Dummies(left))],
         NEW e \in Entry, e # Dead, e.key = k, NEW r, Replaces(r, tr, n, e)
  PROVE  Fit(w, [left EXCEPT ![use] = n], ac, dm, r, dead, ren + 1)
  <1> DEFINE L == LiveAt(tr)
             L2 == L \ {n}
             S == Empties(left) \cup Dummies(left)
             path == Paths[w][k]
             at == Landing(path, S)
             new == [left EXCEPT ![use] = n]
  <1>1. /\ w \in Widths /\ tr \in Seq(Entry) /\ Mirrors(w, sl, L, tr)
        /\ ac = Cardinality(L) /\ dead = Len(tr) - ac /\ Counted(sl, dm, ren)
    BY DEF Fit
  <1>2. /\ ac \in Nat /\ Indexes(L) /\ Dummies(sl) \in SUBSET SlotsOf(w)
        /\ DOMAIN sl = SlotsOf(w)
    BY FitRoom
  <1>3. n \in L /\ n \in 1 .. Len(tr) /\ n \in Nat \ {0}
    <2>1. n \in L /\ n \in 1 .. Len(tr)
      BY LeftFit
    <2>2. QED
      BY <1>1, <2>1
  <1>4. \A i \in L : i \in 1 .. Len(tr)
    BY DEF LiveAt, LiveUpTo
  <1>5. LiveAt(r) = L /\ r \in Seq(Entry) /\ Len(r) = Len(tr)
        /\ r[n].key = k /\ \A i \in L : i # n => r[i] = tr[i]
    <2>1. LiveAt(r) = L \cup {n}
      BY <1>1, <1>3, ChangedLive
    <2>2. QED
      BY <1>3, <1>4, <2>1 DEF Replaces
  <1> HIDE DEF L
  <1>6. Mirrors(w, left, L2, tr) /\ Indexes(L2)
    <2>1. L2 = L \ {n} /\ \A i \in L2 : tr[i].key = tr[i].key
      OBVIOUS
    <2> HIDE DEF L2
    <2>2. Mirrors(w, left, L2, tr)
      BY <1>1, <1>2, <2>1, Vacates
    <2>3. Indexes(L2)
      BY <1>1, <1>2, <2>1, VacatedIndex
    <2>4. QED
      BY <2>2, <2>3
  <1>7. n \notin L2 /\ L2 \cup {n} = L /\ \A i \in L2 : r[i].key = tr[i].key
    BY <1>3, <1>5
  <1> HIDE DEF L2
  <1>8. DOMAIN left = SlotsOf(w) /\ Empties(left) \in SUBSET SlotsOf(w)
        /\ Dummies(left) \in SUBSET SlotsOf(w) /\ old \in Dummies(left)
    BY DEF Emptied, Empties, Dummies
  <1>9. /\ at \in 1 .. PathLength(w) /\ use \in S
        /\ \A i \in 1 .. at - 1 : path[i] \notin S
    <2>1. S \subseteq SlotsOf(w) /\ S # {}
      BY <1>8
    <2>2. use = path[at]
      OBVIOUS
    <2> HIDE DEF S
    <2>3. QED
      BY <1>1, <2>1, <2>2, Lands
  <1>10. path \in [1 .. PathLength(w) -> SlotsOf(w)] /\ PathLength(w) \in Nat
    BY <1>1, PathShape, WidthFacts
  <1>11. use \in SlotsOf(w) /\ left[use] <= 0 /\ use = path[at]
         /\ (left[use] = SlotEmpty \/ left[use] = SlotDummy)
    BY <1>8, <1>9 DEF Empties, Dummies, SlotEmpty, SlotDummy
  <1> HIDE DEF at, path
  <1>12. OnPath(w, left, k, use)
    <2>1. ASSUME NEW i \in 1 .. at - 1 PROVE left[path[i]] # SlotEmpty
      <3>1. i \in 1 .. PathLength(w)
        BY <1>9, <1>10
      <3>2. path[i] \in SlotsOf(w) /\ path[i] \notin Empties(left)
        BY <1>9, <1>10, <3>1
      <3>3. QED
        BY <1>8, <3>2 DEF Empties
    <2>2. QED
      BY <1>9, <1>11, <2>1 DEF OnPath, path
  <1>13. Mirrors(w, new, L, r)
    <2>1. Mirrors(w, [left EXCEPT ![use] = n], L2 \cup {n}, r)
      <3>1. OnPath(w, left, r[n].key, use) /\ r[n].key \in Key
        BY <1>5, <1>12
      <3>2. QED
        BY <1>1, <1>3, <1>6, <1>7, <1>11, <3>1, Fills
    <2>2. QED
      BY <1>7, <2>1
  <1>14. Filled(new, w, left, use)
    BY <1>3, <1>8, <1>11 DEF Filled, SlotDummy
  <1> HIDE DEF new
  <1>15. Counted(new, dm, ren + 1)
    <2>1. /\ IsFiniteSet(Dummies(sl)) /\ Cardinality(Dummies(sl)) \in Nat
          /\ Cardinality(Dummies(left)) = Cardinality(Dummies(sl)) + 1
      BY <1>1, <1>2, DummiesEmptied
    <2>2. /\ IsFiniteSet(Dummies(new)) /\ Cardinality(Dummies(new)) \in Nat
          /\ left[use] # SlotDummy => Dummies(new) = Dummies(left)
          /\ left[use] = SlotDummy => Cardinality(Dummies(new)) = Cardinality(Dummies(left)) - 1
      BY <1>1, <1>8, <1>11, <1>14, DummiesFilled
    <2>3. dm \in Int /\ dm <= Cardinality(Dummies(sl))
          /\ Cardinality(Dummies(sl)) <= dm + ren
      BY <1>1 DEF Counted
    <2>4. \/ Cardinality(Dummies(new)) = Cardinality(Dummies(sl)) + 1
          \/ Cardinality(Dummies(new)) = Cardinality(Dummies(sl))
      BY <2>1, <2>2
    <2>5. QED
      BY <2>1, <2>2, <2>3, <2>4 DEF Counted
  <1>16. Fit(w, new, ac, dm, r, dead, ren + 1)
    <2>1. L = LiveAt(r) /\ Len(r) = Len(tr)
      BY <1>5
    <2>2. QED
      BY <1>1, <1>5, <1>13, <1>15, <2>1 DEF Fit
  <1>17. QED
    BY <1>16 DEF new

\* The entry renamed, in its place.
Rekeys(r, tr, i, k) == r = [tr EXCEPT ![i].key = k]

LEMMA Rekeyed ==
  ASSUME NEW tr \in Seq(Entry), NEW i \in 1 .. Len(tr), tr[i] \in [key : Key, val : Value],
         NEW k \in Key, NEW r, Rekeys(r, tr, i, k)
  PROVE  \E e \in Entry : e # Dead /\ e.key = k /\ e.val = tr[i].val /\ Replaces(r, tr, i, e)
  <1> DEFINE e == [key |-> k, val |-> tr[i].val]
  <1>1. e \in Entry /\ e # Dead /\ e.key = k /\ e.val = tr[i].val
    <2>1. NoKey \notin Key
      BY TuningAssumption
    <2>2. e.key = k /\ Dead.key = NoKey
      BY DEF Dead
    <2>3. QED
      BY <2>1, <2>2 DEF Entry
  <1>2. r = [tr EXCEPT ![i] = e]
    <2>1. [tr[i] EXCEPT !.key = k] = e
      OBVIOUS
    <2> HIDE DEF e
    <2>2. r = [tr EXCEPT ![i] = [tr[i] EXCEPT !.key = k]]
      BY DEF Rekeys
    <2>3. QED
      BY <2>1, <2>2
  <1> HIDE DEF e
  <1>3. Replaces(r, tr, i, e)
    BY <1>1, <1>2, Changed
  <1>4. QED
    BY <1>1, <1>3

\* in_get() finds a slot in use, if any.
LEMMA Found ==
  ASSUME Fit(width, slots, active, dummies, trove, trovedead, renames),
         NEW k \in Key, Find(k) # -1
  PROVE  Find(k) \in SlotsOf(width) /\ slots[Find(k)] > 0
  <1>1. Find(k) \in InUse(slots)
    BY DEF Find
  <1>2. DOMAIN slots = SlotsOf(width)
    BY FitRoom
  <1>3. QED
    BY <1>1, <1>2 DEF InUse

\* key_rename(), when it renames.
LEMMA RenameMirrors ==
  ASSUME MirrorInv, NEW k \in Key, NEW new \in Key, KeyRename(k, new), Find(k) # -1,
         NEW use, use = Paths[width][new][Landing(Paths[width][new],
                          Empties(LeftBehind(Find(k))) \cup Dummies(LeftBehind(Find(k))))],
         renames < MaxRenames, renames' = renames + 1,
         slots' = [LeftBehind(Find(k)) EXCEPT ![use] = slots[Find(k)]],
         trove' = [trove EXCEPT ![slots[Find(k)]].key = new],
         UNCHANGED <<width, active, dummies, highmark, resizepct, trovecap,
                     trovedead, sessions, pending, enumors>>
  PROVE  MirrorInv'
  <1> DEFINE old == Find(k)
             n == slots[old]
             left == LeftBehind(old)
             r == trove'
  <1>1. width # 0
    BY DEF Find
  <1>2. /\ Fit(width, slots, active, dummies, trove, trovedead, renames)
        /\ Rest /\ width \in Widths /\ renames \in Nat
    BY <1>1, SetFit, RenamesNat
  <1>3. old \in SlotsOf(width) /\ n > 0
    BY <1>2, Found
  <1> HIDE DEF old
  <1>4. /\ Emptied(left, width, slots, old) /\ n \in 1 .. Len(trove)
        /\ trove[n] \in [key : Key, val : Value]
    BY <1>2, <1>3, LeftFit DEF LeftBehind
  <1>5. trove \in Seq(Entry)
    BY <1>2 DEF Fit
  <1>6. Rekeys(r, trove, n, new)
    BY DEF old, Rekeys
  <1> HIDE DEF n, r
  <1>7. PICK e \in Entry : e # Dead /\ e.key = new /\ Replaces(r, trove, n, e)
    BY <1>4, <1>5, <1>6, Rekeyed
  <1>10. Fit(width, [left EXCEPT ![use] = n], active, dummies, r, trovedead, renames + 1)
    <2>1. n = slots[old]
      BY DEF n
    <2>2. use = Paths[width][new][Landing(Paths[width][new], Empties(left) \cup Dummies(left))]
      BY DEF left, old
    <2> HIDE DEF left
    <2>3. QED
      BY <1>2, <1>3, <1>4, <1>7, <2>1, <2>2, RenamedFit
  <1>11. slots' = [left EXCEPT ![use] = n]
    BY DEF left, n, old
  <1> HIDE DEF left
  <1>12. Fit(width', slots', active', dummies', trove', trovedead', renames')
    BY <1>10, <1>11 DEF r
  <1>13. Room(trove', trovecap')
    <2>1. Room(trove, trovecap)
      BY <1>2 DEF Rest
    <2>2. r \in Seq(Entry) /\ Len(r) = Len(trove)
      BY <1>7 DEF Replaces
    <2>3. QED
      BY <1>5, <2>1, <2>2, LongerRoom DEF r
  <1>14. Rest'
    <2>1. MaxRenames \in Nat /\ renames' \in 0 .. MaxRenames
      BY <1>2, TuningAssumption
    <2>2. QED
      BY <1>2, <1>13, <2>1 DEF Rest
  <1>15. QED
    BY <1>12, <1>14, FitNext

--------------------------------------------------------------------------------
(***************************************************************************)
(* Enumerators.                                                            *)
(***************************************************************************)
Enumors == [Enumor -> [from : Key \cup {NoKey}, started : BOOLEAN, ended : BOOLEAN, next : Nat]]

\* A call that touches enumerators and the session count only.
LEMMA WalkedMirrors ==
  ASSUME MirrorInv, enumors' \in Enumors, sessions' \in Int,
         UNCHANGED <<slotVars, active, highmark, resizepct, troveVars, pending, renames>>
  PROVE  MirrorInv'
  <1>1. /\ width' = width /\ slots' = slots /\ active' = active /\ dummies' = dummies
        /\ highmark' = highmark /\ resizepct' = resizepct /\ trove' = trove
        /\ trovecap' = trovecap /\ trovedead' = trovedead
        /\ pending' = pending /\ renames' = renames
    BY DEF slotVars, troveVars
  <1>2. Rest'
    BY <1>1 DEF MirrorInv, Rest, Enumors
  <1>3. Unset => Unset'
    BY <1>1 DEF Unset
  <1>4. Fit(width, slots, active, dummies, trove, trovedead, renames)
          => Fit(width', slots', active', dummies', trove', trovedead', renames')
    BY <1>1
  <1>5. QED
    BY <1>2, <1>3, <1>4 DEF MirrorInv

\* DecreaseSessionCount(): the postponed shrinking, when the last walk ends.
LEMMA DecreaseMirrors ==
  ASSUME MirrorInv, NEW sess \in Int, DecreaseSessionCount(sess), enumors' \in Enumors,
         UNCHANGED <<active, resizepct, renames>>
  PROVE  MirrorInv'
  <1>1. CASE sess = 0 /\ pending
    <2>1. /\ Fit(width, slots, active, dummies, trove, trovedead, renames)
          /\ Rest /\ renames \in Nat
      BY <1>1, RenamesNat DEF MirrorInv, Unset
    <2>2. /\ CheckToCompact(sess, slots, active, dummies, trove, trovedead)
          /\ sessions' = sess
      BY <1>1 DEF DecreaseSessionCount
    <2>3. Room(trove, trovecap) /\ highmark \in Int /\ highmark >= active /\ resizepct \in Int
      BY <2>1 DEF Rest
    <2>4. /\ Fit(width', slots', active, dummies', trove', trovedead', renames)
          /\ Room(trove', trovecap')
          /\ highmark' \in Int /\ highmark' >= active /\ pending' \in BOOLEAN
      BY <2>1, <2>2, <2>3, CheckedFit
    <2>5. Fit(width', slots', active', dummies', trove', trovedead', renames')
      BY <2>4
    <2>6. renames' \in 0 .. MaxRenames
      BY <2>1 DEF Rest
    <2>7. Rest'
      BY <2>2, <2>3, <2>4, <2>6 DEF Rest, Enumors
    <2>8. QED
      BY <2>5, <2>7, FitNext
  <1>2. CASE ~(sess = 0 /\ pending)
    <2>1. UNCHANGED <<slotVars, highmark, troveVars, pending>> /\ sessions' = sess
      BY <1>2 DEF DecreaseSessionCount
    <2>2. QED
      BY <2>1, WalkedMirrors
  <1>3. QED
    BY <1>1, <1>2

\* next().
LEMMA NextMirrors ==
  ASSUME MirrorInv, NEW e \in Enumor, EnumNext(e)
  PROVE  MirrorInv'
  <1> DEFINE start == StartOf(e)
             found == IF start = 0 THEN 0 ELSE NextLive(start)
             live == {i \in start .. Len(trove) : trove[i] # Dead}
  <1>1. /\ enumors \in Enumors /\ sessions \in Int /\ Rest
    BY DEF MirrorInv, Rest, Enumors
  <1>2. UNCHANGED <<active, resizepct, renames>>
    BY DEF EnumNext
  <1>3. trove \in Seq(Entry)
    <2>1. CASE Unset
      <3>1. trove = <<>>
        BY <2>1 DEF Unset
      <3>2. QED
        BY <3>1
    <2>2. CASE Fit(width, slots, active, dummies, trove, trovedead, renames)
      BY <2>2 DEF Fit
    <2>3. QED
      BY <2>1, <2>2 DEF MirrorInv
  <1>4. enumors[e] \in [from : Key \cup {NoKey}, started : BOOLEAN, ended : BOOLEAN, next : Nat]
    BY <1>1 DEF Enumors
  <1>5. start \in Nat
    <2>1. CASE enumors[e].started
      BY <1>4, <2>1 DEF StartOf
    <2>2. CASE ~enumors[e].started /\ enumors[e].from # NoKey /\ Find(enumors[e].from) # -1
      <3>1. enumors[e].from \in Key
        BY <1>4, <2>2
      <3>2. width # 0
        BY <2>2 DEF Find
      <3>3. Fit(width, slots, active, dummies, trove, trovedead, renames)
        BY <3>2, SetFit
      <3>4. slots[Find(enumors[e].from)] > 0 /\ Find(enumors[e].from) \in SlotsOf(width)
        BY <2>2, <3>1, <3>3, Found
      <3>5. slots[Find(enumors[e].from)] \in 1 .. Len(trove)
        BY <3>3, <3>4, LeftFit
      <3>6. start = slots[Find(enumors[e].from)]
        BY <2>2 DEF StartOf
      <3>7. QED
        BY <1>3, <3>5, <3>6
    <2>3. CASE ~enumors[e].started /\ (enumors[e].from = NoKey \/ Find(enumors[e].from) = -1)
      BY <2>3 DEF StartOf
    <2>4. QED
      BY <2>1, <2>2, <2>3
  <1>6. found \in Nat
    <2>1. NextLive(start) = IF live = {} THEN 0 ELSE LeastOf(live)
      BY DEF NextLive
    <2>2. live \subseteq Nat
      BY <1>3, <1>5
    <2>3. live # {} => LeastOf(live) \in live
      <3> HIDE DEF live
      <3>1. QED
        BY <2>2, Least
    <2> HIDE DEF live, start
    <2>4. NextLive(start) \in Nat
      <3>1. CASE live = {}
        BY <2>1, <3>1
      <3>2. CASE live # {}
        <4>1. NextLive(start) = LeastOf(live)
          BY <2>1, <3>2
        <4>2. LeastOf(live) \in Nat
          BY <2>2, <2>3, <3>2
        <4>3. QED
          BY <4>1, <4>2
      <3>3. QED
        BY <3>1, <3>2
    <2>5. QED
      BY <2>4
  <1> HIDE DEF start, live
  <1>7. CASE UNCHANGED <<slotVars, highmark, troveVars, sessions, pending, enumors>>
    BY <1>1, <1>2, <1>7, WalkedMirrors
  <1>8. CASE /\ enumors' = [enumors EXCEPT ![e] = [from |-> enumors[e].from, started |-> TRUE,
                                                  ended |-> FALSE, next |-> found + 1]]
             /\ sessions' = sessions + IF enumors[e].started THEN 0 ELSE 1
             /\ UNCHANGED <<slotVars, highmark, troveVars, pending>>
    <2> HIDE DEF found
    <2>1. enumors' \in Enumors
      BY <1>1, <1>4, <1>6, <1>8 DEF Enumors
    <2>2. sessions' \in Int
      BY <1>1, <1>8
    <2>3. QED
      BY <1>2, <1>8, <2>1, <2>2, WalkedMirrors
  <1>9. CASE /\ enumors' = [enumors EXCEPT ![e] = [from |-> enumors[e].from, ended |-> TRUE,
                                                  started |-> enumors[e].started, next |-> 0]]
             /\ IF EndsSession(e) THEN DecreaseSessionCount(sessions - 1)
                ELSE UNCHANGED <<slotVars, highmark, troveVars, sessions, pending>>
    <2> HIDE DEF found
    <2>1. enumors' \in Enumors
      BY <1>1, <1>4, <1>9 DEF Enumors
    <2>2. CASE EndsSession(e)
      <3>1. DecreaseSessionCount(sessions - 1) /\ sessions - 1 \in Int
        BY <1>1, <1>9, <2>2
      <3>2. QED
        BY <1>2, <2>1, <3>1, DecreaseMirrors
    <2>3. CASE ~EndsSession(e)
      BY <1>1, <1>2, <1>9, <2>1, <2>3, WalkedMirrors
    <2>4. QED
      BY <2>2, <2>3
  <1>10. QED
    BY <1>7, <1>8, <1>9 DEF EnumNext, found, start

\* reset(), or destruction and construction.
LEMMA ResetMirrors ==
  ASSUME MirrorInv, NEW e \in Enumor, NEW from \in FromKeys, EnumReset(e, from)
  PROVE  MirrorInv'
  <1>1. /\ enumors \in Enumors /\ sessions \in Int
    BY DEF MirrorInv, Rest, Enumors
  <1>2. /\ enumors' = [enumors EXCEPT ![e] = FreshEnumor(from)]
        /\ UNCHANGED <<active, resizepct, renames>>
    BY DEF EnumReset
  <1>3. from \in Key \cup {NoKey}
    BY TuningAssumption
  <1>4. enumors' \in Enumors
    BY <1>1, <1>2, <1>3 DEF Enumors, FreshEnumor
  <1>5. CASE InProgress(e)
    <2>1. DecreaseSessionCount(sessions - 1) /\ sessions - 1 \in Int
      BY <1>1, <1>5 DEF EnumReset, SessionsAfterReset
    <2>2. QED
      BY <1>2, <1>4, <2>1, DecreaseMirrors
  <1>6. CASE ~InProgress(e)
    <2>1. UNCHANGED <<slotVars, highmark, troveVars, sessions, pending>>
      BY <1>6 DEF EnumReset
    <2>2. QED
      BY <1>1, <1>2, <1>4, <2>1, WalkedMirrors
  <1>7. QED
    BY <1>5, <1>6

\* The enumerator's copy-constructor.
LEMMA CopyMirrors ==
  ASSUME MirrorInv, NEW e \in Enumor, NEW e2 \in Enumor, EnumCopy(e, e2)
  PROVE  MirrorInv'
  <1>1. enumors \in Enumors /\ sessions \in Int
    BY DEF MirrorInv, Rest, Enumors
  <1>2. /\ enumors' = [enumors EXCEPT ![e2] = enumors[e]]
        /\ UNCHANGED <<dictVars, renames>>
    BY DEF EnumCopy
  <1>3. enumors' \in Enumors
    BY <1>1, <1>2 DEF Enumors
  <1>4. /\ UNCHANGED <<slotVars, active, highmark, resizepct, troveVars, pending, renames>>
        /\ sessions' = sessions
    BY <1>2 DEF dictVars, slotVars, troveVars
  <1>5. QED
    BY <1>1, <1>3, <1>4, WalkedMirrors

--------------------------------------------------------------------------------
(***************************************************************************)
(* The theorem.                                                            *)
(***************************************************************************)
\* Every call keeps slots, trove and counts in step.
LEMMA NextKeepsMirrors ==
  ASSUME MirrorInv, [Next]_vars
  PROVE  MirrorInv'
  <1>1. CASE UNCHANGED vars
    <2>1. UNCHANGED <<dictVars, enumors, renames>>
      BY <1>1 DEF vars, dictVars
    <2>2. QED
      BY <2>1, Answered
  <1>2. ASSUME NEW k \in Key, NEW v \in Value, NEW overwrite \in BOOLEAN,
               SetKey(k, v, overwrite)
        PROVE  MirrorInv'
    BY <1>2, SetKeyMirrors
  <1>3. ASSUME NEW k \in Key, Get(k)
        PROVE  MirrorInv'
    BY <1>3, Answered DEF Get, Answers
  <1>4. ASSUME NEW k \in Key, Del(k)
        PROVE  MirrorInv'
    <2> DEFINE at == Landing(Paths[width][k], Holders(slots, k) \cup Empties(slots))
               slot == Paths[width][k][at]
    <2>1. CASE UNCHANGED <<dictVars, enumors, renames>>
      BY <2>1, Answered
    <2>2. CASE /\ width # 0 /\ at # Never /\ slots[slot] > 0
               /\ active' = active - 1
               /\ CheckToCompact(sessions, Vacated(slot), active - 1, dummies + 1,
                                 [trove EXCEPT ![slots[slot]] = Dead], trovedead + 1)
               /\ UNCHANGED <<resizepct, sessions, enumors, renames>>
      BY <1>4, <2>2, DelMirrors
    <2>3. QED
      <3>1. CASE width = 0
        BY <1>4, <2>1, <3>1 DEF Del, Answers
      <3>2. CASE width # 0
        BY <1>4, <2>1, <2>2, <3>2 DEF Del, Answers
      <3>3. QED
        BY <3>1, <3>2
  <1>5. ASSUME NEW k \in Key, NEW new \in Key, KeyRename(k, new)
        PROVE  MirrorInv'
    <2> DEFINE left == LeftBehind(Find(k))
               use == Paths[width][new][Landing(Paths[width][new], Empties(left) \cup Dummies(left))]
    <2>1. CASE UNCHANGED <<dictVars, enumors, renames>>
      BY <2>1, Answered
    <2>2. CASE /\ Find(k) # -1 /\ renames < MaxRenames /\ renames' = renames + 1
               /\ slots' = [left EXCEPT ![use] = slots[Find(k)]]
               /\ trove' = [trove EXCEPT ![slots[Find(k)]].key = new]
               /\ UNCHANGED <<width, active, dummies, highmark, resizepct, trovecap,
                              trovedead, sessions, pending, enumors>>
      BY <1>5, <2>2, RenameMirrors
    <2>3. QED
      BY <1>5, <2>1, <2>2 DEF KeyRename, Answers
  <1>6. ASSUME Compact
        PROVE  MirrorInv'
    <2>1. CASE UNCHANGED <<dictVars, enumors, renames>>
      BY <2>1, Answered
    <2>2. CASE /\ width # 0 /\ CompactTo(CompactWidth, trove)
               /\ UNCHANGED <<active, highmark, resizepct, sessions, pending, enumors, renames>>
      BY <2>2, CompactMirrors
    <2>3. QED
      BY <1>6, <2>1, <2>2 DEF Compact, Answers
  <1>7. ASSUME Clear
        PROVE  MirrorInv'
    <2>1. CASE UNCHANGED <<dictVars, enumors, renames>>
      BY <2>1, Answered
    <2>2. CASE ~UNCHANGED <<dictVars, enumors, renames>>
      BY <1>7, <2>2, ClearMirrors DEF Clear, Answers
    <2>3. QED
      BY <2>1, <2>2
  <1>8. ASSUME CopyDict
        PROVE  MirrorInv'
    <2>1. /\ highmark' = active /\ sessions' = 0 /\ pending' = FALSE
          /\ UNCHANGED <<slotVars, active, resizepct, troveVars, enumors, renames>>
      BY <1>8 DEF CopyDict
    <2>2. /\ width' = width /\ slots' = slots /\ active' = active /\ dummies' = dummies
          /\ resizepct' = resizepct /\ trove' = trove /\ trovecap' = trovecap
          /\ trovedead' = trovedead /\ enumors' = enumors /\ renames' = renames
      BY <2>1 DEF slotVars, troveVars
    <2>3. active \in Int
      <3>1. CASE Unset
        BY <3>1 DEF Unset
      <3>2. CASE Fit(width, slots, active, dummies, trove, trovedead, renames)
        BY <3>2, FitRoom
      <3>3. QED
        BY <3>1, <3>2 DEF MirrorInv
    <2>4. pending' \in BOOLEAN
      BY <2>1, Zenon
    <2>5. Rest'
      BY <2>1, <2>2, <2>3, <2>4 DEF MirrorInv, Rest
    <2>6. Unset => Unset'
      BY <2>1, <2>2 DEF Unset
    <2>7. Fit(width, slots, active, dummies, trove, trovedead, renames)
            => Fit(width', slots', active', dummies', trove', trovedead', renames')
      BY <2>2
    <2>8. QED
      BY <2>5, <2>6, <2>7 DEF MirrorInv
  <1>9. ASSUME GetKeys
        PROVE  MirrorInv'
    <2>1. /\ UNCHANGED <<active, resizepct, enumors, renames>>
          /\ enumors \in Enumors /\ sessions \in Int
      BY <1>9 DEF GetKeys, MirrorInv, Rest, Enumors
    <2>2. CASE UNCHANGED <<slotVars, highmark, troveVars, sessions, pending>>
      BY <2>1, <2>2, WalkedMirrors
    <2>3. CASE DecreaseSessionCount(sessions)
      BY <2>1, <2>3, DecreaseMirrors
    <2>4. QED
      BY <1>9, <2>2, <2>3 DEF GetKeys
  <1>10. ASSUME NEW pct \in HungrySlots, SetDbgParams(pct)
         PROVE  MirrorInv'
    <2>1. /\ resizepct' = pct
          /\ UNCHANGED <<slotVars, active, highmark, troveVars, sessions, pending, enumors, renames>>
      BY <1>10 DEF SetDbgParams
    <2>2. /\ width' = width /\ slots' = slots /\ active' = active /\ dummies' = dummies
          /\ highmark' = highmark /\ trove' = trove /\ trovecap' = trovecap
          /\ trovedead' = trovedead /\ sessions' = sessions /\ pending' = pending
          /\ enumors' = enumors /\ renames' = renames
      BY <2>1 DEF slotVars, troveVars
    <2>3. pct \in Int
      BY TuningAssumption
    <2>4. Rest'
      BY <2>1, <2>2, <2>3 DEF MirrorInv, Rest
    <2>5. Unset => Unset'
      BY <2>2 DEF Unset
    <2>6. Fit(width, slots, active, dummies, trove, trovedead, renames)
            => Fit(width', slots', active', dummies', trove', trovedead', renames')
      BY <2>2
    <2>7. QED
      BY <2>4, <2>5, <2>6 DEF MirrorInv
  <1>11. ASSUME NEW e \in Enumor, EnumNext(e)
         PROVE  MirrorInv'
    BY <1>11, NextMirrors
  <1>12. ASSUME NEW e \in Enumor, NEW from \in FromKeys, EnumReset(e, from)
         PROVE  MirrorInv'
    BY <1>12, ResetMirrors
  <1>13. ASSUME NEW e \in Enumor, NEW e2 \in Enumor, EnumCopy(e, e2)
         PROVE  MirrorInv'
    BY <1>13, CopyMirrors
  <1>14. QED
    BY <1>1, <1>2, <1>3, <1>4, <1>5, <1>6, <1>7, <1>8, <1>9, <1>10, <1>11, <1>12, <1>13 DEF Next

\* hashdict's slots and its trove mirror each other, whatever the keys, the
\* hashes, the tuning numbers and the order of calls, renamings, shrinkings
\* and walks included.
THEOREM SlotsCorrect == Spec => []SlotsMirrorTrove
  <1>1. Init => MirrorInv
    BY InitMirrors
  <1>2. MirrorInv /\ [Next]_vars => MirrorInv'
    BY NextKeepsMirrors
  <1>3. MirrorInv => SlotsMirrorTrove
    BY InvMirrors
  <1>4. QED
    BY <1>1, <1>2, <1>3, PTL DEF Spec

--------------------------------------------------------------------------------
(***************************************************************************)
(* Keys are found, and found once.                                         *)
(***************************************************************************)
Distinct(tr) == \A i, j \in LiveAt(tr) : tr[i].key = tr[j].key => i = j

\* The probes that in_get() makes before it may give up see every slot.  It
\* gives up when it comes back to the slot it began with, but not before so
\* many probes as use up any perturbation: in a wide table the first slot may
\* be met again too soon.
ProbesCover ==
  \A w \in Widths, k \in Key : \A s \in SlotsOf(w) :
     \E i \in 1 .. WrapAfter(Paths[w][k], GiveUp) - 1 : Paths[w][k][i] = s

\* A live entry's slot.
LEMMA SlotOfEntry ==
  ASSUME NEW w, NEW sl, NEW ac, NEW dm, NEW tr, NEW dead, NEW ren,
         Fit(w, sl, ac, dm, tr, dead, ren), NEW i \in LiveAt(tr)
  PROVE  \E s \in SlotsOf(w) : sl[s] = i /\ i > 0 /\ OnPath(w, sl, tr[i].key, s)
  <1>1. /\ tr \in Seq(Entry) /\ \A j \in LiveAt(tr) : \E s \in SlotsOf(w) : sl[s] = j
        /\ AllOnPath(w, sl, tr)
    BY DEF Fit, Mirrors
  <1>2. i \in 1 .. Len(tr)
    BY <1>1, LiveIndexes
  <1>3. PICK s \in SlotsOf(w) : sl[s] = i
    BY <1>1
  <1>4. i > 0
    BY <1>1, <1>2
  <1>5. OnPath(w, sl, tr[i].key, s)
    BY <1>1, <1>3, <1>4 DEF AllOnPath
  <1>6. QED
    BY <1>3, <1>4, <1>5

\* A slot in use holds a live entry.
LEMMA EntryOfSlot ==
  ASSUME NEW w, NEW sl, NEW ac, NEW dm, NEW tr, NEW dead, NEW ren,
         Fit(w, sl, ac, dm, tr, dead, ren), NEW s \in SlotsOf(w), sl[s] > 0
  PROVE  sl[s] \in LiveAt(tr)
  BY LeftFit

\* The probe for a key that is there ends at its slot.
LEMMA ProbeMeets ==
  ASSUME Fit(width, slots, active, dummies, trove, trovedead, renames), Distinct(trove),
         NEW i \in LiveAt(trove), NEW k \in Key, k = trove[i].key
  PROVE  LET path == Paths[width][k]
             S    == Holders(slots, k) \cup Empties(slots)
             at   == Landing(path, S)
         IN  /\ at \in 1 .. PathLength(width) /\ at # Never
             /\ path[at] \in InUse(slots) /\ slots[path[at]] = i
             /\ S \subseteq SlotsOf(width)
             /\ \A j \in 1 .. at - 1 : path[j] \notin S
  <1> DEFINE path == Paths[width][k]
             S == Holders(slots, k) \cup Empties(slots)
             at == Landing(path, S)
  <1>1. width \in Widths /\ DOMAIN slots = SlotsOf(width) /\ Empties(slots) \subseteq SlotsOf(width)
        /\ InUse(slots) \subseteq SlotsOf(width)
    BY FitRoom DEF Fit
  <1>2. S \subseteq SlotsOf(width)
    BY <1>1 DEF Holders
  <1>3. PICK s \in SlotsOf(width) : slots[s] = i /\ i > 0 /\ OnPath(width, slots, trove[i].key, s)
    BY SlotOfEntry
  <1>4. s \in InUse(slots) /\ s \in S
    BY <1>1, <1>3 DEF InUse, Holders
  <1>5. PICK a \in 1 .. PathLength(width) :
          path[a] = s /\ \A j \in 1 .. a - 1 : slots[path[j]] # SlotEmpty
    BY <1>3 DEF OnPath
  <1>6. PathLength(width) \in Nat
    BY <1>1, WidthFacts
  <1> HIDE DEF path
  <1>7. /\ at \in 1 .. PathLength(width) /\ at # Never /\ path[at] \in S
        /\ \A j \in 1 .. at - 1 : path[j] \notin S
    <2>1. S # {}
      BY <1>4
    <2> HIDE DEF S
    <2>2. QED
      BY <1>1, <1>2, <2>1, Lands DEF path
  <1> HIDE DEF at
  <1>8. path[at] \in Holders(slots, k)
    <2>1. CASE at < a
      <3>1. at \in 1 .. a - 1
        BY <1>6, <1>7, <2>1
      <3>2. slots[path[at]] # SlotEmpty
        BY <1>5, <3>1
      <3>3. QED
        BY <1>7, <3>2 DEF Empties
    <2>2. CASE at = a
      BY <1>1, <1>3, <1>4, <1>5, <2>2 DEF Holders
    <2>3. CASE at > a
      <3>1. a \in 1 .. at - 1
        BY <1>6, <1>7, <2>3
      <3>2. QED
        BY <1>4, <1>5, <1>7, <3>1
    <2>4. QED
      BY <1>6, <1>7, <2>1, <2>2, <2>3
  <1>9. path[at] \in InUse(slots) /\ trove[slots[path[at]]].key = k
    BY <1>8 DEF Holders
  <1>10. slots[path[at]] = i
    <2>1. path[at] \in SlotsOf(width) /\ slots[path[at]] > 0
      BY <1>1, <1>9 DEF InUse
    <2>2. slots[path[at]] \in LiveAt(trove)
      BY <2>1, EntryOfSlot
    <2>3. QED
      BY <1>9, <2>2 DEF Distinct
  <1>11. QED
    BY <1>2, <1>7, <1>9, <1>10 DEF at, path

\* in_get() finds it, before it may give up.
LEMMA FindsEntry ==
  ASSUME Fit(width, slots, active, dummies, trove, trovedead, renames), Distinct(trove),
         ProbesCover, NEW i \in LiveAt(trove), NEW k \in Key, k = trove[i].key
  PROVE  Find(k) # -1 /\ slots[Find(k)] = i
  <1> DEFINE path == Paths[width][k]
             S == Holders(slots, k) \cup Empties(slots)
             at == Landing(path, S)
             wrap == WrapAfter(path, GiveUp)
  <1>1. /\ at \in 1 .. PathLength(width) /\ at # Never
        /\ path[at] \in InUse(slots) /\ slots[path[at]] = i
        /\ S \subseteq SlotsOf(width)
        /\ \A j \in 1 .. at - 1 : path[j] \notin S
    BY ProbeMeets
  <1>2. width \in Widths /\ width # 0 /\ GiveUp \in Nat /\ PathLength(width) \in Nat
        /\ PathLength(width) = GiveUp + 3 + 2 * Pow2[width] /\ Pow2[width] \in Nat
        /\ InUse(slots) \subseteq SlotsOf(width)
    BY WidthFacts, FitRoom DEF Fit
  <1>3. path \in [1 .. PathLength(width) -> SlotsOf(width)]
    BY <1>2, PathShape
  <1>4. wrap \in GiveUp + 3 .. PathLength(width)
    <2>1. GiveUp + 2 + Pow2[width] <= PathLength(width)
      BY <1>2
    <2>2. QED
      BY <1>2, <2>1, WrapIs
  <1>5. path[at] \in SlotsOf(width)
    BY <1>1, <1>3
  <1> DEFINE s == path[at]
  <1>6. PICK j \in 1 .. wrap - 1 : path[j] = s
    BY <1>2, <1>5 DEF ProbesCover
  <1>7. s \in S
    <2>1. s \in InUse(slots) /\ trove[slots[s]].key = k
      BY <1>1
    <2>2. QED
      BY <2>1 DEF Holders
  <1> HIDE DEF S, at, path, wrap
  <1>8. at < wrap
    <2>1. path[j] \in S
      BY <1>6, <1>7
    <2>2. ~(j < at)
      BY <1>1, <1>2, <2>1
    <2>3. QED
      BY <1>1, <1>2, <1>4, <2>2
  <1>9. Find(k) = path[at]
    BY <1>1, <1>2, <1>8 DEF Find, path, at, S, wrap
  <1>10. path[at] # -1
    BY <1>2, <1>5 DEF SlotsOf
  <1>11. QED
    BY <1>1, <1>9, <1>10

\* Fewer entries, or the same, with their keys.
LEMMA StillDistinct ==
  ASSUME NEW tr, NEW r, Distinct(tr), LiveAt(r) \subseteq LiveAt(tr),
         \A i \in LiveAt(r) : r[i].key = tr[i].key
  PROVE  Distinct(r)
  BY DEF Distinct

Picks(r, tr, kept) ==
  /\ \A a \in LiveAt(r) : a \in Nat /\ kept[a] \in LiveAt(tr) /\ kept[a] \in Nat
                          /\ r[a].key = tr[kept[a]].key
  /\ \A a, b \in LiveAt(r) : a < b => kept[a] < kept[b]

LEMMA PickedDistinct ==
  ASSUME NEW tr, NEW r, NEW kept, Distinct(tr), Picks(r, tr, kept)
  PROVE  Distinct(r)
  <1>1. SUFFICES ASSUME NEW a \in LiveAt(r), NEW b \in LiveAt(r), r[a].key = r[b].key
                 PROVE  a = b
    BY DEF Distinct
  <1>2. /\ a \in Nat /\ kept[a] \in LiveAt(tr) /\ kept[a] \in Nat
        /\ b \in Nat /\ kept[b] \in LiveAt(tr) /\ kept[b] \in Nat
        /\ tr[kept[a]].key = tr[kept[b]].key
        /\ (a < b => kept[a] < kept[b]) /\ (b < a => kept[b] < kept[a])
    BY <1>1 DEF Picks
  <1>3. kept[a] = kept[b]
    BY <1>2 DEF Distinct
  <1>4. QED
    BY <1>2, <1>3

LEMMA DistinctSqueezed ==
  ASSUME NEW tr \in Seq(Entry), Distinct(tr)
  PROVE  Distinct(LiveOf(tr))
  <1> DEFINE r == LiveOf(tr)
             n == Len(tr)
  <1>1. PICK kept : SiftsUpTo(tr, n, r, kept)
    BY LiveEntries
  <1>2. /\ r \in Seq(Entry) /\ kept \in [1 .. Len(r) -> LiveAt(tr)]
        /\ \A a, b \in 1 .. Len(r) : a < b => kept[a] < kept[b]
        /\ \A j \in 1 .. Len(r) : r[j] = tr[kept[j]]
    BY <1>1 DEF SiftsUpTo, LiveAt
  <1>3. \A i \in LiveAt(tr) : i \in Nat
    BY DEF LiveAt, LiveUpTo
  <1> HIDE DEF r, n
  <1>4. \A i \in LiveAt(r) : i \in 1 .. Len(r) /\ i \in Nat
    BY <1>2 DEF LiveAt, LiveUpTo
  <1>5. \A a \in 1 .. Len(r) : kept[a] \in LiveAt(tr)
    BY <1>2
  <1>6. Picks(r, tr, kept)
    BY <1>2, <1>3, <1>4, <1>5, Zenon DEF Picks
  <1>7. Distinct(r)
    BY <1>6, PickedDistinct
  <1>8. QED
    BY <1>7 DEF r

LEMMA DistinctChecked ==
  ASSUME NEW sess, NEW sl, NEW ac, NEW dm, NEW tr \in Seq(Entry), NEW dead, Distinct(tr),
         CheckToCompact(sess, sl, ac, dm, tr, dead)
  PROVE  Distinct(trove')
  <1>1. trove' = LiveOf(tr) \/ trove' = tr
    BY DEF CheckToCompact, CompactTo
  <1>2. QED
    BY <1>1, DistinctSqueezed

\* SetKey() adds a key only if it is not there.
LEMMA AbsentKey ==
  ASSUME NEW sized, NEW ac, NEW dm, NEW dead, NEW ren,
         Fit(sized.width, sized.slots, ac, dm, trove, dead, ren),
         NEW k \in Key, SetLanding(sized, k) # Never,
         sized.slots[Paths[sized.width][k][SetLanding(sized, k)]] = SlotEmpty
  PROVE  \A i \in LiveAt(trove) : trove[i].key # k
  <1> DEFINE w == sized.width
             sl == sized.slots
             path == Paths[w][k]
             at == SetLanding(sized, k)
  <1>1. /\ at \in 1 .. PathLength(w) /\ path[at] \in SlotsOf(w)
        /\ \A i \in 1 .. at - 1 : path[i] \notin Holders(sl, k) /\ sl[path[i]] # SlotEmpty
    BY SetLands
  <1>2. w \in Widths /\ DOMAIN sl = SlotsOf(w)
    BY FitRoom DEF Fit
  <1>3. PathLength(w) \in Nat
    BY <1>2, WidthFacts
  <1>4. sl[path[at]] = SlotEmpty
    OBVIOUS
  <1>5. SUFFICES ASSUME NEW i \in LiveAt(trove), trove[i].key = k
                 PROVE  FALSE
    OBVIOUS
  <1>6. PICK s \in SlotsOf(w) : sl[s] = i /\ i > 0 /\ OnPath(w, sl, trove[i].key, s)
    BY SlotOfEntry
  <1>7. PICK a \in 1 .. PathLength(w) :
          path[a] = s /\ \A j \in 1 .. a - 1 : sl[path[j]] # SlotEmpty
    BY <1>5, <1>6 DEF OnPath
  <1> HIDE DEF w, sl, path, at
  <1>8. s \in Holders(sl, k)
    BY <1>2, <1>5, <1>6 DEF Holders, InUse
  <1>9. CASE a < at
    <2>1. a \in 1 .. at - 1
      BY <1>1, <1>3, <1>7, <1>9
    <2>2. QED
      BY <1>1, <1>7, <1>8, <2>1
  <1>10. CASE a = at
    BY <1>4, <1>6, <1>7, <1>10 DEF SlotEmpty
  <1>11. CASE a > at
    <2>1. at \in 1 .. a - 1
      BY <1>1, <1>3, <1>7, <1>11
    <2>2. QED
      BY <1>4, <1>7, <2>1
  <1>12. QED
    BY <1>1, <1>3, <1>7, <1>9, <1>10, <1>11

\* What set() and setdefault() do to the trove.
LEMMA SetKeyTrove ==
  ASSUME MirrorInv, NEW k \in Key, NEW v \in Value, NEW overwrite \in BOOLEAN,
         SetKey(k, v, overwrite)
  PROVE  \/ trove' = trove
         \/ SameKeys(trove', trove)
         \/ /\ \A i \in LiveAt(trove) : trove[i].key # k /\ trove'[i].key = trove[i].key
            /\ \E n : /\ LiveAt(trove') = LiveAt(trove) \cup {n} /\ n \notin LiveAt(trove)
                      /\ trove'[n].key = k
  <1> DEFINE sized == Sized
             path == Paths[sized.width][k]
             at == SetLanding(sized, k)
             slot == path[at]
             use == SlotToUse(sized, path, at)
  <1>1. sized.width <= MaxWidth
    BY DEF SetKey
  <1>2. Fit(sized.width, sized.slots, active, sized.dummies, trove, trovedead, renames)
    BY <1>1, SizedFit
  <1>3. CASE UNCHANGED troveVars
    BY <1>3 DEF troveVars
  <1>4. CASE /\ at # Never /\ sized.slots[slot] > 0
             /\ trove' = IF overwrite
                         THEN [trove EXCEPT ![sized.slots[slot]].val = v] ELSE trove
    <2>1. slot \in SlotsOf(sized.width)
      BY <1>2, <1>4, SetLands
    <2>2. CASE overwrite
      <3>1. Overwrites(trove', trove, sized.slots[slot], v)
        BY <1>4, <2>2 DEF Overwrites
      <3> HIDE DEF sized, slot
      <3>2. QED
        BY <1>2, <1>4, <2>1, <3>1, OverwrittenFit
    <2>3. CASE ~overwrite
      BY <1>4, <2>3
    <2>4. QED
      BY <2>2, <2>3
  <1>5. CASE at # Never /\ sized.slots[slot] = SlotEmpty /\ RequestTroveEntry(k, v)
    <2>1. /\ trove \in Seq(Entry) /\ active \in Nat /\ active = Cardinality(LiveAt(trove))
          /\ trovedead = Len(trove) - active
      BY <1>2, FitRoom DEF Fit
    <2>2. Room(trove, trovecap)
      BY DEF MirrorInv, Rest
    <2>3. RequestTroveEntry(k, v)
      BY <1>5
    <2>4. /\ Len(trove') \notin LiveAt(trove)
          /\ LiveAt(trove') = LiveAt(trove) \cup {Len(trove')}
          /\ \A i \in LiveAt(trove) : trove'[i].key = trove[i].key
          /\ trove'[Len(trove')].key = k
      BY <2>1, <2>2, <2>3, Requested
    <2>5. \A i \in LiveAt(trove) : trove[i].key # k
      BY <1>2, <1>5, AbsentKey
    <2>6. QED
      BY <2>4, <2>5
  <1>6. QED
    BY <1>3, <1>4, <1>5 DEF SetKey

\* The live entries of tr and one more, of key k.
Adds(t, tr, k) ==
  /\ \A i \in LiveAt(tr) : tr[i].key # k /\ t[i].key = tr[i].key
  /\ \E n : LiveAt(t) = LiveAt(tr) \cup {n} /\ n \notin LiveAt(tr) /\ t[n].key = k

LEMMA DistinctAdded ==
  ASSUME NEW tr, NEW t, NEW k, Distinct(tr), Adds(t, tr, k)
  PROVE  Distinct(t)
  <1>1. PICK n : LiveAt(t) = LiveAt(tr) \cup {n} /\ n \notin LiveAt(tr) /\ t[n].key = k
    BY DEF Adds
  <1>2. \A i \in LiveAt(tr) : tr[i].key # k /\ t[i].key = tr[i].key
    BY DEF Adds
  <1>3. \A i \in LiveAt(t) : i = n \/ i \in LiveAt(tr)
    BY <1>1
  <1>4. ASSUME NEW i \in LiveAt(t), NEW j \in LiveAt(t), t[i].key = t[j].key
        PROVE  i = j
    <2>1. CASE i = n /\ j = n
      BY <2>1
    <2>2. CASE i = n /\ j \in LiveAt(tr)
      BY <1>1, <1>2, <1>4, <2>2
    <2>3. CASE i \in LiveAt(tr) /\ j = n
      BY <1>1, <1>2, <1>4, <2>3
    <2>4. CASE i \in LiveAt(tr) /\ j \in LiveAt(tr)
      BY <1>2, <1>4, <2>4 DEF Distinct
    <2>5. QED
      BY <1>3, <2>1, <2>2, <2>3, <2>4
  <1>5. QED
    BY <1>4 DEF Distinct

LEMMA DistinctSame ==
  ASSUME NEW tr, NEW t, Distinct(tr), SameKeys(t, tr)
  PROVE  Distinct(t)
  BY DEF SameKeys, Distinct

LEMMA DistinctSet ==
  ASSUME MirrorInv, Distinct(trove), NEW k \in Key, NEW v \in Value,
         NEW overwrite \in BOOLEAN, SetKey(k, v, overwrite)
  PROVE  Distinct(trove')
  <1>1. trove' = trove \/ SameKeys(trove', trove) \/ Adds(trove', trove, k)
    BY SetKeyTrove, Zenon DEF Adds
  <1>2. CASE trove' = trove
    BY <1>2, Zenon
  <1>3. CASE SameKeys(trove', trove)
    BY <1>3, DistinctSame, Zenon
  <1>4. CASE Adds(trove', trove, k)
    BY <1>4, DistinctAdded, Zenon
  <1>5. QED
    BY <1>1, <1>2, <1>3, <1>4

\* key_rename() gives the new name to a key only if no other has it.
Renames(r, tr, n, k) ==
  /\ LiveAt(r) = LiveAt(tr) /\ n \in LiveAt(tr) /\ r[n].key = k
  /\ \A i \in LiveAt(tr) : i # n => r[i] = tr[i]
  /\ \A i \in LiveAt(tr) : tr[i].key # k

LEMMA DistinctRenamed ==
  ASSUME NEW tr, NEW r, NEW n, NEW k, Distinct(tr), Renames(r, tr, n, k)
  PROVE  Distinct(r)
  <1> USE DEF Renames
  <1>1. SUFFICES ASSUME NEW i \in LiveAt(tr), NEW j \in LiveAt(tr), r[i].key = r[j].key
                 PROVE  i = j
    BY DEF Distinct
  <1>2. CASE i = n /\ j = n
    BY <1>2
  <1>3. CASE i = n /\ j # n
    BY <1>1, <1>3
  <1>4. CASE i # n /\ j = n
    BY <1>1, <1>4
  <1>5. CASE i # n /\ j # n
    BY <1>1, <1>5 DEF Distinct
  <1>6. QED
    BY <1>2, <1>3, <1>4, <1>5

\* A key that in_get() does not find is not there.
LEMMA NotThere ==
  ASSUME Fit(width, slots, active, dummies, trove, trovedead, renames), Distinct(trove),
         ProbesCover, NEW k \in Key, Find(k) = -1
  PROVE  \A i \in LiveAt(trove) : trove[i].key # k
  BY FindsEntry

LEMMA DistinctRename ==
  ASSUME MirrorInv, Distinct(trove), ProbesCover, NEW k \in Key, NEW new \in Key,
         Find(k) # -1, Find(new) = -1,
         trove' = [trove EXCEPT ![slots[Find(k)]].key = new]
  PROVE  Distinct(trove')
  <1> DEFINE n == slots[Find(k)]
             r == trove'
  <1>1. width # 0
    BY DEF Find
  <1>2. Fit(width, slots, active, dummies, trove, trovedead, renames)
    BY <1>1, SetFit
  <1>3. Find(k) \in SlotsOf(width) /\ slots[Find(k)] > 0
    BY <1>2, Found
  <1>4. /\ n \in LiveAt(trove) /\ n \in 1 .. Len(trove)
        /\ trove[n] \in [key : Key, val : Value]
    BY <1>2, <1>3, LeftFit
  <1>5. trove \in Seq(Entry)
    BY <1>2 DEF Fit
  <1>6. Rekeys(r, trove, n, new)
    BY DEF Rekeys
  <1>7. \A i \in LiveAt(trove) : trove[i].key # new
    BY <1>2, NotThere
  <1> HIDE DEF n, r
  <1>8. PICK e \in Entry : e # Dead /\ e.key = new /\ Replaces(r, trove, n, e)
    BY <1>4, <1>5, <1>6, Rekeyed
  <1>9. LiveAt(r) = LiveAt(trove) \cup {n}
    BY <1>4, <1>5, <1>8, ChangedLive
  <1>10. LiveAt(r) = LiveAt(trove)
    BY <1>4, <1>9
  <1>11. r[n].key = new /\ \A i \in LiveAt(trove) : i # n => r[i] = trove[i]
    <2>1. \A i \in LiveAt(trove) : i \in 1 .. Len(trove)
      BY DEF LiveAt, LiveUpTo
    <2>2. QED
      BY <1>8, <2>1 DEF Replaces
  <1>12. Distinct(r)
    <2>1. Renames(r, trove, n, new)
      BY <1>4, <1>7, <1>10, <1>11, Zenon DEF Renames
    <2>2. QED
      BY <2>1, DistinctRenamed, Zenon
  <1>13. QED
    BY <1>12 DEF r

LEMMA DistinctDel ==
  ASSUME MirrorInv, Distinct(trove), width # 0, NEW k \in Key, NEW slot,
         slot = Paths[width][k][Landing(Paths[width][k], Holders(slots, k) \cup Empties(slots))],
         Landing(Paths[width][k], Holders(slots, k) \cup Empties(slots)) # Never,
         slots[slot] > 0, NEW sl, NEW ac, NEW dm, NEW dead,
         CheckToCompact(sessions, sl, ac, dm, [trove EXCEPT ![slots[slot]] = Dead], dead)
  PROVE  Distinct(trove')
  <1> DEFINE i == slots[slot]
             r == [trove EXCEPT ![i] = Dead]
             S == Holders(slots, k) \cup Empties(slots)
  <1>1. /\ Fit(width, slots, active, dummies, trove, trovedead, renames) /\ width \in Widths
    BY SetFit
  <1>2. slot \in SlotsOf(width)
    <2>1. S \subseteq SlotsOf(width)
      BY <1>1, FitRoom DEF Holders
    <2> HIDE DEF S
    <2>2. Paths[width][k][Landing(Paths[width][k], S)] \in S
      <3>1. Landing(Paths[width][k], S) # Never
        BY DEF S
      <3>2. QED
        BY <1>1, <2>1, <3>1, Lands
    <2>3. slot \in S
      BY <2>2 DEF S
    <2>4. QED
      BY <2>1, <2>3
  <1>3. i \in LiveAt(trove) /\ i \in 1 .. Len(trove) /\ trove \in Seq(Entry)
    BY <1>1, <1>2, LeftFit DEF Fit
  <1>4. Dead \in Entry
    BY DEF Entry
  <1> HIDE DEF i
  <1>5. Replaces(r, trove, i, Dead)
    BY <1>3, <1>4, Changed
  <1>6. CheckToCompact(sessions, sl, ac, dm, r, dead)
    BY DEF i
  <1> HIDE DEF r
  <1>7. LiveAt(r) = LiveAt(trove) \ {i} /\ r \in Seq(Entry)
    BY <1>3, <1>5, ChangedLive DEF Replaces
  <1>8. \A j \in LiveAt(r) : r[j].key = trove[j].key
    <2>1. \A j \in LiveAt(trove) : j \in 1 .. Len(trove)
      BY DEF LiveAt, LiveUpTo
    <2>2. QED
      BY <1>5, <1>7, <2>1 DEF Replaces
  <1>9. Distinct(r)
    BY <1>7, <1>8, StillDistinct
  <1>10. QED
    BY <1>6, <1>7, <1>9, DistinctChecked

\* No two live entries have the same key.
KeysInv == MirrorInv /\ Distinct(trove)

LEMMA DistinctDecreased ==
  ASSUME KeysInv, NEW sess, DecreaseSessionCount(sess)
  PROVE  Distinct(trove')
  <1>1. trove \in Seq(Entry)
    <2>1. CASE Unset
      BY <2>1 DEF Unset
    <2>2. CASE Fit(width, slots, active, dummies, trove, trovedead, renames)
      BY <2>2 DEF Fit
    <2>3. QED
      BY <2>1, <2>2 DEF KeysInv, MirrorInv
  <1>2. CASE sess = 0 /\ pending
    <2>1. CheckToCompact(sess, slots, active, dummies, trove, trovedead)
      BY <1>2 DEF DecreaseSessionCount
    <2>2. QED
      BY <1>1, <2>1, DistinctChecked DEF KeysInv
  <1>3. CASE ~(sess = 0 /\ pending)
    BY <1>3 DEF DecreaseSessionCount, troveVars, KeysInv
  <1>4. QED
    BY <1>2, <1>3

\* The trove changes only so far as its keys stay distinct.
LEMMA NextKeepsDistinct ==
  ASSUME KeysInv, ProbesCover \/ "KeyRename" \notin Calls, [Next]_vars
  PROVE  Distinct(trove')
  <1>1. CASE trove' = trove
    BY <1>1 DEF KeysInv
  <1>2. CASE UNCHANGED vars
    BY <1>1, <1>2 DEF vars
  <1>3. ASSUME NEW k \in Key, NEW v \in Value, NEW overwrite \in BOOLEAN,
               SetKey(k, v, overwrite)
        PROVE  Distinct(trove')
    BY <1>3, DistinctSet DEF KeysInv
  <1>4. ASSUME NEW k \in Key, Get(k)
        PROVE  Distinct(trove')
    BY <1>1, <1>4 DEF Get, Answers, dictVars
  <1>5. ASSUME NEW k \in Key, Del(k)
        PROVE  Distinct(trove')
    <2> DEFINE at == Landing(Paths[width][k], Holders(slots, k) \cup Empties(slots))
               slot == Paths[width][k][at]
    <2>1. CASE UNCHANGED dictVars
      BY <1>1, <2>1 DEF dictVars
    <2>2. CASE /\ width # 0 /\ at # Never /\ slots[slot] > 0
               /\ CheckToCompact(sessions, Vacated(slot), active - 1, dummies + 1,
                                 [trove EXCEPT ![slots[slot]] = Dead], trovedead + 1)
      BY <2>2, DistinctDel DEF KeysInv
    <2>3. CASE width = 0
      BY <1>5, <2>1, <2>3 DEF Del, Answers
    <2>4. CASE width # 0
      BY <1>5, <2>1, <2>2, <2>4 DEF Del, Answers
    <2>5. QED
      BY <2>3, <2>4
  <1>6. ASSUME NEW k \in Key, NEW new \in Key, KeyRename(k, new)
        PROVE  Distinct(trove')
    <2>1. CASE UNCHANGED dictVars
      BY <1>1, <2>1 DEF dictVars
    <2>2. CASE /\ Find(k) # -1 /\ Find(new) = -1
               /\ trove' = [trove EXCEPT ![slots[Find(k)]].key = new]
      <3>1. "KeyRename" \in Calls
        BY <1>6 DEF KeyRename, Calling
      <3>2. QED
        BY <2>2, <3>1, DistinctRename DEF KeysInv
    <2>3. QED
      BY <1>6, <2>1, <2>2 DEF KeyRename, Answers, NameTaken
  <1>7. ASSUME Compact
        PROVE  Distinct(trove')
    <2>1. CASE UNCHANGED dictVars
      BY <1>1, <2>1 DEF dictVars
    <2>2. CASE width # 0 /\ trove' = LiveOf(trove)
      <3>1. trove \in Seq(Entry)
        BY <2>2, SetFit DEF KeysInv, Fit
      <3>2. QED
        BY <2>2, <3>1, DistinctSqueezed DEF KeysInv
    <2>3. QED
      BY <1>7, <2>1, <2>2 DEF Compact, CompactTo, Answers
  <1>8. ASSUME Clear
        PROVE  Distinct(trove')
    <2>1. CASE UNCHANGED dictVars
      BY <1>1, <2>1 DEF dictVars
    <2>2. CASE trove' = <<>>
      BY <2>2 DEF Distinct, LiveAt, LiveUpTo
    <2>3. QED
      BY <1>8, <2>1, <2>2 DEF Clear, Answers
  <1>9. ASSUME CopyDict
        PROVE  Distinct(trove')
    BY <1>1, <1>9 DEF CopyDict, troveVars
  <1>10. ASSUME GetKeys
         PROVE  Distinct(trove')
    BY <1>1, <1>10, DistinctDecreased DEF GetKeys, troveVars
  <1>11. ASSUME NEW pct \in HungrySlots, SetDbgParams(pct)
         PROVE  Distinct(trove')
    BY <1>1, <1>11 DEF SetDbgParams, troveVars
  <1>12. ASSUME NEW e \in Enumor, EnumNext(e)
         PROVE  Distinct(trove')
    BY <1>1, <1>12, DistinctDecreased DEF EnumNext, troveVars
  <1>13. ASSUME NEW e \in Enumor, NEW from \in FromKeys, EnumReset(e, from)
         PROVE  Distinct(trove')
    BY <1>1, <1>13, DistinctDecreased DEF EnumReset, troveVars
  <1>14. ASSUME NEW e \in Enumor, NEW e2 \in Enumor, EnumCopy(e, e2)
         PROVE  Distinct(trove')
    BY <1>1, <1>14 DEF EnumCopy, dictVars
  <1>15. QED
    BY <1>2, <1>3, <1>4, <1>5, <1>6, <1>7, <1>8, <1>9, <1>10, <1>11, <1>12, <1>13, <1>14 DEF Next

\* The probe for a key that is there finds it.
LEMMA KeysFound ==
  ASSUME KeysInv, ProbesCover
  PROVE  FindsEveryKey
  <1>1. SUFFICES ASSUME NEW i \in DOMAIN trove, trove[i] # Dead
                 PROVE  Find(trove[i].key) # -1 /\ slots[Find(trove[i].key)] = i
    BY DEF FindsEveryKey
  <1>2. CASE Unset
    BY <1>1, <1>2 DEF Unset
  <1>3. CASE Fit(width, slots, active, dummies, trove, trovedead, renames)
    <2>1. trove \in Seq(Entry)
      BY <1>3 DEF Fit
    <2>2. i \in 1 .. Len(trove)
      BY <2>1
    <2>3. i \in LiveAt(trove)
      BY <1>1, <2>1, <2>2 DEF LiveAt, LiveUpTo
    <2>4. trove[i].key \in Key
      BY <2>1, <2>3, LiveIndexes
    <2>5. QED
      BY <1>3, <2>3, <2>4, FindsEntry DEF KeysInv
  <1>4. QED
    BY <1>2, <1>3 DEF KeysInv, MirrorInv

\* in_get() finds every key that was set and not deleted, and no key is there
\* twice, provided that its probes see all the slots before it may give up.
THEOREM EveryKeyFound ==
  ASSUME ProbesCover
  PROVE  Spec => []FindsEveryKey
  <1>1. Init => KeysInv
    <2>1. Init => Distinct(trove)
      BY DEF Init, Distinct, LiveAt, LiveUpTo
    <2>2. QED
      BY <2>1, InitMirrors DEF KeysInv
  <1>2. KeysInv /\ [Next]_vars => KeysInv'
    <2>1. KeysInv /\ [Next]_vars => MirrorInv'
      BY NextKeepsMirrors DEF KeysInv
    <2>2. KeysInv /\ [Next]_vars => Distinct(trove')
      BY NextKeepsDistinct
    <2>3. QED
      BY <2>1, <2>2 DEF KeysInv, Distinct
  <1>3. KeysInv => FindsEveryKey
    BY KeysFound
  <1>4. QED
    BY <1>1, <1>2, <1>3, PTL DEF Spec

--------------------------------------------------------------------------------
(***************************************************************************)
(* No probe goes on for ever: a slot stays empty.                          *)
(***************************************************************************)
\* What the client must not do.  key_rename() uses up empty slots that it does
\* not count, compact() may fill the slots up to the last, and SetDbgParams()
\* may ask for that.  The code shrinks to 4 keys at most, in 8 slots.
KeepsSlotsFree ==
  /\ "KeyRename" \notin Calls
  /\ "Compact" \in Calls => IsFiniteSet(Key) /\ Cardinality(Key) < Pow2[InitialDictWidth]
  /\ HungrySlots \subseteq {p \in Int : p < 100 /\ p # 0}
  /\ ShrinkLowMark < Pow2[InitialDictWidth]

GoodPct(p) == p \in Int /\ p < 100 /\ p # 0

\* The slots not empty, for ac keys and dm dummies, are not all of them.
Spare(w, ac, dm) == w \in Widths /\ ac \in Nat /\ dm \in Nat /\ ac + dm < Pow2[w]

SpareInv ==
  /\ KeysInv
  /\ renames = 0 /\ ret # Hang
  /\ width # 0 => Spare(width, active, dummies) /\ GoodPct(resizepct)

\* A share of the slots is fewer than the slots.
LEMMA PctBelow ==
  ASSUME NEW x \in Nat \ {0}, NEW p \in Int, p > 0, p < 100
  PROVE  (x * p) \div 100 < x /\ (x * p) \div 100 \in Int
  <1>1. x * p \in Nat /\ x * p < x * 100
    BY SMT
  <1> DEFINE y == x * p
             q == y \div 100
  <1>2. y \in Nat /\ y < x * 100
    BY <1>1
  <1> HIDE DEF y
  <1>3. y \div 100 < x /\ y \div 100 \in Int
    BY <1>2
  <1>4. QED
    BY <1>3 DEF y

LEMMA ThresholdBelow ==
  ASSUME NEW w \in Widths, NEW p, GoodPct(p)
  PROVE  Threshold(w, p) \in Int /\ Threshold(w, p) < Pow2[w]
  <1>1. Pow2[w] \in Nat \ {0}
    BY WidthFacts
  <1>2. CASE p > 0
    BY <1>1, <1>2, PctBelow DEF GoodPct, Threshold
  <1>3. CASE ~(p > 0)
    BY <1>1, <1>3 DEF GoodPct, Threshold
  <1>4. QED
    BY <1>2, <1>3

\* A slot is empty.
LEMMA SpareEmpty ==
  ASSUME NEW w, NEW sl, NEW ac, NEW dm, NEW tr, NEW dead,
         Fit(w, sl, ac, dm, tr, dead, 0), Cardinality(InUse(sl)) = ac, Spare(w, ac, dm)
  PROVE  Empties(sl) # {}
  <1>1. SUFFICES ASSUME Empties(sl) = {}
                 PROVE  FALSE
    OBVIOUS
  <1>2. /\ Dummies(sl) \in SUBSET SlotsOf(w) /\ InUse(sl) \in SUBSET SlotsOf(w)
        /\ SlotsOf(w) = InUse(sl) \cup Empties(sl) \cup Dummies(sl)
    BY FitRoom
  <1>3. InUse(sl) \cap Dummies(sl) = {}
    BY DEF InUse, Dummies, SlotDummy
  <1>4. /\ IsFiniteSet(InUse(sl)) /\ IsFiniteSet(Dummies(sl))
        /\ Cardinality(SlotsOf(w)) = Pow2[w]
    BY <1>2, SlotCount DEF Spare
  <1>5. Cardinality(Dummies(sl)) = dm
    <2>1. /\ dm \in Int /\ dm <= Cardinality(Dummies(sl))
          /\ Cardinality(Dummies(sl)) <= dm + 0
      BY DEF Fit, Counted
    <2>2. Cardinality(Dummies(sl)) \in Nat
      BY <1>4, FS_CardinalityType
    <2>3. QED
      BY <2>1, <2>2
  <1>6. SlotsOf(w) = InUse(sl) \cup Dummies(sl)
    BY <1>1, <1>2
  <1>7. Cardinality(InUse(sl) \cup Dummies(sl)) = ac + dm - Cardinality(InUse(sl) \cap Dummies(sl))
    BY <1>4, <1>5, FS_Union
  <1>8. Cardinality(InUse(sl) \cap Dummies(sl)) = 0
    BY <1>3, FS_EmptySet
  <1>9. Pow2[w] \in Nat
    BY WidthFacts DEF Spare
  <1>10. QED
    BY <1>4, <1>6, <1>7, <1>8, <1>9 DEF Spare

\* Compacting or not, a slot stays spare.
LEMMA SpareChecked ==
  ASSUME KeepsSlotsFree, NEW sess, NEW sl, NEW ac, NEW dm, NEW tr, NEW dead,
         Spare(width, ac, dm), CheckToCompact(sess, sl, ac, dm, tr, dead)
  PROVE  Spare(width', ac, dummies')
  <1>1. /\ InitialDictWidth \in Widths /\ Pow2[InitialDictWidth] \in Nat
        /\ ShrinkLowMark \in Nat /\ ShrinkLowMark < Pow2[InitialDictWidth]
    <2>1. InitialDictWidth \in Widths /\ ShrinkLowMark \in Nat
      BY TuningAssumption DEF Widths
    <2>2. QED
      BY <2>1, WidthFacts DEF KeepsSlotsFree
  <1>2. width \in Widths /\ Pow2[width] \in Nat /\ ac \in Nat /\ dm \in Nat /\ ac + dm < Pow2[width]
    BY WidthFacts DEF Spare
  <1>3. CASE ac <= ShrinkLowMark /\ width' = InitialDictWidth /\ dummies' = 0
    <2>1. ac + 0 < Pow2[InitialDictWidth] /\ 0 \in Nat
      BY <1>1, <1>2, <1>3
    <2>2. QED
      BY <1>1, <1>2, <1>3, <2>1 DEF Spare
  <1>4. CASE width' = width /\ dummies' = 0
    <2>1. ac + 0 < Pow2[width] /\ 0 \in Nat
      BY <1>2
    <2>2. QED
      BY <1>2, <1>4, <2>1 DEF Spare
  <1>5. CASE width' = width /\ dummies' = dm
    BY <1>5
  <1>6. QED
    BY <1>3, <1>4, <1>5 DEF CheckToCompact, CompactTo

LEMMA CountsNat ==
  ASSUME MirrorInv, renames = 0
  PROVE  active \in Nat /\ dummies \in Nat
  <1>1. CASE Unset
    BY <1>1 DEF Unset
  <1>2. CASE Fit(width, slots, active, dummies, trove, trovedead, 0)
    <2>1. dummies \in Int /\ IsFiniteSet(Dummies(slots)) /\ dummies <= Cardinality(Dummies(slots))
          /\ Cardinality(Dummies(slots)) <= dummies + 0
      BY <1>2 DEF Fit, Counted
    <2>2. Cardinality(Dummies(slots)) \in Nat
      BY <2>1, FS_CardinalityType
    <2>3. QED
      BY <1>2, <2>1, <2>2, FitRoom
  <1>3. QED
    BY <1>1, <1>2 DEF MirrorInv

\* The same after a step.
LEMMA CountsNatNext ==
  ASSUME MirrorInv', renames' = 0
  PROVE  active' \in Nat /\ dummies' \in Nat
  <1>1. CASE Unset'
    BY <1>1 DEF Unset
  <1>2. CASE Fit(width', slots', active', dummies', trove', trovedead', 0)
    <2>1. dummies' \in Int /\ IsFiniteSet(Dummies(slots')) /\ dummies' <= Cardinality(Dummies(slots'))
          /\ Cardinality(Dummies(slots')) <= dummies' + 0
      BY <1>2 DEF Fit, Counted
    <2>2. Cardinality(Dummies(slots')) \in Nat
      BY <2>1, FS_CardinalityType
    <2>3. QED
      BY <1>2, <2>1, <2>2, FitRoom
  <1>3. QED
    BY <1>1, <1>2 DEF MirrorInv

\* Once there is room for a key more, a slot is spare with that key.
LEMMA SizedSpare ==
  ASSUME SpareInv, Sized.width <= MaxWidth
  PROVE  Spare(Sized.width, active + 1, Sized.dummies) /\ GoodPct(Sized.pct)
  <1> DEFINE dumb == width = 0
             w == IF dumb THEN InitialDictWidth ELSE width
             pct == IF dumb THEN PctFullToResize ELSE resizepct
             below == slots_non_empty < Threshold(w, pct)
  <1>1. active \in Nat /\ dummies \in Nat
    BY CountsNat DEF SpareInv, KeysInv
  <1>2. Spare(w, active, dummies) /\ GoodPct(pct)
    <2>1. CASE dumb
      <3>1. active = 0 /\ dummies = 0
        BY <2>1, WidthFacts DEF SpareInv, KeysInv, MirrorInv, Unset, Fit
      <3>2. InitialDictWidth \in Widths /\ GoodPct(PctFullToResize)
        BY TuningAssumption DEF Widths, GoodPct
      <3>3. Pow2[InitialDictWidth] \in Nat \ {0}
        BY <3>2, WidthFacts
      <3>4. QED
        BY <2>1, <3>1, <3>2, <3>3 DEF Spare
    <2>2. CASE ~dumb
      BY <2>2 DEF SpareInv
    <2>3. QED
      BY <2>1, <2>2
  <1>3. Sized.pct = pct
    BY DEF Sized
  <1>4. /\ below => Sized.width = w /\ Sized.dummies = dummies
        /\ ~below => Sized.width = w + 1 /\ Sized.dummies = 0
    BY Zenon DEF Sized
  <1>5. slots_non_empty = active + dummies
    BY DEF slots_non_empty
  <1> HIDE DEF w, pct
  <1>6. w \in Widths /\ active + dummies < Pow2[w]
    BY <1>2 DEF Spare
  <1>7. Pow2[w] \in Nat /\ Threshold(w, pct) \in Int /\ Threshold(w, pct) < Pow2[w]
    BY <1>2, <1>6, WidthFacts, ThresholdBelow
  <1>8. CASE below
    <2>1. active + 1 + dummies < Pow2[w]
      BY <1>1, <1>5, <1>7, <1>8
    <2>2. QED
      BY <1>1, <1>2, <1>3, <1>4, <1>6, <1>8, <2>1 DEF Spare
  <1>9. CASE ~below
    <2>1. w + 1 \in Widths
      BY <1>4, <1>6, <1>9, TuningAssumption DEF Widths
    <2>2. Pow2[w + 1] = 2 * Pow2[w]
      BY <1>6, WidthFacts, Doubling
    <2>3. active + 1 + 0 < Pow2[w + 1]
      BY <1>1, <1>6, <1>7, <2>2
    <2>4. QED
      BY <1>1, <1>2, <1>3, <1>4, <1>9, <2>1, <2>3 DEF Spare
  <1>10. QED
    BY <1>8, <1>9

LEMMA SpareSet ==
  ASSUME SpareInv, MirrorInv', NEW k \in Key, NEW v \in Value, NEW overwrite \in BOOLEAN,
         SetKey(k, v, overwrite)
  PROVE  /\ renames' = 0 /\ ret' # Hang
         /\ Spare(width', active', dummies') /\ GoodPct(resizepct')
  <1> DEFINE sized == Sized
             path == Paths[sized.width][k]
             at == SetLanding(sized, k)
             slot == path[at]
             use == SlotToUse(sized, path, at)
  <1>1. /\ sized.width <= MaxWidth /\ width' = sized.width /\ resizepct' = sized.pct
        /\ renames' = renames
    BY DEF SetKey
  <1>2. Spare(sized.width, active + 1, sized.dummies) /\ GoodPct(sized.pct)
    BY <1>1, SizedSpare
  <1>3. active \in Nat /\ active' \in Nat /\ dummies' \in Nat /\ renames' = 0
    BY <1>1, CountsNat, CountsNatNext DEF SpareInv, KeysInv
  <1>4. /\ active' = active \/ active' = active + 1
        /\ dummies' = sized.dummies \/ dummies' = sized.dummies - 1 
           \/ dummies' = sized.dummies - 0
    BY Zenon DEF SetKey, DummiesLeft
  <1>5. ret' # Hang
    <2>1. \/ ret' = <<"set", k>> \/ (\E x : ret' = <<"set", k, x>>)
      BY Zenon DEF SetKey
    <2>2. QED
      BY <2>1 DEF Hang
  <1> HIDE DEF sized
  <1>6. Spare(width', active', dummies')
    <2>1. Pow2[sized.width] \in Nat /\ sized.width \in Widths /\ sized.dummies \in Nat
          /\ active + 1 + sized.dummies < Pow2[sized.width]
      BY <1>2, WidthFacts DEF Spare
    <2> DEFINE a == active'
               d == dummies'
    <2>2. a \in Nat /\ d \in Nat /\ (a = active \/ a = active + 1)
          /\ (d = sized.dummies \/ d = sized.dummies - 1 \/ d = sized.dummies - 0)
      BY <1>3, <1>4
    <2> HIDE DEF a, d
    <2>3. a + d < Pow2[sized.width]
      BY <1>3, <2>1, <2>2
    <2>4. Spare(sized.width, a, d)
      BY <2>1, <2>2, <2>3 DEF Spare
    <2>5. QED
      BY <1>1, <2>4 DEF a, d
  <1>7. QED
    BY <1>1, <1>2, <1>3, <1>5, <1>6

\* Distinct keys are no more than there are keys.
LEMMA FewerThanKeys ==
  ASSUME NEW tr \in Seq(Entry), Distinct(tr), IsFiniteSet(Key)
  PROVE  Cardinality(LiveAt(tr)) <= Cardinality(Key)
  <1> DEFINE f == [i \in LiveAt(tr) |-> tr[i].key]
  <1>1. f \in [LiveAt(tr) -> Key]
    BY LiveIndexes
  <1>2. \A i, j \in LiveAt(tr) : f[i] = f[j] => i = j
    BY DEF Distinct
  <1> HIDE DEF f
  <1>3. f \in Injection(LiveAt(tr), Key)
    BY <1>1, <1>2 DEF Injection, IsInjective
  <1>4. QED
    BY <1>3, FS_Injection

\* compact() keeps all slots full only of a client with as many keys.
LEMMA SpareCompact ==
  ASSUME SpareInv, KeepsSlotsFree, "Compact" \in Calls, width # 0,
         CompactTo(CompactWidth, trove)
  PROVE  Spare(width', active, dummies')
  <1>1. /\ Fit(width, slots, active, dummies, trove, trovedead, renames) /\ width \in Widths
    BY SetFit DEF SpareInv, KeysInv
  <1>2. /\ active \in Nat /\ active <= Pow2[width] /\ trove \in Seq(Entry)
        /\ active = Cardinality(LiveAt(trove))
    BY <1>1, FitRoom DEF Fit
  <1>3. CompactWidth \in Widths
    <2> DEFINE S == {w \in InitialDictWidth .. MaxWidth : active <= Pow2[w]}
    <2>1. width \in S
      BY <1>1, <1>2 DEF Widths
    <2>2. S \subseteq Nat
      BY TuningAssumption
    <2>3. LeastOf(S) \in S
      <3> HIDE DEF S
      <3>1. QED
        BY <2>1, <2>2, Least
    <2>4. CompactWidth = LeastOf(S)
      BY DEF CompactWidth
    <2>5. QED
      BY <2>3, <2>4 DEF Widths
  <1>4. active <= Cardinality(Key) /\ IsFiniteSet(Key)
        /\ Cardinality(Key) < Pow2[InitialDictWidth]
    BY <1>2, FewerThanKeys DEF SpareInv, KeysInv, KeepsSlotsFree
  <1>5. Cardinality(Key) \in Nat
    BY <1>4, FS_CardinalityType
  <1>6. /\ Pow2[InitialDictWidth] \in Nat /\ Pow2[CompactWidth] \in Nat
        /\ Pow2[InitialDictWidth] <= Pow2[CompactWidth]
    <2>1. /\ InitialDictWidth \in Widths /\ InitialDictWidth \in Nat /\ CompactWidth \in Nat
          /\ InitialDictWidth <= CompactWidth
      BY <1>3, TuningAssumption DEF Widths
    <2>2. QED
      BY <1>3, <2>1, WidthFacts, Wider
  <1> DEFINE v == CompactWidth
  <1>7. v \in Widths /\ active + 0 < Pow2[v] /\ 0 \in Nat
    BY <1>2, <1>3, <1>4, <1>5, <1>6
  <1>8. width' = v /\ dummies' = 0
    BY DEF CompactTo
  <1> HIDE DEF v
  <1>9. QED
    BY <1>2, <1>7, <1>8 DEF Spare

\* What a call must keep.
Kept ==
  /\ renames' = 0 /\ ret' # Hang
  /\ width' # 0 => Spare(width', active', dummies') /\ GoodPct(resizepct')

LEMMA SpareSame ==
  ASSUME SpareInv, UNCHANGED <<width, active, dummies, resizepct, renames>>, ret' # Hang
  PROVE  Kept
  <1>1. /\ width' = width /\ active' = active /\ dummies' = dummies
        /\ resizepct' = resizepct /\ renames' = renames
    OBVIOUS
  <1>2. QED
    BY <1>1 DEF SpareInv, Kept

LEMMA SpareDecreased ==
  ASSUME SpareInv, KeepsSlotsFree, NEW sess, DecreaseSessionCount(sess),
         UNCHANGED <<active, resizepct, renames>>, ret' # Hang
  PROVE  Kept
  <1>1. CASE sess = 0 /\ pending
    <2>1. CheckToCompact(sess, slots, active, dummies, trove, trovedead)
      BY <1>1 DEF DecreaseSessionCount
    <2>2. width # 0
      <3>1. ~Unset
        BY <1>1 DEF Unset
      <3>2. width \in Widths
        BY <3>1 DEF SpareInv, KeysInv, MirrorInv, Fit
      <3>3. QED
        BY <3>2, WidthFacts
    <2>3. Spare(width', active, dummies')
      BY <2>1, <2>2, SpareChecked DEF SpareInv
    <2>4. active' = active /\ resizepct' = resizepct /\ renames' = renames
      OBVIOUS
    <2>5. QED
      BY <2>2, <2>3, <2>4 DEF SpareInv, Kept
  <1>2. CASE ~(sess = 0 /\ pending)
    <2>1. UNCHANGED slotVars
      BY <1>2 DEF DecreaseSessionCount
    <2>2. QED
      BY <2>1, SpareSame DEF slotVars
  <1>3. QED
    BY <1>1, <1>2

LEMMA SpareDel ==
  ASSUME SpareInv, MirrorInv', KeepsSlotsFree, NEW k \in Key, Del(k)
  PROVE  Kept
  <1> DEFINE S == Holders(slots, k) \cup Empties(slots)
             at == Landing(Paths[width][k], S)
             slot == Paths[width][k][at]
  <1>1. ASSUME width # 0
        PROVE  at # Never
    <2>1. /\ Fit(width, slots, active, dummies, trove, trovedead, renames) /\ width \in Widths
          /\ renames = 0 /\ Spare(width, active, dummies)
      BY <1>1, SetFit DEF SpareInv, KeysInv
    <2>2. active = Cardinality(InUse(slots))
      BY InvMirrors DEF SpareInv, KeysInv, SlotsMirrorTrove
    <2>3. Empties(slots) # {}
      BY <2>1, <2>2, SpareEmpty
    <2>4. S \subseteq SlotsOf(width) /\ S # {}
      BY <2>1, <2>3, FitRoom DEF Holders
    <2> HIDE DEF S
    <2>5. at \in 1 .. PathLength(width)
      BY <2>1, <2>4, Lands
    <2>6. PathLength(width) \in Nat /\ Never \in Nat /\ PathLength(width) < Never
      BY <2>1, WidthFacts
    <2>7. QED
      BY <2>5, <2>6
  <1> HIDE DEF at, slot
  <1>2. CASE UNCHANGED dictVars /\ renames' = renames /\ ret' = <<"del", k, FALSE>>
    <2>1. ret' # Hang
      BY <1>2 DEF Hang
    <2>2. QED
      BY <1>2, <2>1, SpareSame DEF dictVars
  <1>3. CASE /\ width # 0 /\ active' = active - 1 /\ ret' = <<"del", k, TRUE>>
             /\ UNCHANGED <<resizepct, sessions, enumors, renames>>
             /\ CheckToCompact(sessions, Vacated(slot), active - 1, dummies + 1,
                               [trove EXCEPT ![slots[slot]] = Dead], trovedead + 1)
    <2>1. ret' # Hang /\ renames' = 0 /\ resizepct' = resizepct /\ GoodPct(resizepct)
      BY <1>3 DEF Hang, SpareInv
    <2>2. active' \in Nat /\ active \in Nat /\ dummies \in Nat
      BY <2>1, CountsNat, CountsNatNext DEF SpareInv, KeysInv
    <2>3. Spare(width, active - 1, dummies + 1)
      <3>1. width \in Widths /\ active + dummies < Pow2[width] /\ Pow2[width] \in Nat
        BY <1>3, WidthFacts DEF SpareInv, Spare
      <3>2. active - 1 \in Nat /\ dummies + 1 \in Nat
            /\ (active - 1) + (dummies + 1) < Pow2[width]
        <4>1. active - 1 \in Nat
          BY <1>3, <2>2
        <4>2. QED
          BY <2>2, <3>1, <4>1
      <3>3. QED
        BY <3>1, <3>2 DEF Spare
    <2>4. Spare(width', active - 1, dummies')
      <3> DEFINE a == active - 1
                 d == dummies + 1
                 sl == Vacated(slot)
                 r == [trove EXCEPT ![slots[slot]] = Dead]
                 n == trovedead + 1
      <3>1. Spare(width, a, d) /\ CheckToCompact(sessions, sl, a, d, r, n)
        BY <1>3, <2>3
      <3> HIDE DEF a, d, sl, r, n
      <3>2. Spare(width', a, dummies')
        BY <3>1, SpareChecked
      <3>3. QED
        BY <3>2 DEF a
    <2>5. Spare(width', active', dummies')
      BY <1>3, <2>4
    <2>6. QED
      BY <2>1, <2>5 DEF Kept
  <1>4. QED
    <2>1. CASE width = 0
      BY <1>2, <2>1 DEF Del, Answers
    <2>2. CASE width # 0
      BY <1>1, <1>2, <1>3, <2>2 DEF Del, Answers, at, slot, S
    <2>3. QED
      BY <2>1, <2>2

LEMMA NextKeepsSpare ==
  ASSUME SpareInv, KeysInv', KeepsSlotsFree, [Next]_vars
  PROVE  Kept
  <1> DEFINE Same == UNCHANGED <<width, active, dummies, resizepct, renames>>
  <1>1. CASE UNCHANGED vars
    BY <1>1, SpareSame DEF vars, SpareInv
  <1>2. ASSUME NEW k \in Key, NEW v \in Value, NEW overwrite \in BOOLEAN,
               SetKey(k, v, overwrite)
        PROVE  Kept
    BY <1>2, SpareSet DEF KeysInv, Kept
  <1>3. ASSUME NEW k \in Key, Get(k)
        PROVE  Kept
    <2>1. Same /\ (ret' = <<"get", k>> \/ \E x : ret' = <<"get", k, x>>)
      BY <1>3, Zenon DEF Get, Answers, dictVars
    <2>2. ret' # Hang
      BY <2>1 DEF Hang
    <2>3. QED
      BY <2>1, <2>2, SpareSame
  <1>4. ASSUME NEW k \in Key, Del(k)
        PROVE  Kept
    BY <1>4, SpareDel DEF KeysInv
  <1>5. ASSUME NEW k \in Key, NEW new \in Key, KeyRename(k, new)
        PROVE  Kept
    BY <1>5 DEF KeyRename, Calling, KeepsSlotsFree
  <1>6. ASSUME Compact
        PROVE  Kept
    <2>1. "Compact" \in Calls /\ ret' # Hang
      <3>1. "Compact" \in Calls /\ \E x : ret' = <<"compact", x>>
        BY <1>6, Zenon DEF Compact, Calling, Answers
      <3>2. QED
        BY <3>1 DEF Hang
    <2>2. CASE UNCHANGED <<dictVars, renames>>
      BY <2>1, <2>2, SpareSame DEF dictVars
    <2>3. CASE /\ width # 0 /\ CompactTo(CompactWidth, trove)
               /\ UNCHANGED <<active, highmark, resizepct, sessions, pending, enumors, renames>>
      <3>1. Spare(width', active, dummies')
        BY <2>1, <2>3, SpareCompact
      <3>2. active' = active /\ resizepct' = resizepct /\ renames' = renames
        BY <2>3
      <3>3. QED
        BY <2>1, <2>3, <3>1, <3>2 DEF Kept, SpareInv
    <2>4. QED
      BY <1>6, <2>2, <2>3 DEF Compact, Answers
  <1>7. ASSUME Clear
        PROVE  Kept
    <2>1. ret' # Hang
      <3>1. \E x : ret' = <<"clear", x>>
        BY <1>7, Zenon DEF Clear, Answers
      <3>2. QED
        BY <3>1 DEF Hang
    <2>2. CASE UNCHANGED <<dictVars, renames>>
      BY <2>1, <2>2, SpareSame DEF dictVars
    <2>3. CASE width' = 0 /\ renames' = renames
      BY <2>1, <2>3 DEF Kept, SpareInv
    <2>4. QED
      BY <1>7, <2>2, <2>3 DEF Clear, Answers
  <1>8. ASSUME CopyDict
        PROVE  Kept
    BY <1>8, SpareSame DEF CopyDict, slotVars, Hang
  <1>9. ASSUME GetKeys
        PROVE  Kept
    <2>1. UNCHANGED <<active, resizepct, renames>>
      BY <1>9 DEF GetKeys
    <2>2. ret' # Hang
      <3>1. \E x : ret' = <<"keys", x>>
        BY <1>9, Zenon DEF GetKeys
      <3>2. QED
        BY <3>1 DEF Hang
    <2>3. CASE UNCHANGED slotVars
      BY <2>1, <2>2, <2>3, SpareSame DEF slotVars
    <2>4. CASE DecreaseSessionCount(sessions)
      BY <2>1, <2>2, <2>4, SpareDecreased
    <2>5. QED
      BY <1>9, <2>3, <2>4 DEF GetKeys
  <1>10. ASSUME NEW pct \in HungrySlots, SetDbgParams(pct)
         PROVE  Kept
    <2>1. /\ width' = width /\ active' = active /\ dummies' = dummies
          /\ renames' = renames /\ resizepct' = pct
      BY <1>10 DEF SetDbgParams, slotVars
    <2>2. ret' # Hang /\ GoodPct(pct)
      BY <1>10 DEF SetDbgParams, Hang, GoodPct, KeepsSlotsFree
    <2>3. QED
      BY <2>1, <2>2 DEF Kept, SpareInv
  <1>11. ASSUME NEW e \in Enumor, EnumNext(e)
         PROVE  Kept
    <2>1. UNCHANGED <<active, resizepct, renames>>
      BY <1>11 DEF EnumNext
    <2>2. ret' # Hang
      <3>1. ret' = <<"next", e>> \/ \E x : ret' = <<"next", e, x>>
        BY <1>11, Zenon DEF EnumNext
      <3>2. QED
        BY <3>1 DEF Hang
    <2>3. CASE UNCHANGED slotVars
      BY <2>1, <2>2, <2>3, SpareSame DEF slotVars
    <2>4. CASE DecreaseSessionCount(sessions - 1)
      BY <2>1, <2>2, <2>4, SpareDecreased
    <2>5. QED
      BY <1>11, <2>3, <2>4 DEF EnumNext
  <1>12. ASSUME NEW e \in Enumor, NEW from \in FromKeys, EnumReset(e, from)
         PROVE  Kept
    <2>1. UNCHANGED <<active, resizepct, renames>> /\ ret' # Hang
      BY <1>12 DEF EnumReset, Hang
    <2>2. CASE UNCHANGED slotVars
      BY <2>1, <2>2, SpareSame DEF slotVars
    <2>3. CASE DecreaseSessionCount(SessionsAfterReset(e))
      BY <2>1, <2>3, SpareDecreased
    <2>4. QED
      BY <1>12, <2>2, <2>3 DEF EnumReset
  <1>13. ASSUME NEW e \in Enumor, NEW e2 \in Enumor, EnumCopy(e, e2)
         PROVE  Kept
    BY <1>13, SpareSame DEF EnumCopy, dictVars, Hang
  <1>14. QED
    BY <1>1, <1>2, <1>3, <1>4, <1>5, <1>6, <1>7, <1>8, <1>9, <1>10, <1>11, <1>12, <1>13 DEF Next

LEMMA InitSpare ==
  ASSUME Init
  PROVE  SpareInv
  <1>1. KeysInv
    <2>1. Distinct(trove)
      BY DEF Init, Distinct, LiveAt, LiveUpTo
    <2>2. QED
      BY <2>1, InitMirrors DEF KeysInv
  <1>2. ret # Hang
    <2>1. ret = <<"clear", TRUE>>
      BY DEF Init
    <2>2. ASSUME NEW x
          PROVE  <<"clear", x>> # Hang
      BY DEF Hang
    <2>3. QED
      BY <2>1, <2>2
  <1>3. renames = 0 /\ width = 0
    BY DEF Init
  <1>4. QED
    BY <1>1, <1>2, <1>3 DEF SpareInv

LEMMA NextSpare ==
  ASSUME SpareInv, KeepsSlotsFree, [Next]_vars
  PROVE  SpareInv'
  <1>1. MirrorInv'
    BY NextKeepsMirrors DEF SpareInv, KeysInv
  <1>2. Distinct(trove')
    BY NextKeepsDistinct DEF SpareInv, KeepsSlotsFree
  <1>3. KeysInv'
    BY <1>1, <1>2 DEF KeysInv, Distinct
  <1>4. Kept
    BY <1>3, NextKeepsSpare
  <1>5. QED
    BY <1>3, <1>4 DEF Kept, SpareInv, Spare, GoodPct

\* in_del(), whose probes have no bound, comes to an end: the slots always
\* grow, dummies counted, before the last one is taken.
THEOREM DeletesEnd ==
  ASSUME KeepsSlotsFree
  PROVE  Spec => []Terminates
  <1>1. Init => SpareInv
    BY InitSpare
  <1>2. SpareInv /\ [Next]_vars => SpareInv'
    BY NextSpare
  <1>3. SpareInv => Terminates
    BY DEF SpareInv, Terminates
  <1>4. QED
    BY <1>1, <1>2, <1>3, PTL DEF Spec

--------------------------------------------------------------------------------
(***************************************************************************)
(* Places: how many live entries stand before an index of the trove.       *)
(***************************************************************************)
Earlier(L, i) == {j \in L : j < i}
Place(L, i)   == Cardinality(Earlier(L, i))

LEMMA PlaceNat ==
  ASSUME NEW L, Indexes(L), NEW i
  PROVE  /\ Place(L, i) \in Nat /\ Cardinality(L) \in Nat /\ Place(L, i) <= Cardinality(L)
         /\ IsFiniteSet(Earlier(L, i))
  <1>1. IsFiniteSet(L) /\ Earlier(L, i) \in SUBSET L
    BY DEF Indexes, Earlier
  <1>2. /\ IsFiniteSet(Earlier(L, i)) /\ Cardinality(Earlier(L, i)) <= Cardinality(L)
    BY <1>1, FS_Subset
  <1>3. Cardinality(L) \in Nat /\ Cardinality(Earlier(L, i)) \in Nat
    BY <1>1, <1>2, FS_CardinalityType
  <1>4. QED
    BY <1>2, <1>3 DEF Place

\* Only what stands before counts.
LEMMA PlaceSame ==
  ASSUME NEW L, NEW L2, NEW i, NEW i2, Earlier(L, i) = Earlier(L2, i2)
  PROVE  Place(L, i) = Place(L2, i2)
  BY DEF Place

LEMMA PlaceAfter ==
  ASSUME NEW L, Indexes(L), NEW i \in L
  PROVE  Place(L, i + 1) = Place(L, i) + 1
  <1>1. i \in Nat /\ \A j \in L : j \in Nat
    BY DEF Indexes
  <1>2. Earlier(L, i + 1) = Earlier(L, i) \cup {i} /\ i \notin Earlier(L, i)
    <2>1. \A j \in L : (j < i + 1 <=> j < i \/ j = i) /\ ~(i < i)
      BY <1>1
    <2>2. QED
      BY <2>1, Zenon DEF Earlier
  <1>3. IsFiniteSet(Earlier(L, i))
    BY PlaceNat
  <1>4. Cardinality(Earlier(L, i) \cup {i}) = Cardinality(Earlier(L, i)) + 1
    BY <1>2, <1>3, FS_AddElement
  <1>5. Cardinality(Earlier(L, i + 1)) = Cardinality(Earlier(L, i)) + 1
    BY <1>2, <1>4, Zenon
  <1>6. QED
    BY <1>5, Zenon DEF Place

LEMMA PlaceOrder ==
  ASSUME NEW L, Indexes(L), NEW i \in Nat, NEW j \in Nat, i <= j
  PROVE  Place(L, i) <= Place(L, j)
  <1>1. \A x \in L : x \in Nat
    BY DEF Indexes
  <1>2. Earlier(L, i) \subseteq Earlier(L, j)
    BY <1>1 DEF Earlier
  <1>3. IsFiniteSet(Earlier(L, j))
    BY PlaceNat
  <1>4. QED
    BY <1>2, <1>3, FS_Subset DEF Place

\* Of a live entry and a later index, the entry stands first.
LEMMA PlaceStrict ==
  ASSUME NEW L, Indexes(L), NEW i \in L, NEW j \in Nat, i < j
  PROVE  Place(L, i) < Place(L, j)
  <1>1. i \in Nat /\ i + 1 \in Nat /\ i + 1 <= j
    BY DEF Indexes
  <1>2. Place(L, i + 1) = Place(L, i) + 1 /\ Place(L, i + 1) <= Place(L, j)
    BY <1>1, PlaceAfter, PlaceOrder
  <1>3. Place(L, i) \in Nat /\ Place(L, j) \in Nat
    BY PlaceNat
  <1>4. QED
    BY <1>2, <1>3

LEMMA PlaceOnce ==
  ASSUME NEW L, Indexes(L), NEW i \in L, NEW j \in L, Place(L, i) = Place(L, j)
  PROVE  i = j
  <1>1. i \in Nat /\ j \in Nat
    BY DEF Indexes
  <1>2. Place(L, i) \in Nat /\ Place(L, j) \in Nat
    BY PlaceNat
  <1>3. ~(i < j) /\ ~(j < i)
    BY <1>1, <1>2, PlaceStrict
  <1>4. QED
    BY <1>1, <1>3

\* A live entry is not behind all of them.
LEMMA PlaceBelow ==
  ASSUME NEW L, Indexes(L), NEW i \in L
  PROVE  Place(L, i) < Cardinality(L)
  <1>1. Place(L, i + 1) = Place(L, i) + 1
    BY PlaceAfter
  <1>2. Place(L, i + 1) <= Cardinality(L) /\ Cardinality(L) \in Nat /\ Place(L, i) \in Nat
    BY PlaceNat
  <1>3. QED
    BY <1>1, <1>2

LEMMA PlaceLast ==
  ASSUME NEW L, NEW n, \A j \in L : j < n
  PROVE  Place(L, n) = Cardinality(L)
  <1>1. Earlier(L, n) = L
    BY DEF Earlier
  <1>2. QED
    BY <1>1 DEF Place

LEMMA PlaceSkips ==
  ASSUME NEW L, Indexes(L), NEW i \in Nat, NEW j \in Nat, i <= j,
         \A x \in L : ~(i <= x /\ x < j)
  PROVE  Place(L, i) = Place(L, j)
  <1>1. \A x \in L : x \in Nat
    BY DEF Indexes
  <1>2. \A x \in L : x < i <=> x < j
    BY <1>1
  <1>3. Earlier(L, i) = Earlier(L, j)
    BY <1>2 DEF Earlier
  <1>4. QED
    BY <1>3, PlaceSame

\* One live entry more, behind the others.
LEMMA PlaceAdded ==
  ASSUME NEW L, Indexes(L), NEW n \in Nat, NEW L2, L2 = L \cup {n}, NEW i \in Nat, i <= n
  PROVE  Place(L2, i) = Place(L, i)
  <1>1. \A x \in L : x \in Nat
    BY DEF Indexes
  <1>2. Earlier(L2, i) = Earlier(L, i)
    BY <1>1 DEF Earlier
  <1>3. QED
    BY <1>2, PlaceSame

\* One less.
LEMMA PlaceRemoved ==
  ASSUME NEW L, Indexes(L), NEW d \in L, NEW L2, L2 = L \ {d}, NEW i \in Nat
  PROVE  /\ i <= d => Place(L2, i) = Place(L, i)
         /\ i > d => Place(L2, i) = Place(L, i) - 1
  <1>1. d \in Nat /\ \A x \in L : x \in Nat
    BY DEF Indexes
  <1>2. CASE i <= d
    <2>1. Earlier(L2, i) = Earlier(L, i)
      BY <1>1, <1>2 DEF Earlier
    <2>2. QED
      BY <1>1, <1>2, <2>1, PlaceSame
  <1>3. CASE i > d
    <2>1. Earlier(L2, i) = Earlier(L, i) \ {d} /\ d \in Earlier(L, i)
      BY <1>1, <1>3 DEF Earlier
    <2>2. IsFiniteSet(Earlier(L, i))
      BY PlaceNat
    <2>3. Cardinality(Earlier(L, i) \ {d}) = Cardinality(Earlier(L, i)) - 1
      BY <2>1, <2>2, FS_RemoveElement
    <2>4. Place(L2, i) = Place(L, i) - 1
      BY <2>1, <2>3 DEF Place
    <2>5. QED
      BY <1>1, <1>3, <2>4
  <1>4. QED
    BY <1>1, <1>2, <1>3

\* r holds the entries of tr at the indexes in L, each at its place.
Lists(r, L, tr) ==
  /\ r \in Seq(Entry) /\ Len(r) = Cardinality(L)
  /\ \A x \in L : r[Place(L, x) + 1] = tr[x]
  /\ \A p \in 1 .. Len(r) : \E x \in L : Place(L, x) + 1 = p

LEMMA UpToIndexes ==
  ASSUME NEW tr, NEW n \in Nat
  PROVE  Indexes(LiveUpTo(tr, n)) /\ \A x \in LiveUpTo(tr, n) : x <= n
  <1>1. \A x \in LiveUpTo(tr, n) : x \in Nat \ {0} /\ x <= n
    BY DEF LiveUpTo
  <1>2. IsFiniteSet(LiveUpTo(tr, n))
    BY CountUpTo
  <1>3. QED
    BY <1>1, <1>2 DEF Indexes

\* An entry appended takes the last place.
LEMMA ListMore ==
  ASSUME NEW L, Indexes(L), NEW n \in Nat, \A x \in L : x < n, NEW L2, L2 = L \cup {n},
         NEW tr, tr[n] \in Entry, NEW r, Lists(r, L, tr)
  PROVE  Lists(Append(r, tr[n]), L2, tr)
  <1> DEFINE m == Len(r)
             t == Append(r, tr[n])
  <1>1. n \notin L /\ Cardinality(L2) = Cardinality(L) + 1
    <2>1. n \notin L /\ IsFiniteSet(L)
      BY DEF Indexes
    <2>2. Cardinality(L \cup {n}) = Cardinality(L) + 1
      BY <2>1, FS_AddElement
    <2>3. QED
      BY <2>1, <2>2
  <1>2. /\ r \in Seq(Entry) /\ m = Cardinality(L) /\ m \in Nat
        /\ \A x \in L : r[Place(L, x) + 1] = tr[x]
        /\ \A p \in 1 .. m : \E x \in L : Place(L, x) + 1 = p
    BY DEF Lists
  <1>3. /\ t \in Seq(Entry) /\ Len(t) = m + 1 /\ t[m + 1] = tr[n]
        /\ \A p \in 1 .. m : t[p] = r[p]
    BY <1>2
  <1> HIDE DEF t, m
  <1>4. \A x \in L : /\ Place(L2, x) = Place(L, x) /\ Place(L, x) \in Nat
                     /\ Place(L, x) < m
    <2>1. SUFFICES ASSUME NEW x \in L
                   PROVE  /\ Place(L2, x) = Place(L, x) /\ Place(L, x) \in Nat
                          /\ Place(L, x) < m
      OBVIOUS
    <2>2. x \in Nat /\ x <= n
      BY DEF Indexes
    <2>3. QED
      BY <1>2, <2>2, PlaceAdded, PlaceNat, PlaceBelow
  <1>5. Place(L2, n) = m
    <2>1. Place(L2, n) = Place(L, n)
      BY PlaceAdded
    <2>2. Place(L, n) = Cardinality(L)
      BY PlaceLast
    <2>3. QED
      BY <1>2, <2>1, <2>2
  <1>6. ASSUME NEW x \in L2
        PROVE  t[Place(L2, x) + 1] = tr[x]
    <2>1. CASE x = n
      BY <1>3, <1>5, <2>1
    <2>2. CASE x # n
      <3>1. x \in L
        BY <2>2
      <3>2. Place(L, x) + 1 \in 1 .. m
        BY <1>2, <1>4, <3>1
      <3>3. QED
        BY <1>2, <1>3, <1>4, <3>1, <3>2
    <2>3. QED
      BY <2>1, <2>2
  <1>7. ASSUME NEW p \in 1 .. m + 1
        PROVE  \E x \in L2 : Place(L2, x) + 1 = p
    <2>1. CASE p = m + 1
      BY <1>5, <2>1
    <2>2. CASE p # m + 1
      <3>1. p \in 1 .. m
        BY <1>2, <2>2
      <3>2. PICK x \in L : Place(L, x) + 1 = p
        BY <1>2, <3>1
      <3>3. QED
        BY <1>4, <3>2
    <2>3. QED
      BY <2>1, <2>2
  <1>8. Lists(t, L2, tr)
    <2>1. Len(t) = Cardinality(L2) /\ t \in Seq(Entry) /\ Len(t) = m + 1
      BY <1>1, <1>2, <1>3
    <2>2. \A x \in L2 : t[Place(L2, x) + 1] = tr[x]
      BY <1>6
    <2>3. \A p \in 1 .. m + 1 : \E x \in L2 : Place(L2, x) + 1 = p
      BY <1>7
    <2>4. QED
      BY <2>1, <2>2, <2>3, Zenon DEF Lists
  <1>9. QED
    BY <1>8 DEF t

\* CompactTrove() leaves each live entry at its place.
LEMMA LiveLists ==
  ASSUME NEW tr \in Seq(Entry)
  PROVE  Lists(LiveOf(tr), LiveAt(tr), tr)
  <1> DEFINE n == Len(tr)
  <1>1. PICK u \in [0 .. n -> Seq(Entry)] :
          /\ u[0] = <<>>
          /\ \A i \in 1 .. n : u[i] = IF tr[i] = Dead THEN u[i - 1] ELSE Append(u[i - 1], tr[i])
          /\ LiveOf(tr) = u[n]
    BY LiveOfLoop
  <1> DEFINE S == {i \in Nat : i <= n => Lists(u[i], LiveUpTo(tr, i), tr)}
  <1>2. n \in Nat /\ \A i \in 1 .. n : tr[i] \in Entry
    OBVIOUS
  <1> HIDE DEF n
  <1>3. 0 \in S
    <2>1. LiveUpTo(tr, 0) = {} /\ Cardinality(LiveUpTo(tr, 0)) = 0
      BY CountUpTo, FS_EmptySet
    <2>2. Len(u[0]) = 0 /\ u[0] \in Seq(Entry)
      BY <1>1, <1>2
    <2>3. \A p \in 1 .. Len(u[0]) : FALSE
      BY <2>2
    <2>4. Lists(u[0], LiveUpTo(tr, 0), tr)
      BY <2>1, <2>2, <2>3 DEF Lists
    <2>5. QED
      BY <2>4
  <1>4. ASSUME NEW i \in Nat, i \in S PROVE i + 1 \in S
    <2>1. SUFFICES ASSUME i + 1 <= n PROVE Lists(u[i + 1], LiveUpTo(tr, i + 1), tr)
      OBVIOUS
    <2> DEFINE r == u[i]
               L == LiveUpTo(tr, i)
               L2 == LiveUpTo(tr, i + 1)
               k == i + 1
    <2>2. Lists(r, L, tr)
      BY <1>2, <1>4, <2>1
    <2>3. k \in 1 .. n /\ k - 1 = i /\ k \in Nat
      BY <1>2, <2>1
    <2>4. u[k] = IF tr[k] = Dead THEN r ELSE Append(r, tr[k])
      BY <1>1, <2>3
    <2>5. Indexes(L) /\ \A x \in L : x < k
      <3>1. Indexes(L) /\ \A x \in L : x <= i
        BY UpToIndexes
      <3>2. \A x \in L : x \in Nat
        BY DEF LiveUpTo
      <3>3. QED
        BY <3>1, <3>2
    <2>6. CASE tr[k] = Dead
      <3>1. L2 = L
        BY <2>6, CountUpTo
      <3>2. QED
        BY <2>2, <2>4, <2>6, <3>1
    <2>7. CASE tr[k] # Dead
      <3>1. L2 = L \cup {k}
        BY <2>7, CountUpTo
      <3>2. tr[k] \in Entry
        BY <1>2, <2>3
      <3>3. u[k] = Append(r, tr[k])
        BY <2>4, <2>7
      <3> HIDE DEF L, L2, r, k
      <3>4. Lists(Append(r, tr[k]), L2, tr)
        BY <2>2, <2>3, <2>5, <3>1, <3>2, ListMore
      <3>5. Lists(u[k], L2, tr)
        BY <3>3, <3>4
      <3>6. QED
        BY <3>5 DEF L2, k
    <2>8. QED
      BY <2>6, <2>7
  <1>5. Nat \subseteq S
    <2> HIDE DEF S
    <2>1. QED
      BY <1>3, <1>4, Induction
  <1>6. Lists(u[n], LiveUpTo(tr, n), tr)
    BY <1>2, <1>5
  <1>7. QED
    BY <1>1, <1>6 DEF n, LiveAt

\* A list is settled by its places.
LEMMA ListsOnce ==
  ASSUME NEW L, NEW tr, NEW r, NEW r2, Lists(r, L, tr), Lists(r2, L, tr)
  PROVE  r = r2
  <1>1. /\ r \in Seq(Entry) /\ r2 \in Seq(Entry) /\ Len(r) = Len(r2)
        /\ \A x \in L : r[Place(L, x) + 1] = r2[Place(L, x) + 1]
        /\ \A p \in 1 .. Len(r) : \E x \in L : Place(L, x) + 1 = p
    BY DEF Lists
  <1>2. \A p \in 1 .. Len(r) : r[p] = r2[p]
    BY <1>1
  <1>3. QED
    BY <1>1, <1>2

\* A live entry and its place in the list.
LEMMA PlacedIn ==
  ASSUME NEW L, Indexes(L), NEW tr, NEW r, Lists(r, L, tr), NEW x \in L
  PROVE  Place(L, x) + 1 \in 1 .. Len(r) /\ r[Place(L, x) + 1] = tr[x]
  <1>1. Place(L, x) \in Nat /\ Place(L, x) < Cardinality(L) /\ Cardinality(L) \in Nat
    BY PlaceNat, PlaceBelow
  <1>2. Len(r) = Cardinality(L) /\ r[Place(L, x) + 1] = tr[x]
    BY DEF Lists
  <1>3. QED
    BY <1>1, <1>2

\* An entry changed in its place.
LEMMA ListChanged ==
  ASSUME NEW L, Indexes(L), NEW tr, NEW r, Lists(r, L, tr), NEW i \in L,
         NEW t, \A x \in L : x # i => t[x] = tr[x], t[i] \in Entry
  PROVE  Lists([r EXCEPT ![Place(L, i) + 1] = t[i]], L, t)
  <1> DEFINE at == Place(L, i) + 1
             s == [r EXCEPT ![at] = t[i]]
  <1>1. /\ r \in Seq(Entry) /\ Len(r) = Cardinality(L)
        /\ \A x \in L : r[Place(L, x) + 1] = tr[x]
        /\ \A p \in 1 .. Len(r) : \E x \in L : Place(L, x) + 1 = p
    BY DEF Lists
  <1>2. at \in 1 .. Len(r)
    BY PlacedIn
  <1> HIDE DEF at
  <1>3. /\ s \in Seq(Entry) /\ Len(s) = Len(r) /\ s[at] = t[i]
        /\ \A p \in 1 .. Len(r) : p # at => s[p] = r[p]
    BY <1>1, <1>2
  <1> HIDE DEF s
  <1>4. ASSUME NEW x \in L
        PROVE  s[Place(L, x) + 1] = t[x]
    <2>1. CASE x = i
      BY <1>3, <2>1 DEF at
    <2>2. CASE x # i
      <3>1. Place(L, x) # Place(L, i)
        BY <2>2, PlaceOnce
      <3>2. Place(L, x) + 1 \in 1 .. Len(r) /\ Place(L, x) \in Nat /\ Place(L, i) \in Nat
        BY PlacedIn, PlaceNat
      <3>3. Place(L, x) + 1 # at
        BY <3>1, <3>2 DEF at
      <3>4. QED
        BY <1>1, <1>3, <2>2, <3>2, <3>3
    <2>3. QED
      BY <2>1, <2>2
  <1>5. Lists(s, L, t)
    BY <1>1, <1>3, <1>4, Zenon DEF Lists
  <1>6. QED
    BY <1>5 DEF s, at

\* An entry taken out.
LEMMA ListRemoved ==
  ASSUME NEW L, Indexes(L), NEW tr, NEW r, Lists(r, L, tr), NEW d \in L, NEW L2, L2 = L \ {d},
         NEW t, \A x \in L2 : t[x] = tr[x],
         NEW at, at = Place(L, d) + 1
  PROVE  Lists(SubSeq(r, 1, at - 1) \o SubSeq(r, at + 1, Len(r)), L2, t)
  <1> DEFINE m == Len(r)
             s == SubSeq(r, 1, at - 1) \o SubSeq(r, at + 1, m)
  <1>1. /\ r \in Seq(Entry) /\ m = Cardinality(L) /\ m \in Nat
        /\ \A x \in L : r[Place(L, x) + 1] = tr[x]
        /\ \A p \in 1 .. m : \E x \in L : Place(L, x) + 1 = p
    BY DEF Lists
  <1>2. at \in 1 .. m
    BY PlacedIn
  <1>3. /\ s \in Seq(Entry) /\ Len(s) = m - 1
        /\ \A p \in 1 .. m - 1 : s[p] = IF p < at THEN r[p] ELSE r[p + 1]
    <2> DEFINE a == SubSeq(r, 1, at - 1)
               b == SubSeq(r, at + 1, m)
    <2> HIDE DEF m
    <2>1. at \in Int /\ m = Len(r)
      BY <1>1, <1>2 DEF m
    <2>2. a \in Seq(Entry) /\ Len(a) = at - 1 /\ \A p \in 1 .. at - 1 : a[p] = r[p]
      BY <1>1, <1>2, <2>1
    <2>3. b \in Seq(Entry) /\ Len(b) = m - at /\ \A p \in 1 .. m - at : b[p] = r[at + p]
      BY <1>1, <1>2, <2>1
    <2>4. s = a \o b
      OBVIOUS
    <2> HIDE DEF a, b, s
    <2>5. s \in Seq(Entry) /\ Len(s) = Len(a) + Len(b)
          /\ \A p \in 1 .. Len(a) + Len(b) : s[p] = IF p <= Len(a) THEN a[p] ELSE b[p - Len(a)]
      BY <2>2, <2>3, <2>4
    <2>6. Len(s) = m - 1
      BY <1>1, <1>2, <2>1, <2>2, <2>3, <2>5
    <2>7. ASSUME NEW p \in 1 .. m - 1
          PROVE  s[p] = IF p < at THEN r[p] ELSE r[p + 1]
      <3>1. s[p] = IF p <= at - 1 THEN a[p] ELSE b[p - (at - 1)]
        BY <1>1, <1>2, <2>1, <2>2, <2>3, <2>5
      <3>2. CASE p < at
        BY <1>1, <1>2, <2>1, <2>2, <3>1, <3>2
      <3>3. CASE ~(p < at)
        <4>1. p - (at - 1) \in 1 .. m - at /\ at + (p - (at - 1)) = p + 1 /\ ~(p <= at - 1)
          BY <1>1, <1>2, <2>1, <3>3
        <4>2. b[p - (at - 1)] = r[p + 1]
          BY <2>3, <4>1
        <4>3. QED
          BY <3>1, <3>3, <4>1, <4>2
      <3>4. QED
        BY <3>2, <3>3
    <2>8. QED
      BY <2>5, <2>6, <2>7
  <1> HIDE DEF s, m
  <1>4. Cardinality(L2) = m - 1
    <2>1. IsFiniteSet(L)
      BY DEF Indexes
    <2>2. Cardinality(L \ {d}) = Cardinality(L) - 1
      BY <2>1, FS_RemoveElement
    <2>3. QED
      BY <1>1, <2>2
  <1>5. Place(L, d) \in Nat /\ d \in Nat
    BY PlaceNat DEF Indexes
  <1>6. ASSUME NEW x \in L2
        PROVE  /\ Place(L2, x) \in Nat /\ Place(L, x) \in Nat /\ x \in L
               /\ Place(L, x) + 1 \in 1 .. m
               /\ \/ Place(L2, x) = Place(L, x) /\ Place(L, x) + 1 < at
                  \/ Place(L2, x) = Place(L, x) - 1 /\ Place(L, x) + 1 > at
    <2>1. x \in L /\ x # d /\ x \in Nat
      BY DEF Indexes
    <2>2. Place(L, x) \in Nat /\ Place(L, x) + 1 \in 1 .. m
      BY <2>1, PlacedIn, PlaceNat DEF m
    <2>3. CASE x < d
      <3>1. Place(L, x) < Place(L, d)
        BY <1>5, <2>1, <2>3, PlaceStrict
      <3>2. Place(L2, x) = Place(L, x)
        BY <1>5, <2>1, <2>3, PlaceRemoved
      <3>3. QED
        BY <1>5, <2>1, <2>2, <3>1, <3>2
    <2>4. CASE x > d
      <3>1. Place(L, d) < Place(L, x)
        BY <1>5, <2>1, <2>4, PlaceStrict
      <3>2. Place(L2, x) = Place(L, x) - 1
        BY <1>5, <2>1, <2>4, PlaceRemoved
      <3>3. QED
        BY <1>5, <2>1, <2>2, <3>1, <3>2
    <2>5. QED
      BY <1>5, <2>1, <2>3, <2>4
  <1>7. ASSUME NEW x \in L2
        PROVE  s[Place(L2, x) + 1] = t[x]
    <2> DEFINE q == Place(L, x)
               q2 == Place(L2, x)
    <2>1. /\ q2 \in Nat /\ q \in Nat /\ q + 1 \in 1 .. m
          /\ (q2 = q /\ q + 1 < at) \/ (q2 = q - 1 /\ q + 1 > at)
          /\ r[q + 1] = t[x]
      BY <1>1, <1>6
    <2> HIDE DEF q, q2
    <2>2. s[q2 + 1] = r[q + 1]
      <3>1. q2 + 1 \in 1 .. m - 1
        BY <1>1, <1>2, <2>1
      <3>2. s[q2 + 1] = IF q2 + 1 < at THEN r[q2 + 1] ELSE r[q2 + 1 + 1]
        BY <1>3, <3>1
      <3>3. CASE q2 = q /\ q + 1 < at
        BY <3>2, <3>3
      <3>4. CASE q2 = q - 1 /\ q + 1 > at
        <4>1. ~(q2 + 1 < at) /\ q2 + 1 + 1 = q + 1
          BY <1>1, <1>2, <2>1, <3>4
        <4>2. QED
          BY <3>2, <4>1
      <3>5. QED
        BY <2>1, <3>3, <3>4
    <2>3. QED
      BY <2>1, <2>2 DEF q2
  <1>8. ASSUME NEW p \in 1 .. m - 1
        PROVE  \E x \in L2 : Place(L2, x) + 1 = p
    <2> DEFINE p2 == IF p < at THEN p ELSE p + 1
    <2>1. p2 \in 1 .. m /\ p2 # at
      BY <1>1, <1>2
    <2>2. PICK x \in L : Place(L, x) + 1 = p2
      BY <1>1, <2>1
    <2>3. x # d
      BY <2>1, <2>2
    <2>4. x \in L2
      BY <2>3
    <2> DEFINE q == Place(L, x)
               q2 == Place(L2, x)
    <2>5. /\ q2 \in Nat /\ q \in Nat /\ q + 1 = p2
          /\ (q2 = q /\ q + 1 < at) \/ (q2 = q - 1 /\ q + 1 > at)
      BY <1>6, <2>2, <2>4
    <2> HIDE DEF q, q2
    <2>6. q2 + 1 = p
      BY <1>1, <1>2, <2>5
    <2>7. QED
      BY <2>4, <2>6 DEF q2
  <1>9. Lists(s, L2, t)
    <2>1. \A p \in 1 .. Len(s) : \E x \in L2 : Place(L2, x) + 1 = p
      BY <1>3, <1>8
    <2>2. QED
      BY <1>3, <1>4, <1>7, <2>1, Zenon DEF Lists
  <1>10. QED
    BY <1>9 DEF s, m

--------------------------------------------------------------------------------
(***************************************************************************)
(* What the client sees.                                                   *)
(***************************************************************************)
Entries == LiveOf(trove)
Walk(e) == [from |-> enumors[e].from, going |-> InProgress(e),
            ended |-> enumors[e].ended, passed |-> Passed(e)]
Walks   == [e \in Enumor |-> Walk(e)]

\* What the proof that they are an OrderedDict's needs: besides the lock and
\* distinct keys, that a walk has a position, and none is in a dict not set.
Positions ==
  /\ \A e \in Enumor : InProgress(e) => enumors[e].next \in Nat \ {0}
  /\ width = 0 => \A e \in Enumor : ~InProgress(e)

DictInv == KeysInv /\ LockInv /\ Positions

LEMMA TroveSeq ==
  ASSUME MirrorInv
  PROVE  /\ trove \in Seq(Entry) /\ Indexes(LiveAt(trove))
         /\ Lists(Entries, LiveAt(trove), trove)
  <1>1. trove \in Seq(Entry)
    <2>1. CASE Unset
      <3>1. trove = <<>>
        BY <2>1 DEF Unset
      <3>2. QED
        BY <3>1
    <2>2. CASE Fit(width, slots, active, dummies, trove, trovedead, renames)
      BY <2>2 DEF Fit
    <2>3. QED
      BY <2>1, <2>2 DEF MirrorInv
  <1>2. QED
    BY <1>1, LiveIndexes, LiveLists DEF Entries

\* A key is among the client's if a live entry has it, at that entry's place.
LEMMA KeyThere ==
  ASSUME NEW tr, NEW L, L = LiveAt(tr), Indexes(L), NEW r, Lists(r, L, tr), Distinct(tr),
         NEW i \in L, NEW k, tr[i].key = k
  PROVE  LET at == CHOOSE p \in DOMAIN r : r[p].key = k
         IN  /\ k \in {r[p].key : p \in DOMAIN r}
             /\ at = Place(L, i) + 1 /\ at \in 1 .. Len(r) /\ r[at] = tr[i]
  <1> DEFINE n == Place(L, i) + 1
             at == CHOOSE p \in DOMAIN r : r[p].key = k
  <1>1. n \in 1 .. Len(r) /\ r[n] = tr[i]
    BY PlacedIn
  <1>2. /\ r \in Seq(Entry) /\ DOMAIN r = 1 .. Len(r)
        /\ \A p \in 1 .. Len(r) : \E x \in L : Place(L, x) + 1 = p
        /\ \A x \in L : r[Place(L, x) + 1] = tr[x]
    BY DEF Lists
  <1> HIDE DEF n
  <1>3. ASSUME NEW p \in DOMAIN r, r[p].key = k
        PROVE  p = n
    <2>1. PICK x \in L : Place(L, x) + 1 = p
      BY <1>2
    <2>2. tr[x].key = tr[i].key
      BY <1>2, <1>3, <2>1
    <2>3. x = i
      BY <2>1, <2>2 DEF Distinct
    <2>4. QED
      BY <2>1, <2>3 DEF n
  <1>4. n \in DOMAIN r /\ r[n].key = k
    BY <1>1, <1>2
  <1>5. at = n
    BY <1>3, <1>4
  <1>6. k \in {r[p].key : p \in DOMAIN r}
    BY <1>4
  <1>7. QED
    BY <1>1, <1>5, <1>6 DEF n

LEMMA KeyMissing ==
  ASSUME NEW tr, NEW L, L = LiveAt(tr), NEW r, Lists(r, L, tr), NEW k,
         \A i \in L : tr[i].key # k
  PROVE  k \notin {r[p].key : p \in DOMAIN r}
  <1>1. /\ r \in Seq(Entry) /\ DOMAIN r = 1 .. Len(r)
        /\ \A p \in 1 .. Len(r) : \E x \in L : Place(L, x) + 1 = p
        /\ \A x \in L : r[Place(L, x) + 1] = tr[x]
    BY DEF Lists
  <1>2. QED
    BY <1>1

\* The same said of the state.
LEMMA DictHas ==
  ASSUME KeysInv, NEW i \in LiveAt(trove), NEW k, trove[i].key = k
  PROVE  /\ k \in Dict!Keys /\ Dict!At(k) = Place(LiveAt(trove), i) + 1
         /\ Dict!At(k) \in 1 .. Len(Entries) /\ Entries[Dict!At(k)] = trove[i]
  <1>1. /\ Indexes(LiveAt(trove)) /\ Lists(Entries, LiveAt(trove), trove) /\ Distinct(trove)
    BY TroveSeq DEF KeysInv
  <1> DEFINE r == Entries
             L == LiveAt(trove)
  <1>2. Dict!Keys = {r[p].key : p \in DOMAIN r} /\ Dict!At(k) = CHOOSE p \in DOMAIN r : r[p].key = k
    BY DEF Dict!Keys, Dict!At, Entries
  <1>3. Indexes(L) /\ Lists(r, L, trove) /\ L = LiveAt(trove) /\ i \in L
    BY <1>1
  <1> HIDE DEF r, L
  <1>4. LET at == CHOOSE p \in DOMAIN r : r[p].key = k
        IN  /\ k \in {r[p].key : p \in DOMAIN r}
            /\ at = Place(L, i) + 1 /\ at \in 1 .. Len(r) /\ r[at] = trove[i]
    BY <1>1, <1>3, KeyThere
  <1>5. QED
    BY <1>2, <1>4 DEF r, L

LEMMA DictHasNot ==
  ASSUME KeysInv, NEW k, \A i \in LiveAt(trove) : trove[i].key # k
  PROVE  k \notin Dict!Keys
  <1> DEFINE r == Entries
             L == LiveAt(trove)
  <1>1. Dict!Keys = {r[p].key : p \in DOMAIN r}
    BY DEF Dict!Keys, Entries
  <1>2. Lists(r, L, trove) /\ L = LiveAt(trove)
    BY TroveSeq DEF KeysInv
  <1> HIDE DEF r, L
  <1>3. k \notin {r[p].key : p \in DOMAIN r}
    <2>1. \A i \in L : trove[i].key # k
      BY <1>2
    <2>2. QED
      BY <1>2, <2>1, KeyMissing
  <1>4. QED
    BY <1>1, <1>3, Zenon

\* The walks under way are what the lock counts.
LEMMA LockedWhen ==
  ASSUME DictInv, IsFiniteSet(Enumor)
  PROVE  /\ sessions \in Nat /\ (pending => sessions > 0)
         /\ sessions <= 0 => \A e \in Enumor : ~InProgress(e)
         /\ sessions > 0 => \E e \in Enumor : InProgress(e)
  <1> DEFINE T == {e \in Enumor : InProgress(e)}
  <1>1. sessions = Cardinality(T) /\ (pending => sessions > 0)
    BY DEF DictInv, LockInv, SessionsExact
  <1>2. IsFiniteSet(T) /\ Cardinality(T) \in Nat
    BY SomeCount
  <1>3. Cardinality(T) = 0 <=> T = {}
    BY <1>2, FS_EmptySet
  <1> HIDE DEF T
  <1>4. /\ sessions \in Nat /\ (sessions <= 0 => T = {}) /\ (sessions > 0 => T # {})
    BY <1>1, <1>2, <1>3
  <1>5. QED
    BY <1>1, <1>4 DEF T

LEMMA LockSeen ==
  ASSUME DictInv, IsFiniteSet(Enumor)
  PROVE  Dict!Locked <=> sessions > 0
  <1>1. Dict!Locked <=> \E e \in Enumor : InProgress(e)
    BY Zenon DEF Dict!Locked
  <1>2. QED
    BY <1>1, LockedWhen

--------------------------------------------------------------------------------
(***************************************************************************)
(* Walks as the client sees them, of any trove and enumerator.             *)
(***************************************************************************)
Walking(en)    == en.started /\ ~en.ended
WalkOf(tr, en) == [from |-> en.from, going |-> Walking(en), ended |-> en.ended,
                   passed |-> IF Walking(en) THEN Place(LiveAt(tr), en.next) ELSE 0]

LEMMA EarlierLive ==
  ASSUME NEW tr \in Seq(Entry), NEW n
  PROVE  Cardinality({i \in DOMAIN tr : i < n /\ tr[i] # Dead}) = Place(LiveAt(tr), n)
  <1>1. {i \in DOMAIN tr : i < n /\ tr[i] # Dead} = Earlier(LiveAt(tr), n)
    <2>1. DOMAIN tr = 1 .. Len(tr)
      OBVIOUS
    <2>2. LiveAt(tr) = {i \in 1 .. Len(tr) : tr[i] # Dead}
      BY DEF LiveAt, LiveUpTo
    <2>3. QED
      BY <2>1, <2>2, Zenon DEF Earlier
  <1>2. QED
    BY <1>1 DEF Place

LEMMA WalksAre ==
  ASSUME trove \in Seq(Entry)
  PROVE  Walks = [e \in Enumor |-> WalkOf(trove, enumors[e])]
  <1>1. \A e \in Enumor : Walk(e) = WalkOf(trove, enumors[e])
    <2>1. SUFFICES ASSUME NEW e \in Enumor PROVE Walk(e) = WalkOf(trove, enumors[e])
      OBVIOUS
    <2>2. Cardinality({i \in DOMAIN trove : i < enumors[e].next /\ trove[i] # Dead})
            = Place(LiveAt(trove), enumors[e].next)
      BY EarlierLive
    <2>3. QED
      BY <2>2, Zenon DEF Walk, WalkOf, Walking, InProgress, Passed
  <1>2. QED
    BY <1>1, Zenon DEF Walks

LEMMA WalksAreNext ==
  ASSUME trove' \in Seq(Entry)
  PROVE  Walks' = [e \in Enumor |-> WalkOf(trove', enumors'[e])]
  <1>1. \A e \in Enumor : Walk(e)' = WalkOf(trove', enumors'[e])
    <2>1. SUFFICES ASSUME NEW e \in Enumor PROVE Walk(e)' = WalkOf(trove', enumors'[e])
      OBVIOUS
    <2>2. Cardinality({i \in DOMAIN trove' : i < enumors'[e].next /\ trove'[i] # Dead})
            = Place(LiveAt(trove'), enumors'[e].next)
      BY EarlierLive
    <2>3. QED
      BY <2>2, Zenon DEF Walk, WalkOf, Walking, InProgress, Passed
  <1>2. QED
    BY <1>1, Zenon DEF Walks

\* Walks go on from where they are while live entries stay where they are; and
\* where nobody walks nothing is to be kept.
LEMMA WalksKept ==
  ASSUME trove \in Seq(Entry), trove' \in Seq(Entry), UNCHANGED enumors,
         LiveAt(trove') = LiveAt(trove) \/ \A e \in Enumor : ~InProgress(e)
  PROVE  Walks' = Walks
  <1>1. ASSUME NEW e \in Enumor
        PROVE  WalkOf(trove', enumors'[e]) = WalkOf(trove, enumors[e])
    <2>1. CASE LiveAt(trove') = LiveAt(trove)
      BY <2>1, Zenon DEF WalkOf
    <2>2. CASE \A x \in Enumor : ~InProgress(x)
      <3>1. ~Walking(enumors[e])
        BY <2>2, Zenon DEF InProgress, Walking
      <3>2. QED
        BY <3>1, Zenon DEF WalkOf
    <2>3. QED
      BY <2>1, <2>2
  <1>2. QED
    BY <1>1, WalksAre, WalksAreNext, Zenon

\* A call that changes nothing the client sees.
LEMMA AnswersSeen ==
  ASSUME NEW r, ret' = r, Entries' = Entries, Walks' = Walks
  PROVE  Dict!Answers(r)
  BY Zenon DEF Dict!Answers, Entries, Walks, Walk

--------------------------------------------------------------------------------
(***************************************************************************)
(* Walks have positions.                                                   *)
(***************************************************************************)
LEMMA NextLiveIs ==
  ASSUME NEW L, L = LiveAt(trove), Indexes(L), trove \in Seq(Entry), NEW s \in Nat \ {0}
  PROVE  /\ NextLive(s) = 0 => \A x \in L : x < s
         /\ NextLive(s) # 0 => /\ NextLive(s) \in L /\ NextLive(s) \in Nat \ {0} /\ s <= NextLive(s)
                               /\ \A x \in L : ~(s <= x /\ x < NextLive(s))
  <1> DEFINE live == {i \in s .. Len(trove) : trove[i] # Dead}
  <1>1. live = {x \in L : s <= x} /\ \A x \in L : x \in Nat \ {0}
    <2>1. L = {i \in 1 .. Len(trove) : trove[i] # Dead}
      BY DEF LiveAt, LiveUpTo
    <2>2. Len(trove) \in Nat
      OBVIOUS
    <2>3. QED
      BY <2>1, <2>2
  <1>2. NextLive(s) = IF live = {} THEN 0 ELSE LeastOf(live)
    BY DEF NextLive
  <1> HIDE DEF live
  <1>3. CASE live = {}
    BY <1>1, <1>2, <1>3
  <1>4. CASE live # {}
    <2>1. live \subseteq Nat
      BY <1>1
    <2>2. LeastOf(live) \in live /\ \A y \in live : LeastOf(live) <= y
      BY <1>4, <2>1, Least
    <2>3. NextLive(s) \in live /\ \A y \in live : NextLive(s) <= y
      BY <1>2, <1>4, <2>2
    <2> DEFINE n == NextLive(s)
    <2>4. n \in live /\ \A y \in live : n <= y
      BY <2>3
    <2> HIDE DEF n
    <2>5. n \in L /\ n \in Nat \ {0} /\ s <= n
      BY <1>1, <2>4
    <2>6. \A x \in L : ~(s <= x /\ x < n)
      BY <1>1, <2>4, <2>5
    <2>7. n # 0
      BY <2>5
    <2>8. QED
      BY <2>5, <2>6, <2>7, Zenon DEF n
  <1>5. QED
    BY <1>3, <1>4

LEMMA WidthChecked ==
  ASSUME NEW sess, NEW sl, NEW ac, NEW dm, NEW tr, NEW dead,
         CheckToCompact(sess, sl, ac, dm, tr, dead), width' = 0
  PROVE  width = 0
  <1>1. width' = width \/ width' = InitialDictWidth
    BY Zenon DEF CheckToCompact, CompactTo
  <1>2. InitialDictWidth # 0
    BY TuningAssumption
  <1>3. QED
    BY <1>1, <1>2

LEMMA WidthDecreased ==
  ASSUME NEW sess, DecreaseSessionCount(sess), width' = 0
  PROVE  width = 0
  <1>1. CASE sess = 0 /\ pending
    BY <1>1, WidthChecked DEF DecreaseSessionCount
  <1>2. CASE ~(sess = 0 /\ pending)
    BY <1>2 DEF DecreaseSessionCount, slotVars
  <1>3. QED
    BY <1>1, <1>2

LEMMA WidthSized ==
  ASSUME MirrorInv, NEW k, NEW v, NEW overwrite, SetKey(k, v, overwrite), width' = 0
  PROVE  width = 0
  <1>1. width' = Sized.width
    BY DEF SetKey
  <1>2. SUFFICES ASSUME width # 0 PROVE FALSE
    OBVIOUS
  <1>3. width \in Nat /\ width + 1 # 0
    BY <1>2, SetFit, TuningAssumption DEF Widths
  <1>4. Sized.width = width \/ Sized.width = width + 1
    BY <1>2 DEF Sized
  <1>5. QED
    BY <1>1, <1>2, <1>3, <1>4

\* A call that leaves the enumerators alone, and clears only when nobody walks.
LEMMA PositionsKept ==
  ASSUME DictInv, IsFiniteSet(Enumor), UNCHANGED enumors,
         width' = 0 => width = 0 \/ sessions <= 0
  PROVE  Positions'
  <1>1. \A e \in Enumor : InProgress(e)' <=> InProgress(e)
    BY Zenon DEF InProgress
  <1>2. \A e \in Enumor : InProgress(e)' => enumors'[e].next \in Nat \ {0}
    BY <1>1, Zenon DEF DictInv, Positions
  <1>3. width' = 0 => \A e \in Enumor : ~InProgress(e)
    BY LockedWhen, Zenon DEF DictInv, Positions
  <1>4. QED
    BY <1>1, <1>2, <1>3, Zenon DEF Positions

\* One enumerator that changes.
LEMMA PositionsReplaced ==
  ASSUME DictInv, NEW e \in Enumor, NEW rec, enumors' = [enumors EXCEPT ![e] = rec],
         Walking(rec) => rec.next \in Nat \ {0} /\ width' # 0, width' = 0 => width = 0
  PROVE  Positions'
  <1>1. enumors'[e] = rec /\ \A x \in Enumor : x # e => enumors'[x] = enumors[x]
    BY Zenon DEF DictInv, LockInv, Shaped
  <1>2. InProgress(e)' <=> Walking(rec)
    BY <1>1, Zenon DEF InProgress, Walking
  <1>3. \A x \in Enumor : x # e => (InProgress(x)' <=> InProgress(x))
    BY <1>1, Zenon DEF InProgress
  <1>4. \A x \in Enumor : InProgress(x)' => enumors'[x].next \in Nat \ {0}
    BY <1>1, <1>2, <1>3, Zenon DEF DictInv, Positions
  <1>5. width' = 0 => \A x \in Enumor : ~InProgress(x)'
    BY <1>2, <1>3, Zenon DEF DictInv, Positions
  <1>6. QED
    BY <1>4, <1>5, Zenon DEF Positions

LEMMA UnsetBare ==
  ASSUME MirrorInv, width = 0
  PROVE  trove = <<>> /\ LiveAt(trove) = {}
  <1>1. 0 \notin Widths
    BY TuningAssumption DEF Widths
  <1>2. trove = <<>>
    BY <1>1 DEF MirrorInv, Fit, Unset
  <1>3. Len(trove) = 0
    BY <1>2
  <1>4. \A i \in 1 .. Len(trove) : FALSE
    BY <1>3
  <1>5. QED
    BY <1>2, <1>4 DEF LiveAt, LiveUpTo

\* A key that is found has an entry.
LEMMA FoundEntry ==
  ASSUME MirrorInv, NEW k \in Key, Find(k) # -1
  PROVE  /\ width # 0 /\ slots[Find(k)] \in LiveAt(trove)
         /\ Fit(width, slots, active, dummies, trove, trovedead, renames)
  <1>1. width # 0
    BY DEF Find
  <1>2. Fit(width, slots, active, dummies, trove, trovedead, renames)
    BY <1>1, SetFit
  <1>3. Find(k) \in SlotsOf(width) /\ slots[Find(k)] > 0
    BY <1>2, Found
  <1>4. QED
    BY <1>1, <1>2, <1>3, EntryOfSlot

\* Where a walk goes on, or begins.
LEMMA StartIs ==
  ASSUME DictInv, NEW e \in Enumor, ~enumors[e].ended
  PROVE  /\ StartOf(e) \in Nat
         /\ InProgress(e) => StartOf(e) = enumors[e].next /\ StartOf(e) # 0
         /\ ~InProgress(e) => \/ enumors[e].from = NoKey /\ StartOf(e) = 1
                              \/ /\ enumors[e].from \in Key /\ Find(enumors[e].from) = -1
                                 /\ StartOf(e) = 0
                              \/ /\ enumors[e].from \in Key /\ Find(enumors[e].from) # -1
                                 /\ StartOf(e) = slots[Find(enumors[e].from)]
                                 /\ StartOf(e) \in LiveAt(trove) /\ StartOf(e) # 0
  <1> DEFINE from == enumors[e].from
  <1>1. MirrorInv /\ (InProgress(e) => enumors[e].next \in Nat \ {0})
    BY DEF DictInv, KeysInv, Positions
  <1>2. from \in Key \/ from = NoKey
    <2>1. enumors \in [Enumor -> [from : Key \cup {NoKey}, started : BOOLEAN,
                                  ended : BOOLEAN, next : Nat]]
      BY <1>1 DEF MirrorInv, Rest
    <2>2. QED
      BY <2>1
  <1>3. NoKey \notin Key
    BY TuningAssumption
  <1>4. InProgress(e) <=> enumors[e].started
    BY DEF InProgress
  <1>5. CASE InProgress(e)
    <2>1. StartOf(e) = enumors[e].next
      BY <1>4, <1>5, Zenon DEF StartOf
    <2>2. QED
      BY <1>1, <1>5, <2>1
  <1>6. CASE ~InProgress(e) /\ from = NoKey
    <2>1. StartOf(e) = 1
      BY <1>4, <1>6, Zenon DEF StartOf
    <2>2. QED
      BY <1>6, <2>1
  <1>7. CASE ~InProgress(e) /\ from # NoKey
    <2>1. StartOf(e) = IF Find(from) = -1 THEN 0 ELSE slots[Find(from)]
      BY <1>4, <1>7, Zenon DEF StartOf
    <2>2. from \in Key
      BY <1>2, <1>7
    <2>3. CASE Find(from) = -1
      BY <1>7, <2>1, <2>2, <2>3
    <2>4. CASE Find(from) # -1
      <3>1. StartOf(e) \in LiveAt(trove)
        BY <1>1, <2>1, <2>2, <2>4, FoundEntry
      <3>2. Indexes(LiveAt(trove))
        BY <1>1, TroveSeq
      <3>3. StartOf(e) \in Nat \ {0}
        BY <3>1, <3>2 DEF Indexes
      <3>4. QED
        BY <1>7, <2>1, <2>2, <2>4, <3>1, <3>3
    <2>5. QED
      BY <2>3, <2>4
  <1>8. QED
    BY <1>5, <1>6, <1>7

LEMMA PositionsNext ==
  ASSUME DictInv, IsFiniteSet(Enumor), NEW e \in Enumor, EnumNext(e)
  PROVE  Positions'
  <1> DEFINE start == StartOf(e)
             found == IF start = 0 THEN 0 ELSE NextLive(start)
             goes == [from |-> enumors[e].from, started |-> TRUE,
                      ended |-> FALSE, next |-> found + 1]
             ends == [from |-> enumors[e].from, ended |-> TRUE,
                      started |-> enumors[e].started, next |-> 0]
  <1>1. MirrorInv /\ trove \in Seq(Entry) /\ Indexes(LiveAt(trove))
    BY TroveSeq DEF DictInv, KeysInv
  <1>2. CASE UNCHANGED <<width, enumors>>
    BY <1>2, PositionsKept
  <1>3. CASE /\ ~enumors[e].ended /\ found # 0
             /\ enumors' = [enumors EXCEPT ![e] = goes] /\ width' = width
    <2>1. start \in Nat \ {0} /\ found = NextLive(start)
      BY <1>3, StartIs
    <2>2. found \in LiveAt(trove) /\ found \in Nat \ {0}
      <3> HIDE DEF start
      <3>1. NextLive(start) # 0
        BY <1>3, <2>1
      <3>2. NextLive(start) \in LiveAt(trove) /\ NextLive(start) \in Nat \ {0}
        BY <1>1, <2>1, <3>1, NextLiveIs
      <3>3. QED
        BY <2>1, <3>2
    <2> HIDE DEF found
    <2>3. width # 0
      BY <1>1, <2>2, UnsetBare
    <2>4. goes.next \in Nat \ {0}
      BY <2>2
    <2> HIDE DEF goes
    <2>5. QED
      BY <1>3, <2>3, <2>4, PositionsReplaced
  <1>4. CASE /\ enumors' = [enumors EXCEPT ![e] = ends] /\ (width' = 0 => width = 0)
    <2>1. ~Walking(ends)
      BY DEF Walking
    <2> HIDE DEF ends
    <2>2. QED
      BY <1>4, <2>1, PositionsReplaced
  <1>5. \/ UNCHANGED <<width, enumors>>
        \/ /\ ~enumors[e].ended /\ found # 0
           /\ enumors' = [enumors EXCEPT ![e] = goes] /\ width' = width
        \/ /\ enumors' = [enumors EXCEPT ![e] = ends]
           /\ DecreaseSessionCount(sessions - 1) \/ width' = width
    BY Zenon DEF EnumNext, slotVars
  <1>6. (DecreaseSessionCount(sessions - 1) \/ width' = width) => (width' = 0 => width = 0)
    BY WidthDecreased
  <1>7. QED
    BY <1>2, <1>3, <1>4, <1>5, <1>6

LEMMA PositionsReset ==
  ASSUME DictInv, NEW e \in Enumor, NEW from, EnumReset(e, from)
  PROVE  Positions'
  <1>1. enumors' = [enumors EXCEPT ![e] = FreshEnumor(from)]
    BY DEF EnumReset
  <1>2. ~Walking(FreshEnumor(from))
    BY DEF Walking, FreshEnumor
  <1>3. DecreaseSessionCount(SessionsAfterReset(e)) \/ width' = width
    BY Zenon DEF EnumReset, slotVars
  <1>4. width' = 0 => width = 0
    BY <1>3, WidthDecreased
  <1>5. QED
    BY <1>1, <1>2, <1>4, PositionsReplaced

LEMMA PositionsCopied ==
  ASSUME DictInv, "EnumCopyWalking" \notin Calls, NEW e \in Enumor, NEW e2 \in Enumor,
         EnumCopy(e, e2)
  PROVE  Positions'
  <1>1. enumors' = [enumors EXCEPT ![e2] = enumors[e]] /\ ~InProgress(e) /\ width' = width
    BY Zenon DEF EnumCopy, dictVars
  <1>2. ~Walking(enumors[e])
    BY <1>1, Zenon DEF Walking, InProgress
  <1>3. QED
    BY <1>1, <1>2, PositionsReplaced

LEMMA NextKeepsPositions ==
  ASSUME DictInv, IsFiniteSet(Enumor), "EnumCopyWalking" \notin Calls, [Next]_vars
  PROVE  Positions'
  <1> DEFINE Stays == UNCHANGED enumors /\ (width' = 0 => width = 0 \/ sessions <= 0)
  <1>1. MirrorInv
    BY DEF DictInv, KeysInv
  <1>2. CASE UNCHANGED vars
    BY <1>2, PositionsKept DEF vars
  <1>3. ASSUME NEW r, Answers(r) PROVE Stays
    BY <1>3 DEF Answers, dictVars
  <1>4. ASSUME NEW k \in Key, NEW v \in Value, NEW overwrite \in BOOLEAN,
               SetKey(k, v, overwrite)
        PROVE  Stays
    <2>1. UNCHANGED enumors
      BY <1>4, Zenon DEF SetKey
    <2>2. width' = 0 => width = 0
      BY <1>1, <1>4, WidthSized
    <2>3. QED
      BY <2>1, <2>2
  <1>5. ASSUME NEW k \in Key, Get(k) PROVE Stays
    BY <1>3, <1>5 DEF Get
  <1>6. ASSUME NEW k \in Key, Del(k) PROVE Stays
    <2>1. \/ \E r : Answers(r)
          \/ /\ UNCHANGED enumors
             /\ \E sl, ac, dm, tr, dead : CheckToCompact(sessions, sl, ac, dm, tr, dead)
      BY <1>6, Zenon DEF Del
    <2>2. QED
      BY <1>3, <2>1, WidthChecked
  <1>7. ASSUME NEW k \in Key, NEW new \in Key, KeyRename(k, new) PROVE Stays
    <2>1. (\E r : Answers(r)) \/ UNCHANGED <<width, enumors>>
      BY <1>7, Zenon DEF KeyRename
    <2>2. QED
      BY <1>3, <2>1
  <1>8. CASE Compact \/ Clear
    <2>1. (\E r : Answers(r)) \/ (UNCHANGED enumors /\ sessions <= 0)
      BY <1>8, Zenon DEF Compact, Clear
    <2>2. Stays
      BY <1>3, <2>1
    <2>3. QED
      BY <2>2, PositionsKept
  <1>9. CASE CopyDict \/ (\E pct \in HungrySlots : SetDbgParams(pct))
    <2>1. UNCHANGED <<width, enumors>>
      BY <1>9, Zenon DEF CopyDict, SetDbgParams, slotVars
    <2>2. QED
      BY <2>1, PositionsKept
  <1>10. CASE GetKeys
    <2>1. UNCHANGED enumors /\ (width' = width \/ DecreaseSessionCount(sessions))
      BY <1>10, Zenon DEF GetKeys, slotVars
    <2>2. width' = 0 => width = 0
      BY <2>1, WidthDecreased
    <2>3. QED
      BY <2>1, <2>2, PositionsKept
  <1>11. ASSUME NEW e \in Enumor,
                EnumNext(e) \/ (\E from \in FromKeys : EnumReset(e, from))
                  \/ (\E e2 \in Enumor : EnumCopy(e, e2))
         PROVE  Positions'
    BY <1>11, PositionsNext, PositionsReset, PositionsCopied
  <1>12. Stays => Positions'
    BY PositionsKept
  <1> HIDE DEF Stays
  <1>13. QED
    BY <1>2, <1>4, <1>5, <1>6, <1>7, <1>8, <1>9, <1>10, <1>11, <1>12, Zenon DEF Next

LEMMA InitDict ==
  ASSUME Init
  PROVE  DictInv
  <1>1. KeysInv
    <2>1. MirrorInv
      BY InitMirrors
    <2>2. width = 0
      BY DEF Init
    <2>3. LiveAt(trove) = {}
      BY <2>1, <2>2, UnsetBare
    <2>4. QED
      BY <2>1, <2>3 DEF KeysInv, Distinct
  <1>2. \A e \in Enumor : ~InProgress(e)
    BY DEF Init, InProgress, FreshEnumor
  <1>3. QED
    BY <1>1, <1>2, InitLock DEF DictInv, Positions

LEMMA NextKeepsDict ==
  ASSUME DictInv, IsFiniteSet(Enumor), "EnumCopyWalking" \notin Calls, ProbesCover, [Next]_vars
  PROVE  DictInv'
  <1>1. KeysInv'
    BY NextKeepsMirrors, NextKeepsDistinct DEF DictInv, KeysInv
  <1>2. LockInv'
    BY NextLock DEF DictInv
  <1>3. QED
    BY <1>1, <1>2, NextKeepsPositions DEF DictInv

--------------------------------------------------------------------------------
(***************************************************************************)
(* Where a probe for a key comes to rest says whether the key is there.    *)
(***************************************************************************)
Stops(w, sl, k, at) == at = Landing(Paths[w][k], Holders(sl, k) \cup Empties(sl)) /\ at # Never

LEMMA Search ==
  ASSUME NEW w, NEW sl, NEW ac, NEW dm, NEW dead, NEW ren,
         Fit(w, sl, ac, dm, trove, dead, ren), NEW k \in Key, NEW at,
         Stops(w, sl, k, at)
  PROVE  /\ at \in 1 .. GiveUp + Pow2[w] /\ Paths[w][k][at] \in SlotsOf(w)
         /\ \/ /\ sl[Paths[w][k][at]] = SlotEmpty
               /\ \A i \in LiveAt(trove) : trove[i].key # k
            \/ /\ sl[Paths[w][k][at]] > 0
               /\ sl[Paths[w][k][at]] \in LiveAt(trove)
               /\ trove[sl[Paths[w][k][at]]].key = k
  <1> DEFINE path == Paths[w][k]
             S == Holders(sl, k) \cup Empties(sl)
  <1>1. w \in Widths /\ DOMAIN sl = SlotsOf(w)
    BY FitRoom DEF Fit
  <1>2. S \subseteq SlotsOf(w)
    BY <1>1 DEF Holders, Empties, InUse
  <1>3. /\ at \in 1 .. GiveUp + Pow2[w] /\ at \in 1 .. PathLength(w)
        /\ path[at] \in S /\ \A i \in 1 .. at - 1 : path[i] \notin S
    <2> HIDE DEF S
    <2>1. at = Landing(path, S) /\ at # Never
      BY DEF S, Stops
    <2>2. LET p  == Paths[w][k]
              at2 == Landing(p, S)
          IN  \/ S = {} /\ at2 = Never
              \/ /\ S # {} /\ at2 \in 1 .. GiveUp + Pow2[w] /\ at2 \in 1 .. PathLength(w)
                 /\ at2 # Never /\ p[at2] \in S
                 /\ \A i \in 1 .. at2 - 1 : p[i] \notin S
      BY <1>1, <1>2, Lands
    <2>3. QED
      BY <2>1, <2>2, Zenon
  <1>4. PathLength(w) \in Nat
    BY <1>1, WidthFacts
  <1>5. path[at] \in SlotsOf(w)
    BY <1>2, <1>3
  <1>6. CASE path[at] \in Holders(sl, k)
    <2>1. sl[path[at]] > 0 /\ trove[sl[path[at]]].key = k
      BY <1>6 DEF Holders, InUse
    <2>2. sl[path[at]] \in LiveAt(trove)
      BY <1>5, <2>1, EntryOfSlot
    <2>3. QED
      BY <1>3, <1>5, <2>1, <2>2
  <1>7. CASE path[at] \in Empties(sl)
    <2>1. sl[path[at]] = SlotEmpty
      BY <1>7 DEF Empties
    <2>2. ASSUME NEW i \in LiveAt(trove), trove[i].key = k
          PROVE  FALSE
      <3>1. PICK s \in SlotsOf(w) : sl[s] = i /\ i > 0 /\ OnPath(w, sl, trove[i].key, s)
        BY SlotOfEntry
      <3>2. PICK a \in 1 .. PathLength(w) :
              path[a] = s /\ \A j \in 1 .. a - 1 : sl[path[j]] # SlotEmpty
        BY <2>2, <3>1 DEF OnPath
      <3>3. s \in S
        BY <1>1, <2>2, <3>1 DEF Holders, InUse
      <3> HIDE DEF S, path
      <3>4. CASE a < at
        <4>1. a \in 1 .. at - 1
          BY <1>3, <1>4, <3>2, <3>4
        <4>2. QED
          BY <1>3, <3>2, <3>3, <4>1
      <3>5. CASE a = at
        BY <2>1, <3>1, <3>2, <3>5 DEF SlotEmpty
      <3>6. CASE a > at
        <4>1. at \in 1 .. a - 1
          BY <1>3, <1>4, <3>2, <3>6
        <4>2. QED
          BY <2>1, <3>2, <4>1
      <3>7. QED
        BY <1>3, <1>4, <3>2, <3>4, <3>5, <3>6
    <2>3. \A i \in LiveAt(trove) : trove[i].key # k
      BY <2>2
    <2>4. QED
      BY <1>3, <1>5, <2>1, <2>3
  <1>8. QED
    BY <1>3, <1>6, <1>7

\* With an empty slot, or the key, there is always such a place.
LEMMA SearchEnds ==
  ASSUME NEW w, NEW sl, NEW ac, NEW dm, NEW tr, NEW dead, NEW ren,
         Fit(w, sl, ac, dm, tr, dead, ren), NEW k \in Key, Empties(sl) # {}
  PROVE  Landing(Paths[w][k], Holders(sl, k) \cup Empties(sl)) # Never
  <1> DEFINE S == Holders(sl, k) \cup Empties(sl)
  <1>1. w \in Widths /\ DOMAIN sl = SlotsOf(w)
    BY FitRoom DEF Fit
  <1>2. S \subseteq SlotsOf(w) /\ S # {}
    BY <1>1 DEF Holders, Empties, InUse
  <1> HIDE DEF S
  <1>3. Landing(Paths[w][k], S) # Never
    BY <1>1, <1>2, Lands
  <1>4. QED
    BY <1>3 DEF S

\* SetKey() gives up no sooner than that.
LEMMA SetSearch ==
  ASSUME NEW sized, NEW ac, NEW dm, NEW dead, NEW ren,
         Fit(sized.width, sized.slots, ac, dm, trove, dead, ren),
         NEW k \in Key, Empties(sized.slots) # {}
  PROVE  /\ SetLanding(sized, k) # Never
         /\ SetLanding(sized, k)
              = Landing(Paths[sized.width][k], Holders(sized.slots, k) \cup Empties(sized.slots))
  <1> DEFINE w == sized.width
             sl == sized.slots
             path == Paths[w][k]
             at == Landing(path, Holders(sl, k) \cup Empties(sl))
             n == GiveUp + Pow2[w]
  <1>1. w \in Widths
    BY DEF Fit
  <1>2. at # Never
    BY SearchEnds
  <1>3. at \in 1 .. n
    <2>1. Stops(w, sl, k, at)
      BY <1>2 DEF Stops
    <2> HIDE DEF at
    <2>2. QED
      BY <2>1, Search
  <1>4. SetLanding(sized, k) = IF at < WrapAfter(path, n) THEN at ELSE Never
    BY DEF SetLanding
  <1>5. GiveUp \in Nat /\ Pow2[w] \in Nat \ {0} /\ PathLength(w) = GiveUp + 3 + 2 * Pow2[w]
    BY <1>1, WidthFacts, TuningAssumption DEF PathLength
  <1>6. WrapAfter(path, n) \in n + 3 .. PathLength(w)
    <2>1. n \in Nat /\ GiveUp <= n /\ n + 2 + Pow2[w] <= PathLength(w)
      BY <1>5
    <2> HIDE DEF n
    <2>2. QED
      BY <1>1, <2>1, WrapIs
  <1> HIDE DEF at
  <1>7. at < WrapAfter(path, n)
    <2> DEFINE wr == WrapAfter(path, n)
    <2>1. wr \in n + 3 .. PathLength(w)
      BY <1>6
    <2> HIDE DEF wr
    <2>2. at < wr
      BY <1>3, <1>5, <2>1
    <2>3. QED
      BY <2>2 DEF wr
  <1>8. SetLanding(sized, k) = at
    BY <1>4, <1>7, Zenon
  <1>9. QED
    BY <1>2, <1>8 DEF at

--------------------------------------------------------------------------------
(***************************************************************************)
(* The calls as the client sees them, one by one.                          *)
(***************************************************************************)
LEMMA SameSeen ==
  ASSUME UNCHANGED <<trove, enumors>>
  PROVE  Entries' = Entries /\ Walks' = Walks
  <1>1. trove' = trove /\ enumors' = enumors
    OBVIOUS
  <1>2. Entries' = Entries
    BY <1>1, Zenon DEF Entries
  <1>3. \A e \in Enumor : Walk(e)' = Walk(e)
    BY <1>1, Zenon DEF Walk, InProgress, Passed
  <1>4. QED
    BY <1>2, <1>3, Zenon DEF Walks

\* in_get() and the client agree on which keys are there.
LEMMA FindSeen ==
  ASSUME KeysInv, ProbesCover, NEW k \in Key
  PROVE  /\ Find(k) = -1 => k \notin Dict!Keys
         /\ Find(k) # -1 => /\ k \in Dict!Keys /\ slots[Find(k)] \in LiveAt(trove)
                            /\ trove[slots[Find(k)]].key = k
                            /\ Dict!At(k) = Place(LiveAt(trove), slots[Find(k)]) + 1
                            /\ Dict!At(k) \in 1 .. Len(Entries)
                            /\ Entries[Dict!At(k)] = trove[slots[Find(k)]]
                            /\ Dict!Val(k) = trove[slots[Find(k)]].val
  <1>1. MirrorInv /\ Distinct(trove)
    BY DEF KeysInv
  <1>2. CASE Find(k) = -1
    <2>1. \A i \in LiveAt(trove) : trove[i].key # k
      <3>1. CASE width = 0
        BY <1>1, <3>1, UnsetBare
      <3>2. CASE width # 0
        BY <1>1, <1>2, <3>2, SetFit, NotThere
      <3>3. QED
        BY <3>1, <3>2
    <2>2. QED
      BY <1>2, <2>1, DictHasNot
  <1>3. CASE Find(k) # -1
    <2> DEFINE i == slots[Find(k)]
               at == Landing(Paths[width][k], Holders(slots, k) \cup Empties(slots))
    <2>1. /\ i \in LiveAt(trove)
          /\ Fit(width, slots, active, dummies, trove, trovedead, renames)
      BY <1>1, <1>3, FoundEntry
    <2>2. /\ Find(k) = Paths[width][k][at] /\ Find(k) \in InUse(slots)
          /\ at < WrapAfter(Paths[width][k], GiveUp)
      BY <1>3, Zenon DEF Find
    <2>3. at # Never
      <3>1. width \in Widths
        BY <2>1 DEF Fit
      <3>2. WrapAfter(Paths[width][k], GiveUp) \in GiveUp + 3 .. PathLength(width)
        <4>1. GiveUp \in Nat /\ GiveUp + 2 + Pow2[width] <= PathLength(width)
          BY <3>1, WidthFacts, TuningAssumption DEF PathLength
        <4>2. QED
          BY <3>1, <4>1, WrapIs
      <3>3. PathLength(width) < Never /\ Never \in Nat /\ GiveUp \in Nat /\ PathLength(width) \in Nat
        BY <3>1, WidthFacts, TuningAssumption
      <3> HIDE DEF at
      <3>4. SUFFICES ASSUME at = Never PROVE FALSE
        OBVIOUS
      <3>5. Never < WrapAfter(Paths[width][k], GiveUp)
        BY <2>2, <3>4
      <3>6. QED
        BY <3>2, <3>3, <3>5
    <2>4. slots[Find(k)] > 0
      BY <2>2 DEF InUse
    <2>5. trove[i].key = k
      <3>1. Stops(width, slots, k, at)
        BY <2>3 DEF Stops
      <3> HIDE DEF at
      <3>2. \/ slots[Paths[width][k][at]] = SlotEmpty
            \/ trove[slots[Paths[width][k][at]]].key = k
        BY <2>1, <3>1, Search
      <3>3. QED
        BY <2>2, <2>4, <3>2 DEF SlotEmpty
    <2>6. /\ k \in Dict!Keys /\ Dict!At(k) = Place(LiveAt(trove), i) + 1
          /\ Dict!At(k) \in 1 .. Len(Entries) /\ Entries[Dict!At(k)] = trove[i]
      BY <2>1, <2>5, DictHas
    <2>7. Dict!Val(k) = trove[i].val
      BY <2>6, Zenon DEF Dict!Val, Entries
    <2>8. QED
      BY <1>3, <2>1, <2>5, <2>6, <2>7, Zenon
  <1>4. QED
    BY <1>2, <1>3

LEMMA GetSeen ==
  ASSUME KeysInv, ProbesCover, NEW k \in Key, Get(k)
  PROVE  Dict!Get(k)
  <1>1. /\ ret' = IF Find(k) = -1 THEN <<"get", k>> ELSE <<"get", k, trove[slots[Find(k)]].val>>
        /\ UNCHANGED <<trove, enumors>>
    BY Zenon DEF Get, Answers, dictVars
  <1>2. Entries' = Entries /\ Walks' = Walks
    BY <1>1, SameSeen
  <1>3. ret' = IF k \in Dict!Keys THEN <<"get", k, Dict!Val(k)>> ELSE <<"get", k>>
    BY <1>1, FindSeen, Zenon
  <1>4. QED
    BY <1>2, <1>3, AnswersSeen, Zenon DEF Dict!Get

\* A trove without deleted entries is its own list.
LEMMA RowLists ==
  ASSUME NEW r \in Seq(Entry), LiveAt(r) = 1 .. Len(r)
  PROVE  Lists(r, LiveAt(r), r)
  <1> DEFINE n == Len(r)
  <1>1. n \in Nat
    OBVIOUS
  <1>2. LiveAt(r) = 1 .. n
    OBVIOUS
  <1> HIDE DEF n
  <1>3. Cardinality(1 .. n) = n
    <2>1. Cardinality(1 .. n) = IF 1 > n THEN 0 ELSE n - 1 + 1
      BY <1>1, FS_Interval
    <2>2. QED
      BY <1>1, <2>1
  <1>4. ASSUME NEW x \in 1 .. n
        PROVE  Place(1 .. n, x) + 1 = x
    <2>1. Earlier(1 .. n, x) = 1 .. x - 1
      BY <1>1 DEF Earlier
    <2>2. x - 1 \in Nat /\ x \in Nat
      BY <1>1
    <2>3. Cardinality(1 .. x - 1) = x - 1
      <3> DEFINE m == x - 1
      <3>1. m \in Nat
        BY <2>2
      <3> HIDE DEF m
      <3>2. Cardinality(1 .. m) = IF 1 > m THEN 0 ELSE m - 1 + 1
        BY <3>1, FS_Interval
      <3>3. Cardinality(1 .. m) = m
        BY <3>1, <3>2
      <3>4. QED
        BY <3>3 DEF m
    <2>4. Place(1 .. n, x) = x - 1
      BY <2>1, <2>3, Zenon DEF Place
    <2>5. QED
      BY <2>2, <2>4
  <1> DEFINE L == 1 .. n
  <1>5. \A x \in L : r[Place(L, x) + 1] = r[x]
    BY <1>4
  <1>6. \A p \in 1 .. n : \E x \in L : Place(L, x) + 1 = p
    BY <1>4
  <1>7. Len(r) = Cardinality(L) /\ Len(r) = n
    BY <1>3 DEF n
  <1> HIDE DEF L
  <1>8. Lists(r, L, r)
    BY <1>5, <1>6, <1>7, Zenon DEF Lists
  <1>9. QED
    BY <1>2, <1>8 DEF L

\* Squeezing a trove again changes nothing.
LEMMA LiveTwice ==
  ASSUME NEW tr \in Seq(Entry)
  PROVE  LiveOf(tr) \in Seq(Entry) /\ LiveOf(LiveOf(tr)) = LiveOf(tr)
  <1> DEFINE r == LiveOf(tr)
             L == LiveAt(tr)
  <1>1. Lists(r, L, tr)
    BY LiveLists
  <1>2. \A x \in L : tr[x] # Dead
    BY DEF LiveAt, LiveUpTo
  <1> HIDE DEF r, L
  <1>3. r \in Seq(Entry)
    BY <1>1 DEF Lists
  <1>4. \A p \in 1 .. Len(r) : r[p] # Dead
    BY <1>1, <1>2 DEF Lists
  <1>5. LiveAt(r) = 1 .. Len(r)
    BY <1>4 DEF LiveAt, LiveUpTo
  <1>6. Lists(r, LiveAt(r), r)
    BY <1>3, <1>5, RowLists
  <1>7. Lists(LiveOf(r), LiveAt(r), r)
    BY <1>3, LiveLists
  <1>8. LiveOf(r) = r
    BY <1>6, <1>7, ListsOnce
  <1>9. QED
    BY <1>3, <1>8 DEF r

LEMMA CompactSeen ==
  ASSUME NEW w, NEW tr \in Seq(Entry), CompactTo(w, tr)
  PROVE  Entries' = LiveOf(tr) /\ trove' \in Seq(Entry)
  <1>1. trove' = LiveOf(tr)
    BY DEF CompactTo
  <1>2. Entries' = LiveOf(LiveOf(tr))
    BY <1>1, Zenon DEF Entries
  <1>3. QED
    BY <1>1, <1>2, LiveTwice

LEMMA CheckedSeen ==
  ASSUME NEW sess, NEW sl, NEW ac, NEW dm, NEW tr \in Seq(Entry), NEW dead,
         CheckToCompact(sess, sl, ac, dm, tr, dead)
  PROVE  /\ Entries' = LiveOf(tr) /\ trove' \in Seq(Entry)
         /\ trove' = tr \/ sess = 0
  <1>1. \/ trove' = tr
        \/ sess = 0 /\ \E w : CompactTo(w, tr)
    BY Zenon DEF CheckToCompact, Postponed
  <1>2. CASE trove' = tr
    BY <1>2, Zenon DEF Entries
  <1>3. CASE sess = 0 /\ \E w : CompactTo(w, tr)
    BY <1>3, CompactSeen
  <1>4. QED
    BY <1>1, <1>2, <1>3

\* The last walk that ends may have the trove squeezed.
LEMMA DecreasedSeen ==
  ASSUME KeysInv, NEW sess, DecreaseSessionCount(sess)
  PROVE  /\ Entries' = Entries /\ trove' \in Seq(Entry)
         /\ trove' = trove \/ (sess = 0 /\ pending)
  <1>1. trove \in Seq(Entry)
    BY TroveSeq DEF KeysInv
  <1>2. CASE sess = 0 /\ pending
    <2>1. CheckToCompact(sess, slots, active, dummies, trove, trovedead)
      BY <1>2 DEF DecreaseSessionCount
    <2>2. QED
      BY <1>1, <1>2, <2>1, CheckedSeen DEF Entries
  <1>3. CASE ~(sess = 0 /\ pending)
    <2>1. trove' = trove
      BY <1>3 DEF DecreaseSessionCount, troveVars
    <2>2. QED
      BY <1>1, <2>1, Zenon DEF Entries
  <1>4. QED
    BY <1>2, <1>3

LEMMA NoEntries ==
  ASSUME NEW tr, tr = <<>>
  PROVE  LiveOf(tr) = <<>>
  <1>1. tr \in Seq(Entry) /\ Len(tr) = 0
    OBVIOUS
  <1>2. \A i \in 1 .. Len(tr) : FALSE
    BY <1>1
  <1>3. LiveAt(tr) = {}
    BY <1>2 DEF LiveAt, LiveUpTo
  <1>4. Cardinality(LiveAt(tr)) = 0
    BY <1>3, FS_EmptySet
  <1>5. LiveOf(tr) \in Seq(Entry) /\ Len(LiveOf(tr)) = Cardinality(LiveAt(tr))
    BY <1>1, LiveLists DEF Lists
  <1>6. QED
    BY <1>4, <1>5

\* One answer, whatever is squeezed, while nobody walks.
LEMMA CompactCallSeen ==
  ASSUME DictInv, IsFiniteSet(Enumor), Compact
  PROVE  Dict!Compact
  <1>1. KeysInv /\ trove \in Seq(Entry)
    BY TroveSeq DEF DictInv, KeysInv
  <1>2. Dict!Locked <=> sessions > 0
    BY LockSeen
  <1>3. CASE width # 0 /\ sessions > 0 /\ Answers(<<"compact", FALSE>>)
    <2>1. ret' = <<"compact", FALSE>> /\ UNCHANGED <<trove, enumors>>
      BY <1>3, Zenon DEF Answers, dictVars
    <2>2. Dict!Answers(<<"compact", FALSE>>)
      BY <2>1, SameSeen, AnswersSeen
    <2>3. QED
      BY <1>2, <1>3, <2>2, Zenon DEF Dict!Compact
  <1>4. CASE width = 0 /\ Answers(<<"compact", TRUE>>)
    <2>1. ret' = <<"compact", TRUE>> /\ UNCHANGED <<trove, enumors>>
      BY <1>4, Zenon DEF Answers, dictVars
    <2>2. Dict!Answers(<<"compact", TRUE>>)
      BY <2>1, SameSeen, AnswersSeen
    <2>3. ~(\E e \in Enumor : InProgress(e))
      BY <1>4, Zenon DEF DictInv, Positions
    <2>4. ~(sessions > 0)
      BY <2>3, LockedWhen
    <2>5. QED
      BY <1>2, <2>2, <2>4, Zenon DEF Dict!Compact
  <1>5. CASE /\ width # 0 /\ sessions <= 0 /\ CompactTo(CompactWidth, trove)
             /\ ret' = <<"compact", TRUE>> /\ UNCHANGED enumors
    <2>1. Entries' = Entries /\ trove' \in Seq(Entry)
      BY <1>1, <1>5, CompactSeen DEF Entries
    <2>2. (\A e \in Enumor : ~InProgress(e)) /\ ~(sessions > 0)
      BY <1>5, LockedWhen
    <2>3. Walks' = Walks
      BY <1>1, <1>5, <2>1, <2>2, WalksKept
    <2>4. Dict!Answers(<<"compact", TRUE>>)
      BY <1>5, <2>1, <2>3, AnswersSeen
    <2>5. QED
      BY <1>2, <2>2, <2>4, Zenon DEF Dict!Compact
  <1>6. QED
    BY <1>3, <1>4, <1>5, Zenon DEF Compact

LEMMA ClearSeen ==
  ASSUME DictInv, IsFiniteSet(Enumor), Clear
  PROVE  Dict!Clear
  <1>1. MirrorInv /\ trove \in Seq(Entry)
    BY TroveSeq DEF DictInv, KeysInv
  <1>2. Dict!Locked <=> sessions > 0
    BY LockSeen
  <1>3. CASE width # 0 /\ sessions > 0 /\ Answers(<<"clear", FALSE>>)
    <2>1. ret' = <<"clear", FALSE>> /\ UNCHANGED <<trove, enumors>>
      BY <1>3, Zenon DEF Answers, dictVars
    <2>2. Dict!Answers(<<"clear", FALSE>>)
      BY <2>1, SameSeen, AnswersSeen
    <2>3. QED
      BY <1>2, <1>3, <2>2, Zenon DEF Dict!Clear
  <1>4. CASE width = 0 /\ Answers(<<"clear", TRUE>>)
    <2>1. ret' = <<"clear", TRUE>> /\ UNCHANGED <<trove, enumors>>
      BY <1>4, Zenon DEF Answers, dictVars
    <2>2. trove = <<>>
      BY <1>1, <1>4, UnsetBare
    <2>3. Entries' = <<>>
      BY <2>1, <2>2, NoEntries DEF Entries
    <2>4. Walks' = Walks
      BY <2>1, SameSeen
    <2>5. ~(\E e \in Enumor : InProgress(e))
      BY <1>4, Zenon DEF DictInv, Positions
    <2>6. ~(sessions > 0)
      BY <2>5, LockedWhen
    <2>7. QED
      BY <1>2, <2>1, <2>3, <2>4, <2>6, Zenon DEF Dict!Clear, Entries, Walks, Walk
  <1>5. CASE /\ width # 0 /\ sessions <= 0 /\ trove' = <<>> /\ ret' = <<"clear", TRUE>>
             /\ UNCHANGED enumors
    <2>1. Entries' = <<>>
      BY <1>5, NoEntries DEF Entries
    <2>2. (\A e \in Enumor : ~InProgress(e)) /\ ~(sessions > 0)
      BY <1>5, LockedWhen
    <2>3. trove' \in Seq(Entry)
      BY <1>5
    <2>4. Walks' = Walks
      BY <1>1, <1>5, <2>2, <2>3, WalksKept
    <2>5. QED
      BY <1>2, <1>5, <2>1, <2>2, <2>4, Zenon DEF Dict!Clear, Entries, Walks, Walk
  <1>6. QED
    BY <1>3, <1>4, <1>5, Zenon DEF Clear

LEMMA AdministerSeen ==
  ASSUME CopyDict \/ \E pct \in HungrySlots : SetDbgParams(pct)
  PROVE  Dict!Administer
  <1>1. UNCHANGED <<trove, enumors>> /\ (ret' = <<"copy">> \/ ret' = <<"dbg">>)
    BY Zenon DEF CopyDict, SetDbgParams, troveVars
  <1>2. Dict!Answers(ret')
    BY <1>1, SameSeen, AnswersSeen
  <1>3. QED
    BY <1>1, <1>2, Zenon DEF Dict!Administer

LEMMA GetKeysSeen ==
  ASSUME DictInv, IsFiniteSet(Enumor), GetKeys
  PROVE  Dict!GetKeys
  <1>1. sessions \in Nat /\ (pending => sessions > 0)
    BY LockedWhen
  <1>2. ~(sessions = 0 /\ pending)
    BY <1>1
  <1>3. /\ ret' = <<"keys", [i \in DOMAIN Entries |-> Entries[i].key]>>
        /\ UNCHANGED <<trove, enumors>>
    BY <1>2, Zenon DEF GetKeys, DecreaseSessionCount, troveVars, Entries
  <1>4. Entries' = Entries /\ Walks' = Walks
    BY <1>3, SameSeen
  <1>5. Dict!Answers(<<"keys", [i \in DOMAIN Entries |-> Entries[i].key]>>)
    BY <1>3, <1>4, AnswersSeen
  <1>6. QED
    BY <1>5, Zenon DEF Dict!GetKeys, Entries

Swaps(g, f, e, r) == g = [f EXCEPT ![e] = r]

LEMMA ExceptIs ==
  ASSUME NEW S, NEW f, NEW g, NEW e \in S, NEW r,
         f = [x \in S |-> f[x]], g = [x \in S |-> g[x]], g[e] = r,
         \A x \in S : x # e => g[x] = f[x]
  PROVE  Swaps(g, f, e, r)
  <1>1. [f EXCEPT ![e] = r] = [x \in S |-> IF x = e THEN r ELSE f[x]]
    OBVIOUS
  <1>2. QED
    BY <1>1 DEF Swaps

\* One enumerator changes; the trove is squeezed only if no other walks.
LEMMA WalksReplaced ==
  ASSUME trove \in Seq(Entry), trove' \in Seq(Entry), Shaped(enumors), NEW e \in Enumor, NEW rec,
         enumors' = [enumors EXCEPT ![e] = rec],
         trove' = trove \/ \A x \in Enumor : x # e => ~InProgress(x)
  PROVE  Walks' = [Walks EXCEPT ![e] = WalkOf(trove', rec)]
  <1>1. enumors'[e] = rec /\ \A x \in Enumor : x # e => enumors'[x] = enumors[x]
    BY Zenon DEF Shaped
  <1>2. ASSUME NEW x \in Enumor, x # e
        PROVE  WalkOf(trove', enumors'[x]) = WalkOf(trove, enumors[x])
    <2>1. CASE trove' = trove
      BY <1>1, <1>2, <2>1, Zenon
    <2>2. CASE \A y \in Enumor : y # e => ~InProgress(y)
      <3>1. ~Walking(enumors[x]) /\ enumors'[x] = enumors[x]
        BY <1>1, <1>2, <2>2, Zenon DEF InProgress, Walking
      <3>2. QED
        BY <3>1, Zenon DEF WalkOf
    <2>3. QED
      BY <2>1, <2>2
  <1>3. Walks = [x \in Enumor |-> WalkOf(trove, enumors[x])]
    BY WalksAre
  <1>4. Walks' = [x \in Enumor |-> WalkOf(trove', enumors'[x])]
    BY WalksAreNext
  <1> DEFINE f == [x \in Enumor |-> WalkOf(trove, enumors[x])]
             g == [x \in Enumor |-> WalkOf(trove', enumors'[x])]
             r == WalkOf(trove', rec)
  <1>5. DOMAIN f = Enumor /\ DOMAIN g = Enumor
    BY Zenon
  <1>6. g[e] = r /\ \A x \in Enumor : x # e => g[x] = f[x]
    BY <1>1, <1>2, Zenon
  <1>7. f = [x \in Enumor |-> f[x]] /\ g = [x \in Enumor |-> g[x]]
    OBVIOUS
  <1> HIDE DEF f, g, r
  <1>8. Swaps(g, f, e, r)
    BY <1>6, <1>7, ExceptIs
  <1>9. QED
    BY <1>3, <1>4, <1>8, Zenon DEF f, g, r, Swaps

\* When one walk is all there is, nobody else walks.
LEMMA LastWalk ==
  ASSUME DictInv, IsFiniteSet(Enumor), NEW e \in Enumor, InProgress(e), sessions - 1 = 0
  PROVE  \A x \in Enumor : x # e => ~InProgress(x)
  <1> DEFINE T == {x \in Enumor : InProgress(x)}
  <1>1. T \in SUBSET Enumor /\ e \in T
    OBVIOUS
  <1>2. sessions = Cardinality(T)
    BY DEF DictInv, LockInv, SessionsExact
  <1>3. \A x \in Enumor : InProgress(x) => x \in T
    OBVIOUS
  <1> HIDE DEF T
  <1>4. Cardinality(T \ {e}) = Cardinality(T) - 1
    BY <1>1, OneLess
  <1>5. IsFiniteSet(T)
    BY <1>1, SomeCount
  <1>6. IsFiniteSet(T \ {e})
    BY <1>5, FS_Subset
  <1>7. T \ {e} = {}
    <2>1. Cardinality(T \ {e}) = 0
      BY <1>2, <1>4
    <2>2. QED
      BY <1>6, <2>1, FS_EmptySet
  <1>8. QED
    BY <1>3, <1>7

\* What a walk's end does to the others and to the entries.
LEMMA WalkEndsSeen ==
  ASSUME DictInv, IsFiniteSet(Enumor), NEW e \in Enumor, NEW rec,
         enumors' = [enumors EXCEPT ![e] = rec],
         \/ InProgress(e) /\ DecreaseSessionCount(sessions - 1)
         \/ UNCHANGED trove
  PROVE  Entries' = Entries /\ Walks' = [Walks EXCEPT ![e] = WalkOf(trove', rec)]
  <1>1. KeysInv /\ Shaped(enumors) /\ trove \in Seq(Entry)
    BY TroveSeq DEF DictInv, LockInv, KeysInv
  <1>2. CASE trove' = trove
    <2>1. Entries' = Entries
      BY <1>2, Zenon DEF Entries
    <2>2. QED
      BY <1>1, <1>2, <2>1, WalksReplaced
  <1>3. CASE InProgress(e) /\ DecreaseSessionCount(sessions - 1)
    <2>1. /\ Entries' = Entries /\ trove' \in Seq(Entry)
          /\ trove' = trove \/ (sessions - 1 = 0 /\ pending)
      BY <1>1, <1>3, DecreasedSeen
    <2>2. trove' = trove \/ \A x \in Enumor : x # e => ~InProgress(x)
      BY <1>3, <2>1, LastWalk
    <2>3. QED
      BY <1>1, <2>1, <2>2, WalksReplaced
  <1>4. QED
    BY <1>2, <1>3

LEMMA ResetSeen ==
  ASSUME DictInv, IsFiniteSet(Enumor), NEW e \in Enumor, NEW from, EnumReset(e, from)
  PROVE  Dict!EnumReset(e, from)
  <1>1. /\ enumors' = [enumors EXCEPT ![e] = FreshEnumor(from)] /\ ret' = <<"reset", e>>
        /\ (InProgress(e) /\ DecreaseSessionCount(sessions - 1)) \/ UNCHANGED trove
    BY Zenon DEF EnumReset, SessionsAfterReset, troveVars
  <1>2. Entries' = Entries /\ Walks' = [Walks EXCEPT ![e] = WalkOf(trove', FreshEnumor(from))]
    BY <1>1, WalkEndsSeen
  <1>3. WalkOf(trove', FreshEnumor(from)) = Dict!Fresh(from)
    <2>1. FreshEnumor(from).from = from /\ FreshEnumor(from).ended = FALSE
      BY DEF FreshEnumor
    <2>2. Walking(FreshEnumor(from)) = FALSE
      BY DEF FreshEnumor, Walking
    <2>3. QED
      BY <2>1, <2>2, Zenon DEF WalkOf, Dict!Fresh
  <1>4. QED
    BY <1>1, <1>2, <1>3, Zenon DEF Dict!EnumReset, Entries, Walks, Walk

LEMMA CopySeen ==
  ASSUME DictInv, IsFiniteSet(Enumor), NEW e \in Enumor, NEW e2 \in Enumor, EnumCopy(e, e2)
  PROVE  Dict!EnumCopy(e, e2)
  <1>1. /\ enumors' = [enumors EXCEPT ![e2] = enumors[e]] /\ ret' = <<"reset", e2>>
        /\ UNCHANGED trove
    BY Zenon DEF EnumCopy, dictVars
  <1>2. Entries' = Entries /\ Walks' = [Walks EXCEPT ![e2] = WalkOf(trove', enumors[e])]
    BY <1>1, WalkEndsSeen
  <1>3. trove \in Seq(Entry)
    BY TroveSeq DEF DictInv, KeysInv
  <1>4. WalkOf(trove', enumors[e]) = Walks[e]
    BY <1>1, <1>3, WalksAre, Zenon
  <1>5. QED
    BY <1>1, <1>2, <1>4, Zenon DEF Dict!EnumCopy, Entries, Walks, Walk

--------------------------------------------------------------------------------
(***************************************************************************)
(* Enumerating as the client sees it.                                      *)
(***************************************************************************)
\* A walk's record, and a walk that goes on or ends.
Rec(a, g, d, p)  == [from |-> a, going |-> g, ended |-> d, passed |-> p]
Goes(h, f, e, g, p)    == h = [f EXCEPT ![e].going = g, ![e].passed = p]
Ends(h, f, e, g, d, p) == h = [f EXCEPT ![e].going = g, ![e].ended = d, ![e].passed = p]

LEMMA GoesIs ==
  ASSUME NEW f, NEW e, NEW a, NEW g, NEW d, NEW p, f[e] = Rec(a, g, d, p),
         NEW g2, NEW p2, NEW h, Swaps(h, f, e, Rec(a, g2, d, p2))
  PROVE  Goes(h, f, e, g2, p2)
  <1> DEFINE x == f[e]
  <1>1. [f EXCEPT ![e].going = g2, ![e].passed = p2]
          = [f EXCEPT ![e] = [x EXCEPT !.going = g2, !.passed = p2]]
    OBVIOUS
  <1> HIDE DEF x
  <1>2. x = Rec(a, g, d, p)
    BY DEF x
  <1>3. [x EXCEPT !.going = g2, !.passed = p2] = Rec(a, g2, d, p2)
    <2> DEFINE y == [x EXCEPT !.going = g2]
    <2>1. y = Rec(a, g2, d, p)
      BY <1>2 DEF Rec
    <2>2. [x EXCEPT !.going = g2, !.passed = p2] = [y EXCEPT !.passed = p2]
      OBVIOUS
    <2> HIDE DEF y
    <2>3. [y EXCEPT !.passed = p2] = Rec(a, g2, d, p2)
      BY <2>1 DEF Rec
    <2>4. QED
      BY <2>2, <2>3, Zenon
  <1>4. QED
    BY <1>1, <1>3, Zenon DEF Swaps, Goes

LEMMA EndsIs ==
  ASSUME NEW f, NEW e, NEW a, NEW g, NEW d, NEW p, f[e] = Rec(a, g, d, p),
         NEW g2, NEW d2, NEW p2, NEW h, Swaps(h, f, e, Rec(a, g2, d2, p2))
  PROVE  Ends(h, f, e, g2, d2, p2)
  <1> DEFINE x == f[e]
  <1>1. [f EXCEPT ![e].going = g2, ![e].ended = d2, ![e].passed = p2]
          = [f EXCEPT ![e] = [x EXCEPT !.going = g2, !.ended = d2, !.passed = p2]]
    OBVIOUS
  <1> HIDE DEF x
  <1>2. x = Rec(a, g, d, p)
    BY DEF x
  <1>3. [x EXCEPT !.going = g2, !.ended = d2, !.passed = p2] = Rec(a, g2, d2, p2)
    <2> DEFINE y == [x EXCEPT !.going = g2]
               z == [y EXCEPT !.ended = d2]
    <2>1. y = Rec(a, g2, d, p)
      BY <1>2 DEF Rec
    <2>2. [x EXCEPT !.going = g2, !.ended = d2, !.passed = p2] = [z EXCEPT !.passed = p2]
      OBVIOUS
    <2> HIDE DEF y
    <2>3. z = Rec(a, g2, d2, p)
      BY <2>1 DEF Rec
    <2> HIDE DEF z
    <2>4. [z EXCEPT !.passed = p2] = Rec(a, g2, d2, p2)
      BY <2>3 DEF Rec
    <2>5. QED
      BY <2>2, <2>4, Zenon
  <1>4. QED
    BY <1>1, <1>3, Zenon DEF Swaps, Ends

\* Where the client expects a walk to go on.
DictStart(e) ==
  IF Walks[e].going THEN Walks[e].passed
  ELSE IF Walks[e].from = NoKey THEN 0
  ELSE IF Walks[e].from \in Dict!Keys THEN Dict!At(Walks[e].from) - 1
  ELSE Len(Entries)

LEMMA StartSeen ==
  ASSUME DictInv, ProbesCover, NEW e \in Enumor, ~enumors[e].ended
  PROVE  DictStart(e) = IF StartOf(e) = 0 THEN Len(Entries) ELSE Place(LiveAt(trove), StartOf(e))
  <1>1. KeysInv /\ trove \in Seq(Entry) /\ Indexes(LiveAt(trove))
    BY TroveSeq DEF DictInv, KeysInv
  <1>2. Walks[e] = WalkOf(trove, enumors[e])
    BY <1>1, WalksAre, Zenon
  <1>3. /\ Walks[e].from = enumors[e].from
        /\ InProgress(e) => Walks[e].going /\ Walks[e].passed = Place(LiveAt(trove), enumors[e].next)
        /\ ~InProgress(e) => ~Walks[e].going
    <2> DEFINE w == WalkOf(trove, enumors[e])
    <2>1. w.from = enumors[e].from
      BY Zenon DEF WalkOf
    <2>2. w.going = Walking(enumors[e])
      BY Zenon DEF WalkOf
    <2>3. Walking(enumors[e]) => w.passed = Place(LiveAt(trove), enumors[e].next)
      BY Zenon DEF WalkOf
    <2>4. InProgress(e) <=> Walking(enumors[e])
      BY Zenon DEF InProgress, Walking
    <2> HIDE DEF w
    <2>5. Walks[e] = w
      BY <1>2, Zenon DEF w
    <2>6. QED
      BY <2>1, <2>2, <2>3, <2>4, <2>5, Zenon
  <1>4. CASE InProgress(e)
    <2>1. StartOf(e) = enumors[e].next /\ StartOf(e) # 0
      BY <1>4, StartIs
    <2>2. DictStart(e) = Place(LiveAt(trove), enumors[e].next)
      BY <1>3, <1>4, Zenon DEF DictStart
    <2>3. QED
      BY <2>1, <2>2
  <1>5. CASE ~InProgress(e) /\ enumors[e].from = NoKey
    <2>1. StartOf(e) = 1
      <3>1. NoKey \notin Key
        BY TuningAssumption
      <3>2. QED
        BY <1>5, <3>1, StartIs
    <2>2. DictStart(e) = 0
      BY <1>3, <1>5, Zenon DEF DictStart
    <2>3. Place(LiveAt(trove), 1) = 0
      <3>1. Earlier(LiveAt(trove), 1) = {}
        BY <1>1 DEF Earlier, Indexes
      <3>2. QED
        BY <3>1, FS_EmptySet DEF Place
    <2>4. QED
      BY <2>1, <2>2, <2>3
  <1>6. CASE ~InProgress(e) /\ enumors[e].from # NoKey /\ Find(enumors[e].from) = -1
    <2> DEFINE k == enumors[e].from
    <2>1. k \in Key /\ StartOf(e) = 0
      BY <1>6, StartIs
    <2>2. k \notin Dict!Keys
      BY <1>1, <1>6, <2>1, FindSeen
    <2>3. DictStart(e) = Len(Entries)
      BY <1>3, <1>6, <2>2, Zenon DEF DictStart
    <2>4. QED
      BY <2>1, <2>3
  <1>7. CASE ~InProgress(e) /\ enumors[e].from # NoKey /\ Find(enumors[e].from) # -1
    <2> DEFINE k == enumors[e].from
    <2>1. k \in Key /\ StartOf(e) = slots[Find(k)] /\ StartOf(e) # 0
      BY <1>7, StartIs
    <2>2. k \in Dict!Keys /\ Dict!At(k) = Place(LiveAt(trove), slots[Find(k)]) + 1
      BY <1>1, <1>7, <2>1, FindSeen
    <2>3. DictStart(e) = Dict!At(k) - 1
      BY <1>3, <1>7, <2>2, Zenon DEF DictStart
    <2>4. Place(LiveAt(trove), slots[Find(k)]) \in Nat
      BY <1>1, PlaceNat
    <2>5. QED
      BY <2>1, <2>2, <2>3, <2>4
  <1>8. QED
    BY <1>4, <1>5, <1>6, <1>7

LEMMA WalkIsRec ==
  ASSUME DictInv, NEW e \in Enumor
  PROVE  Walks[e] = Rec(enumors[e].from, Walking(enumors[e]), enumors[e].ended, Walks[e].passed)
  <1>1. trove \in Seq(Entry)
    BY TroveSeq DEF DictInv, KeysInv
  <1>2. Walks[e] = WalkOf(trove, enumors[e])
    BY <1>1, WalksAre, Zenon
  <1> DEFINE p == IF Walking(enumors[e]) THEN Place(LiveAt(trove), enumors[e].next) ELSE 0
  <1>3. WalkOf(trove, enumors[e]) = Rec(enumors[e].from, Walking(enumors[e]), enumors[e].ended, p)
    BY Zenon DEF WalkOf, Rec
  <1>4. WalkOf(trove, enumors[e]).passed = p
    BY Zenon DEF WalkOf
  <1>5. QED
    BY <1>2, <1>3, <1>4, Zenon

\* A walk takes the next entry.
LEMMA TakesSeen ==
  ASSUME DictInv, IsFiniteSet(Enumor), ProbesCover, NEW e \in Enumor, ~enumors[e].ended,
         StartOf(e) # 0, NextLive(StartOf(e)) # 0, UNCHANGED trove, NEW rec,
         rec = [from |-> enumors[e].from, started |-> TRUE, ended |-> FALSE,
                next |-> NextLive(StartOf(e)) + 1],
         enumors' = [enumors EXCEPT ![e] = rec]
  PROVE  /\ Entries' = Entries /\ Goes(Walks', Walks, e, TRUE, DictStart(e) + 1)
         /\ DictStart(e) < Len(Entries)
         /\ Entries[DictStart(e) + 1].key = trove[NextLive(StartOf(e))].key
  <1> DEFINE s == StartOf(e)
             n == NextLive(s)
             L == LiveAt(trove)
             up == TRUE
             down == FALSE
  <1>1. /\ trove \in Seq(Entry) /\ Indexes(L) /\ Lists(Entries, L, trove)
    BY TroveSeq DEF DictInv, KeysInv
  <1>2. s \in Nat \ {0}
    BY StartIs
  <1>3. n \in L /\ n \in Nat \ {0} /\ s <= n /\ \A x \in L : ~(s <= x /\ x < n)
    <2> HIDE DEF s, L
    <2>1. L = LiveAt(trove) /\ n # 0
      BY DEF L, s
    <2>2. QED
      BY <1>1, <1>2, <2>1, NextLiveIs
  <1>4. DictStart(e) = Place(L, s)
    BY StartSeen
  <1>5. Place(L, s) = Place(L, n) /\ Place(L, n + 1) = Place(L, n) + 1 /\ Place(L, n) \in Nat
    <2> HIDE DEF s, n, L
    <2>1. Place(L, s) = Place(L, n)
      BY <1>1, <1>2, <1>3, PlaceSkips
    <2>2. QED
      BY <1>1, <1>3, <2>1, PlaceAfter, PlaceNat
  <1>6. Entries' = Entries /\ Walks' = [Walks EXCEPT ![e] = WalkOf(trove', rec)]
    BY WalkEndsSeen
  <1>7. WalkOf(trove', rec) = Rec(enumors[e].from, up, down, DictStart(e) + 1)
    <2>1. rec.from = enumors[e].from /\ rec.ended = FALSE /\ rec.next = n + 1
      OBVIOUS
    <2>2. Walking(rec) = TRUE
      BY DEF Walking
    <2> HIDE DEF n, L, s
    <2>3. WalkOf(trove', rec) = Rec(enumors[e].from, TRUE, FALSE, Place(LiveAt(trove'), n + 1))
      BY <2>1, <2>2, Zenon DEF WalkOf, Rec
    <2>4. Place(LiveAt(trove'), n + 1) = DictStart(e) + 1
      BY <1>4, <1>5, Zenon DEF L
    <2>5. QED
      BY <2>3, <2>4, Zenon DEF up, down
  <1>8. enumors[e].ended = FALSE
    BY DEF DictInv, LockInv, Shaped
  <1>9. Walks[e] = Rec(enumors[e].from, Walking(enumors[e]), down, Walks[e].passed)
    BY <1>8, WalkIsRec, Zenon
  <1>10. Goes(Walks', Walks, e, up, DictStart(e) + 1)
    <2> HIDE DEF up, down
    <2>1. Swaps(Walks', Walks, e, Rec(enumors[e].from, up, down, DictStart(e) + 1))
      BY <1>6, <1>7, Zenon DEF Swaps
    <2> DEFINE a == enumors[e].from
               g == Walking(enumors[e])
               p == Walks[e].passed
               p2 == DictStart(e) + 1
    <2>2. Walks[e] = Rec(a, g, down, p) /\ Swaps(Walks', Walks, e, Rec(a, up, down, p2))
      BY <1>9, <2>1, Zenon
    <2> HIDE DEF a, g, p, p2
    <2>3. Goes(Walks', Walks, e, up, p2)
      BY <2>2, GoesIs
    <2>4. QED
      BY <2>3, Zenon DEF p2
  <1>11. Place(L, n) + 1 \in 1 .. Len(Entries) /\ Entries[Place(L, n) + 1] = trove[n]
    <2> HIDE DEF s, n, L
    <2>1. QED
      BY <1>1, <1>3, PlacedIn
  <1>12. DictStart(e) < Len(Entries) /\ Entries[DictStart(e) + 1].key = trove[n].key
    <2>1. Entries \in Seq(Entry)
      BY <1>1 DEF Lists
    <2> HIDE DEF s, n, L
    <2>2. Len(Entries) \in Nat
      BY <2>1
    <2>3. QED
      BY <1>4, <1>5, <1>11, <2>2
  <1>13. QED
    BY <1>6, <1>10, <1>12, Zenon

\* A walk finds no more entries.
LEMMA LeavesSeen ==
  ASSUME DictInv, IsFiniteSet(Enumor), ProbesCover, NEW e \in Enumor, ~enumors[e].ended,
         StartOf(e) = 0 \/ NextLive(StartOf(e)) = 0, NEW rec,
         rec = [from |-> enumors[e].from, ended |-> TRUE,
                started |-> enumors[e].started, next |-> 0],
         enumors' = [enumors EXCEPT ![e] = rec],
         \/ InProgress(e) /\ DecreaseSessionCount(sessions - 1)
         \/ UNCHANGED trove
  PROVE  /\ Entries' = Entries /\ Ends(Walks', Walks, e, FALSE, TRUE, 0)
         /\ DictStart(e) >= Len(Entries)
  <1> DEFINE s == StartOf(e)
             L == LiveAt(trove)
             up == TRUE
             down == FALSE
             none == 0
  <1>1. trove \in Seq(Entry) /\ Indexes(L) /\ Lists(Entries, L, trove)
    BY TroveSeq DEF DictInv, KeysInv
  <1>2. s \in Nat
    BY StartIs
  <1>3. DictStart(e) = IF s = 0 THEN Len(Entries) ELSE Place(L, s)
    BY StartSeen
  <1>4. Entries \in Seq(Entry) /\ Len(Entries) = Cardinality(L)
    BY <1>1 DEF Lists
  <1>5. DictStart(e) = Len(Entries)
    <2>1. CASE s = 0
      BY <1>3, <2>1
    <2>2. CASE s # 0
      <3>1. s \in Nat \ {0} /\ NextLive(s) = 0
        BY <1>2, <2>2
      <3> HIDE DEF s, L
      <3>2. L = LiveAt(trove)
        BY DEF L
      <3>3. \A x \in L : x < s
        BY <1>1, <3>1, <3>2, NextLiveIs
      <3>4. Place(L, s) = Cardinality(L)
        BY <3>3, PlaceLast
      <3>5. QED
        BY <1>3, <1>4, <2>2, <3>4
    <2>3. QED
      BY <2>1, <2>2
  <1>6. DictStart(e) >= Len(Entries)
    <2> DEFINE m == DictStart(e)
               n == Len(Entries)
    <2>1. n \in Nat /\ m = n
      BY <1>4, <1>5
    <2> HIDE DEF m, n
    <2>2. m >= n
      BY <2>1
    <2>3. QED
      BY <2>2 DEF m, n
  <1>7. Entries' = Entries /\ Walks' = [Walks EXCEPT ![e] = WalkOf(trove', rec)]
    BY WalkEndsSeen
  <1>8. WalkOf(trove', rec) = Rec(enumors[e].from, down, up, none)
    <2>1. rec.from = enumors[e].from /\ rec.ended = TRUE
      OBVIOUS
    <2>2. Walking(rec) = FALSE
      BY DEF Walking
    <2>3. QED
      BY <2>1, <2>2, Zenon DEF WalkOf, Rec, up, down, none
  <1>9. enumors[e].ended = FALSE
    BY DEF DictInv, LockInv, Shaped
  <1>10. Walks[e] = Rec(enumors[e].from, Walking(enumors[e]), down, Walks[e].passed)
    BY <1>9, WalkIsRec, Zenon
  <1>11. Ends(Walks', Walks, e, down, up, none)
    <2> DEFINE a == enumors[e].from
               g == Walking(enumors[e])
               p == Walks[e].passed
    <2> HIDE DEF up, down, none
    <2>1. Swaps(Walks', Walks, e, Rec(a, down, up, none))
      BY <1>7, <1>8, Zenon DEF Swaps
    <2>2. Walks[e] = Rec(a, g, down, p)
      BY <1>10
    <2> HIDE DEF a, g, p
    <2>3. QED
      BY <2>1, <2>2, EndsIs
  <1>12. QED
    BY <1>6, <1>7, <1>11, Zenon

LEMMA EnumNextSeen ==
  ASSUME DictInv, IsFiniteSet(Enumor), ProbesCover, NEW e \in Enumor, EnumNext(e)
  PROVE  Dict!EnumNext(e)
  <1> DEFINE s == StartOf(e)
             n == NextLive(s)
             found == IF s = 0 THEN 0 ELSE NextLive(s)
             goes == [from |-> enumors[e].from, started |-> TRUE, ended |-> FALSE,
                      next |-> n + 1]
             ends == [from |-> enumors[e].from, ended |-> TRUE,
                      started |-> enumors[e].started, next |-> 0]
  <1>1. Walks[e].ended = enumors[e].ended
    <2>1. trove \in Seq(Entry)
      BY TroveSeq DEF DictInv, KeysInv
    <2>2. Walks[e] = WalkOf(trove, enumors[e])
      BY <2>1, WalksAre, Zenon
    <2>3. WalkOf(trove, enumors[e]).ended = enumors[e].ended
      BY Zenon DEF WalkOf
    <2>4. QED
      BY <2>2, <2>3, Zenon
  <1>2. DictStart(e) = IF Walks[e].going THEN Walks[e].passed
                       ELSE IF Walks[e].from = NoKey THEN 0
                       ELSE IF Walks[e].from \in Dict!Keys THEN Dict!At(Walks[e].from) - 1
                       ELSE Len(Entries)
    BY Zenon DEF DictStart
  <1>3. CASE enumors[e].ended /\ ret' = <<"next", e>> /\ UNCHANGED <<trove, enumors>>
    <2>1. Entries' = Entries /\ Walks' = Walks
      BY <1>3, SameSeen
    <2>2. QED
      BY <1>1, <1>3, <2>1, Zenon DEF Dict!EnumNext, Entries, Walks, Walk
  <1>4. CASE /\ ~enumors[e].ended /\ s # 0 /\ n # 0 /\ enumors' = [enumors EXCEPT ![e] = goes]
             /\ ret' = <<"next", e, trove[n].key>> /\ UNCHANGED trove
    <2>1. /\ Entries' = Entries /\ Goes(Walks', Walks, e, TRUE, DictStart(e) + 1)
          /\ DictStart(e) < Len(Entries)
          /\ Entries[DictStart(e) + 1].key = trove[NextLive(StartOf(e))].key
      BY <1>4, TakesSeen
    <2>2. /\ Walks' = [Walks EXCEPT ![e].going = TRUE, ![e].passed = DictStart(e) + 1]
          /\ ret' = <<"next", e, Entries[DictStart(e) + 1].key>>
      BY <1>4, <2>1, Zenon DEF Goes
    <2>3. QED
      BY <1>1, <1>4, <2>1, <2>2, Zenon DEF Dict!EnumNext, DictStart, Entries, Walks, Walk
  <1>5. CASE /\ ~enumors[e].ended /\ (s = 0 \/ n = 0) /\ enumors' = [enumors EXCEPT ![e] = ends]
             /\ ret' = <<"next", e>>
             /\ \/ InProgress(e) /\ DecreaseSessionCount(sessions - 1)
                \/ UNCHANGED trove
    <2>1. /\ Entries' = Entries /\ Ends(Walks', Walks, e, FALSE, TRUE, 0)
          /\ DictStart(e) >= Len(Entries)
      BY <1>5, LeavesSeen
    <2>2. Walks' = [Walks EXCEPT ![e].going = FALSE, ![e].ended = TRUE, ![e].passed = 0]
      BY <2>1, Zenon DEF Ends
    <2>3. QED
      BY <1>1, <1>5, <2>1, <2>2, Zenon DEF Dict!EnumNext, DictStart, Entries, Walks, Walk
  <1>6. QED
    <2>1. \/ enumors[e].ended /\ ret' = <<"next", e>> /\ UNCHANGED <<trove, enumors>>
          \/ /\ ~enumors[e].ended /\ found # 0
             /\ enumors' = [enumors EXCEPT ![e] = [from |-> enumors[e].from, started |-> TRUE,
                                                   ended |-> FALSE, next |-> found + 1]]
             /\ ret' = <<"next", e, trove[found].key>> /\ UNCHANGED trove
          \/ /\ ~enumors[e].ended /\ found = 0 /\ enumors' = [enumors EXCEPT ![e] = ends]
             /\ ret' = <<"next", e>>
             /\ \/ enumors[e].started /\ DecreaseSessionCount(sessions - 1)
                \/ UNCHANGED trove
      BY Zenon DEF EnumNext, troveVars, EndsSession
    <2>2. (s = 0 => found = 0) /\ (s # 0 => found = n)
      BY Zenon
    <2>3. ~enumors[e].ended /\ enumors[e].started => InProgress(e)
      BY Zenon DEF InProgress
    <2> HIDE DEF found, s, n
    <2>4. QED
      BY <1>3, <1>4, <1>5, <2>1, <2>2, <2>3, Zenon

--------------------------------------------------------------------------------
(***************************************************************************)
(* Setting, deleting and renaming as the client sees them.  A call that    *)
(* searches the slots ends because one of them is empty.                   *)
(***************************************************************************)
HasRoom == width = 0 \/ Empties(slots) # {}

LEMMA SizedRoom ==
  ASSUME MirrorInv, HasRoom, Sized.width <= MaxWidth
  PROVE  Empties(Sized.slots) # {}
  <1> DEFINE dumb == width = 0
             w == IF dumb THEN InitialDictWidth ELSE width
             pct == IF dumb THEN PctFullToResize ELSE resizepct
             below == slots_non_empty < Threshold(w, pct)
  <1>1. w \in Widths /\ active \in Nat /\ active <= Pow2[w] /\ trove \in Seq(Entry)
        /\ active = Cardinality(LiveAt(trove))
    <2>1. CASE dumb
      <3>1. w = InitialDictWidth /\ w \in Widths
        BY <2>1, TuningAssumption DEF Widths
      <3>2. Unset
        BY <2>1, WidthFacts DEF MirrorInv, Fit
      <3>3. active = 0 /\ trove = <<>> /\ LiveAt(trove) = {} /\ Cardinality({}) = 0
        BY <2>1, <3>2, UnsetBare, FS_EmptySet DEF Unset
      <3>4. Pow2[w] \in Nat
        BY <3>1, WidthFacts
      <3> HIDE DEF w
      <3>5. trove \in Seq(Entry)
        BY <3>3
      <3>6. active = Cardinality(LiveAt(trove))
        BY <3>3, Zenon
      <3>7. active \in Nat /\ active <= Pow2[w]
        <4>1. active = 0
          BY <3>3
        <4>2. QED
          BY <3>4, <4>1
      <3>8. QED
        BY <3>1, <3>5, <3>6, <3>7
    <2>2. CASE ~dumb
      <3>1. Fit(width, slots, active, dummies, trove, trovedead, renames) /\ w = width
        BY <2>2, SetFit
      <3> HIDE DEF w
      <3>2. QED
        BY <3>1, FitRoom DEF Fit
    <2>3. QED
      BY <2>1, <2>2
  <1> HIDE DEF w, pct
  <1>2. CASE below /\ dumb
    <2>1. Sized.slots = NoSlots(w)
      BY <1>2, Zenon DEF Sized, w, pct
    <2>2. 0 \in SlotsOf(w) /\ DOMAIN NoSlots(w) = SlotsOf(w) /\ NoSlots(w)[0] = 0
      <3>1. Pow2[w] \in Nat \ {0}
        BY <1>1, WidthFacts
      <3>2. 0 \in SlotsOf(w)
        BY <3>1 DEF SlotsOf
      <3>3. QED
        BY <1>1, <3>2, NoSlotsEmpty
    <2>3. 0 \in Empties(NoSlots(w))
      BY <2>2 DEF Empties, SlotEmpty
    <2>4. QED
      BY <2>1, <2>3
  <1>3. CASE below /\ ~dumb
    <2>1. Sized.slots = slots
      BY <1>3, Zenon DEF Sized, w, pct
    <2>2. QED
      BY <1>3, <2>1 DEF HasRoom
  <1>4. CASE ~below
    <2>1. Sized.width = w + 1 /\ Sized.slots = Rebuilt(w + 1, trove)
      BY <1>4 DEF Sized, w, pct
    <2>2. w + 1 \in Widths
      BY <1>1, <2>1, TuningAssumption DEF Widths
    <2>3. active < Pow2[w + 1]
      <3>1. w \in Nat /\ Pow2[w] \in Nat \ {0}
        BY <1>1, WidthFacts
      <3>2. Pow2[w + 1] = 2 * Pow2[w]
        BY <3>1, Doubling
      <3>3. QED
        BY <1>1, <3>1, <3>2
    <2> DEFINE u == w + 1
    <2>4. u \in Widths /\ active < Pow2[u] /\ Sized.slots = Rebuilt(u, trove)
      BY <2>1, <2>2, <2>3
    <2> HIDE DEF u
    <2>5. Pow2[u] \in Nat
      BY <2>4, WidthFacts
    <2>6. Cardinality(LiveAt(trove)) <= Pow2[u] /\ Cardinality(LiveAt(trove)) < Pow2[u]
      BY <1>1, <2>4, <2>5
    <2> DEFINE sl == Rebuilt(u, trove)
               L == LiveAt(trove)
    <2>7. Indexes(L) /\ Mirrors(u, sl, L, trove) /\ Dummies(sl) = {}
      BY <1>1, <2>4, <2>6, RebuiltMirrors
    <2>8. Cardinality(L) < Pow2[u]
      BY <2>6
    <2> HIDE DEF sl, L
    <2>9. Empties(sl) # {}
      BY <2>4, <2>7, <2>8, RoomLeft
    <2>10. QED
      BY <2>4, <2>9 DEF sl
  <1>5. QED
    BY <1>2, <1>3, <1>4

\* Where SetKey() stops, and whether the key is there.
LEMMA SetMeets ==
  ASSUME KeysInv, HasRoom, Sized.width <= MaxWidth, NEW k \in Key,
         NEW at, at = SetLanding(Sized, k), NEW i,
         i = Sized.slots[Paths[Sized.width][k][at]]
  PROVE  /\ at # Never
         /\ \/ i = SlotEmpty /\ k \notin Dict!Keys
            \/ i > 0 /\ i \in LiveAt(trove) /\ trove[i].key = k
  <1> DEFINE w == Sized.width
             sl == Sized.slots
             dm == Sized.dummies
  <1>1. Fit(w, sl, active, dm, trove, trovedead, renames) /\ Empties(sl) # {}
    BY SizedFit, SizedRoom DEF KeysInv
  <1>2. SetLanding(Sized, k) # Never
        /\ SetLanding(Sized, k) = Landing(Paths[w][k], Holders(sl, k) \cup Empties(sl))
    BY <1>1, SetSearch
  <1>3. Stops(w, sl, k, at)
    BY <1>2, Zenon DEF Stops
  <1>4. i = sl[Paths[w][k][at]]
    OBVIOUS
  <1> HIDE DEF w, sl, dm
  <1>5. \/ i = SlotEmpty /\ \A j \in LiveAt(trove) : trove[j].key # k
        \/ i > 0 /\ i \in LiveAt(trove) /\ trove[i].key = k
    <2>1. \/ /\ sl[Paths[w][k][at]] = SlotEmpty
             /\ \A j \in LiveAt(trove) : trove[j].key # k
          \/ /\ sl[Paths[w][k][at]] > 0
             /\ sl[Paths[w][k][at]] \in LiveAt(trove)
             /\ trove[sl[Paths[w][k][at]]].key = k
      BY <1>1, <1>3, Search
    <2>2. QED
      BY <1>4, <2>1, Zenon
  <1>6. QED
    BY <1>2, <1>5, DictHasNot, Zenon

\* A new key comes last.
LEMMA AddedSeen ==
  ASSUME MirrorInv, NEW k \in Key, NEW v \in Value, Sized.width <= MaxWidth,
         RequestTroveEntry(k, v), NEW e, e = [key |-> k, val |-> v]
  PROVE  trove' \in Seq(Entry) /\ Entries' = Append(Entries, e)
  <1> DEFINE kept == TroveKept
             m == Len(kept)
             L == LiveAt(trove)
             n == Len(trove')
  <1>1. trove \in Seq(Entry) /\ Indexes(L) /\ Lists(Entries, L, trove)
    BY TroveSeq
  <1>2. trove' \in Seq(Entry) /\ n \in Nat \ {0} /\ n \notin L /\ LiveAt(trove') = L \cup {n}
    <2>1. Fit(Sized.width, Sized.slots, active, Sized.dummies, trove, trovedead, renames)
      BY SizedFit
    <2>2. /\ active \in Nat /\ active = Cardinality(LiveAt(trove))
          /\ trovedead = Len(trove) - active
      BY <2>1, FitRoom DEF Fit
    <2>3. Room(trove, trovecap)
      BY DEF MirrorInv, Rest
    <2>4. RequestTroveEntry(k, v)
      OBVIOUS
    <2>5. QED
      BY <1>1, <2>2, <2>3, <2>4, Requested
  <1>3. /\ kept \in Seq(Entry) /\ m \in Nat /\ m <= Len(trove) /\ Len(trove) \in Nat
        /\ \A i \in 1 .. m : kept[i] = trove[i]
        /\ \A i \in L : i \in 1 .. m
    <2>1. L = {i \in 1 .. Len(trove) : trove[i] # Dead}
      BY DEF LiveAt, LiveUpTo
    <2> HIDE DEF L
    <2>2. CASE ReusedTail
      <3>1. trove # <<>> /\ kept = SubSeq(trove, 1, Len(trove) - 1) /\ trove[Len(trove)] = Dead
        BY <2>2 DEF ReusedTail, TroveKept
      <3> HIDE DEF kept
      <3>2. /\ Len(trove) \in Nat /\ Len(trove) >= 1
            /\ kept \in Seq(Entry) /\ m = Len(trove) - 1
            /\ \A i \in 1 .. m : kept[i] = trove[i]
        BY <1>1, <3>1, AllButLast
      <3> HIDE DEF m
      <3>3. \A i \in L : i \in 1 .. m
        BY <2>1, <3>1, <3>2
      <3>4. QED
        BY <3>2, <3>3
    <2>3. CASE ~ReusedTail
      <3>1. kept = trove
        BY <2>3 DEF TroveKept
      <3>2. QED
        BY <1>1, <2>1, <3>1
    <2>4. QED
      BY <2>2, <2>3
  <1>4. trove' = Append(kept, e)
    BY Zenon DEF RequestTroveEntry
  <1>5. e \in Entry
    BY DEF Entry
  <1> HIDE DEF kept, L
  <1>6. n = m + 1 /\ trove'[n] = e /\ \A i \in L : i < n /\ trove'[i] = trove[i]
    <2> DEFINE t == Append(kept, e)
    <2>1. /\ Len(t) = m + 1 /\ t[m + 1] = e /\ \A i \in 1 .. m : t[i] = kept[i]
      BY <1>3, <1>5
    <2> HIDE DEF t
    <2>2. trove' = t
      BY <1>4 DEF t
    <2>3. n = m + 1
      BY <2>1, <2>2
    <2>4. \A i \in L : i \in 1 .. m /\ t[i] = trove[i]
      BY <1>3, <2>1
    <2>5. \A i \in 1 .. m : i < m + 1
      BY <1>3
    <2> HIDE DEF n, m
    <2>6. QED
      BY <2>1, <2>2, <2>3, <2>4, <2>5, Zenon
  <1>7. Lists(Entries, L, trove')
    BY <1>1, <1>6 DEF Lists
  <1> DEFINE t == trove'
             L2 == L \cup {n}
             r == Entries
  <1>8. Lists(Append(r, t[n]), L2, t)
    <2>1. Indexes(L) /\ n \in Nat /\ (\A x \in L : x < n) /\ t[n] \in Entry /\ Lists(r, L, t)
          /\ L2 = L \cup {n}
      BY <1>1, <1>2, <1>5, <1>6, <1>7
    <2> HIDE DEF t, n, L2, r
    <2>2. QED
      BY <2>1, ListMore
  <1>9. Lists(LiveOf(t), L2, t)
    <2>1. t \in Seq(Entry) /\ LiveAt(t) = L2
      BY <1>2
    <2> HIDE DEF t, n, L2, r
    <2>2. QED
      BY <2>1, LiveLists
  <1>10. Append(r, t[n]) = LiveOf(t)
    <2> DEFINE a == Append(r, t[n])
               b == LiveOf(t)
    <2>1. Lists(a, L2, t) /\ Lists(b, L2, t)
      BY <1>8, <1>9
    <2> HIDE DEF a, b, t, L2, n, r
    <2>2. a = b
      BY <2>1, ListsOnce
    <2>3. QED
      BY <2>2 DEF a, b
  <1>11. QED
    BY <1>2, <1>6, <1>10, Zenon DEF Entries

\* An entry changes where it is.
LEMMA ReplacedSeen ==
  ASSUME KeysInv, NEW i \in LiveAt(trove), NEW e \in Entry, e # Dead,
         Replaces(trove', trove, i, e)
  PROVE  /\ trove' \in Seq(Entry) /\ LiveAt(trove') = LiveAt(trove)
         /\ Swaps(Entries', Entries, Place(LiveAt(trove), i) + 1, e)
  <1> DEFINE L == LiveAt(trove)
             t == trove'
             r == Entries
  <1>1. trove \in Seq(Entry) /\ Indexes(L) /\ Lists(r, L, trove)
    BY TroveSeq DEF KeysInv
  <1>2. i \in 1 .. Len(trove)
    BY DEF LiveAt, LiveUpTo
  <1>3. t \in Seq(Entry) /\ t[i] = e /\ \A j \in 1 .. Len(trove) : j # i => t[j] = trove[j]
    BY DEF Replaces
  <1>4. LiveAt(t) = L
    <2>1. LiveAt(t) = LiveAt(trove) \cup {i}
      BY <1>1, <1>2, ChangedLive
    <2>2. QED
      BY <2>1
  <1>5. \A x \in L : x # i => t[x] = trove[x]
    <2>1. \A x \in L : x \in 1 .. Len(trove)
      BY DEF LiveAt, LiveUpTo
    <2>2. QED
      BY <1>3, <2>1
  <1>6. i \in L
    OBVIOUS
  <1> HIDE DEF L, t, r
  <1>7. Lists([r EXCEPT ![Place(L, i) + 1] = t[i]], L, t)
    BY <1>1, <1>3, <1>5, <1>6, ListChanged
  <1>8. Lists(LiveOf(t), L, t)
    BY <1>3, <1>4, LiveLists
  <1> DEFINE a == [r EXCEPT ![Place(L, i) + 1] = t[i]]
             b == LiveOf(t)
  <1>9. Lists(a, L, t) /\ Lists(b, L, t)
    BY <1>7, <1>8
  <1> HIDE DEF a, b
  <1>10. a = b
    BY <1>9, ListsOnce
  <1>11. LiveOf(t) = [r EXCEPT ![Place(L, i) + 1] = e]
    BY <1>3, <1>10, Zenon DEF a, b
  <1>12. QED
    BY <1>3, <1>4, <1>11, Zenon DEF Swaps, Entries, t, r, L

\* Two records an entry may change into.
Revalued(h, f, p, v) == h = [f EXCEPT ![p].val = v]
Renamed(h, f, p, k)  == h = [f EXCEPT ![p].key = k]

LEMMA RevaluedIs ==
  ASSUME NEW f, NEW p, NEW v, NEW h, NEW x \in [key : Key, val : Value], f[p] = x,
         Swaps(h, f, p, [key |-> x.key, val |-> v])
  PROVE  Revalued(h, f, p, v)
  <1>1. [f EXCEPT ![p].val = v] = [f EXCEPT ![p] = [f[p] EXCEPT !.val = v]]
    OBVIOUS
  <1>2. [x EXCEPT !.val = v] = [key |-> x.key, val |-> v]
    OBVIOUS
  <1>3. QED
    BY <1>1, <1>2, Zenon DEF Swaps, Revalued

LEMMA RenamedIs ==
  ASSUME NEW f, NEW p, NEW k, NEW h, NEW x \in [key : Key, val : Value], f[p] = x,
         Swaps(h, f, p, [key |-> k, val |-> x.val])
  PROVE  Renamed(h, f, p, k)
  <1>1. [f EXCEPT ![p].key = k] = [f EXCEPT ![p] = [f[p] EXCEPT !.key = k]]
    OBVIOUS
  <1>2. [x EXCEPT !.key = k] = [key |-> k, val |-> x.val]
    OBVIOUS
  <1>3. QED
    BY <1>1, <1>2, Zenon DEF Swaps, Renamed

\* set() of a key that is there.
LEMMA OverwriteSeen ==
  ASSUME KeysInv, NEW k \in Key, NEW v \in Value, NEW i \in LiveAt(trove), trove[i].key = k,
         trove' = [trove EXCEPT ![i].val = v]
  PROVE  /\ trove' \in Seq(Entry) /\ LiveAt(trove') = LiveAt(trove) /\ trove'[i].val = v
         /\ Revalued(Entries', Entries, Dict!At(k), v)
  <1> DEFINE x == trove[i]
             e == [key |-> x.key, val |-> v]
  <1>1. trove \in Seq(Entry)
    BY TroveSeq DEF KeysInv
  <1>2. i \in 1 .. Len(trove) /\ x \in [key : Key, val : Value]
    BY <1>1, LiveIndexes
  <1>3. e \in Entry /\ e # Dead /\ e.val = v
    <2>1. NoKey \notin Key
      BY TuningAssumption
    <2>2. e.key = k /\ Dead.key = NoKey
      BY DEF Dead
    <2>3. QED
      BY <1>2, <2>1, <2>2 DEF Entry
  <1>4. trove' = [trove EXCEPT ![i] = e]
    <2>1. [x EXCEPT !.val = v] = e
      BY <1>2
    <2>2. trove' = [trove EXCEPT ![i] = [trove[i] EXCEPT !.val = v]]
      OBVIOUS
    <2> HIDE DEF e
    <2>3. QED
      BY <2>1, <2>2
  <1> HIDE DEF e
  <1>5. Replaces(trove', trove, i, e)
    <2> DEFINE t == [trove EXCEPT ![i] = e]
    <2>1. Replaces(t, trove, i, e)
      BY <1>1, <1>2, <1>3, Changed
    <2>2. trove' = t
      BY <1>4
    <2> HIDE DEF t
    <2>3. QED
      BY <2>1, <2>2, Zenon
  <1>6. /\ trove' \in Seq(Entry) /\ LiveAt(trove') = LiveAt(trove)
        /\ Swaps(Entries', Entries, Place(LiveAt(trove), i) + 1, e)
    BY <1>3, <1>5, ReplacedSeen
  <1>7. Dict!At(k) = Place(LiveAt(trove), i) + 1 /\ Entries[Dict!At(k)] = x
    BY DictHas
  <1>8. trove'[i].val = v
    BY <1>3, <1>5 DEF Replaces
  <1>9. Revalued(Entries', Entries, Dict!At(k), v)
    <2> DEFINE p == Dict!At(k)
               h == Entries'
               f == Entries
    <2>1. f[p] = x /\ x \in [key : Key, val : Value]
      BY <1>2, <1>7
    <2>2. Swaps(h, f, p, [key |-> x.key, val |-> v])
      BY <1>6, <1>7, Zenon DEF e
    <2> HIDE DEF p, h, f, x
    <2>3. Revalued(h, f, p, v)
      BY <2>1, <2>2, RevaluedIs
    <2>4. QED
      BY <2>3 DEF p, h, f
  <1>10. QED
    BY <1>6, <1>8, <1>9

LEMMA SetKeySeen ==
  ASSUME DictInv, IsFiniteSet(Enumor), HasRoom, NEW k \in Key, NEW v \in Value,
         NEW overwrite \in BOOLEAN, SetKey(k, v, overwrite)
  PROVE  IF overwrite THEN Dict!Set(k, v) ELSE Dict!SetDefault(k, v)
  <1> DEFINE at == SetLanding(Sized, k)
             i == Sized.slots[Paths[Sized.width][k][at]]
  <1>1. Sized.width <= MaxWidth /\ UNCHANGED <<sessions, pending, enumors>>
    BY Zenon DEF SetKey
  <1>2. KeysInv /\ MirrorInv /\ trove \in Seq(Entry)
    BY TroveSeq DEF DictInv, KeysInv
  <1>3. /\ at # Never
        /\ \/ i = SlotEmpty /\ k \notin Dict!Keys
           \/ i > 0 /\ i \in LiveAt(trove) /\ trove[i].key = k
    BY <1>1, <1>2, SetMeets
  <1>4. Dict!Locked <=> sessions > 0
    BY LockSeen
  <1>5. sessions \in Nat /\ (sessions <= 0 => \A e \in Enumor : ~InProgress(e))
    BY LockedWhen
  <1>6. CASE /\ at # Never => i = SlotEmpty /\ ~MayAddKeys
             /\ ret' = <<"set", k>> /\ UNCHANGED troveVars
    <2>1. UNCHANGED <<trove, enumors>>
      BY <1>1, <1>6 DEF troveVars
    <2>2. Dict!Answers(<<"set", k>>)
      BY <1>6, <2>1, SameSeen, AnswersSeen
    <2>3. k \notin Dict!Keys
      <3>1. i = SlotEmpty
        BY <1>3, <1>6
      <3>2. ~(i > 0)
        BY <3>1 DEF SlotEmpty
      <3>3. QED
        BY <1>3, <3>2
    <2>4. Dict!Locked
      <3>1. ~(sessions <= 0)
        BY <1>3, <1>6 DEF MayAddKeys
      <3>2. QED
        BY <1>4, <1>5, <3>1
    <2>5. Dict!Set(k, v)
      BY <2>2, <2>3, <2>4, Zenon DEF Dict!Set
    <2>6. QED
      BY <2>3, <2>5, Zenon DEF Dict!SetDefault
  <1>7. CASE /\ at # Never /\ i > 0
             /\ trove' = IF overwrite THEN [trove EXCEPT ![i].val = v] ELSE trove
             /\ ret' = <<"set", k, trove'[i].val>>
    <2>1. i \in LiveAt(trove) /\ trove[i].key = k
      <3> HIDE DEF i, at
      <3>1. i # SlotEmpty
        <4>1. i > 0
          BY <1>7, Zenon
        <4>2. QED
          BY <4>1 DEF SlotEmpty
      <3>2. QED
        BY <1>3, <3>1, Zenon
    <2> HIDE DEF i
    <2>2. /\ k \in Dict!Keys /\ Entries[Dict!At(k)] = trove[i]
      BY <1>2, <2>1, DictHas
    <2>3. CASE overwrite
      <3>1. trove' = [trove EXCEPT ![i].val = v]
        BY <1>7, <2>3, Zenon
      <3>2. /\ trove' \in Seq(Entry) /\ LiveAt(trove') = LiveAt(trove) /\ trove'[i].val = v
            /\ Revalued(Entries', Entries, Dict!At(k), v)
        BY <1>2, <2>1, <3>1, OverwriteSeen
      <3>3. Walks' = Walks
        BY <1>1, <1>2, <3>2, WalksKept
      <3>4. ret' = <<"set", k, v>>
        BY <1>7, <3>2, Zenon
      <3>5. Entries' = [Entries EXCEPT ![Dict!At(k)].val = v]
        BY <3>2, Zenon DEF Revalued
      <3>6. Dict!Set(k, v)
        BY <2>2, <3>3, <3>4, <3>5, Zenon DEF Dict!Set, Entries, Walks, Walk
      <3>7. QED
        BY <2>3, <3>6, Zenon
    <2>4. CASE ~overwrite
      <3>1. trove' = trove /\ enumors' = enumors
        BY <1>1, <1>7, <2>4, Zenon
      <3>2. ret' = <<"set", k, Dict!Val(k)>>
        BY <1>7, <2>2, <3>1, Zenon DEF Dict!Val, Entries
      <3>3. Entries' = Entries /\ Walks' = Walks
        BY <3>1, SameSeen
      <3>4. Dict!Answers(<<"set", k, Dict!Val(k)>>)
        BY <3>2, <3>3, AnswersSeen
      <3>5. Dict!SetDefault(k, v)
        BY <2>2, <3>4, Zenon DEF Dict!SetDefault
      <3>6. QED
        BY <2>4, <3>5, Zenon
    <2>5. QED
      BY <2>3, <2>4
  <1>8. CASE /\ at # Never /\ i = SlotEmpty /\ MayAddKeys /\ RequestTroveEntry(k, v)
             /\ ret' = <<"set", k, v>>
    <2>1. k \notin Dict!Keys
      <3>1. ~(i > 0)
        BY <1>8 DEF SlotEmpty
      <3>2. QED
        BY <1>3, <3>1
    <2>2. trove' \in Seq(Entry) /\ Entries' = Append(Entries, [key |-> k, val |-> v])
      <3> DEFINE e == [key |-> k, val |-> v]
      <3>1. RequestTroveEntry(k, v) /\ e = [key |-> k, val |-> v]
        BY <1>8
      <3> HIDE DEF e
      <3>2. trove' \in Seq(Entry) /\ Entries' = Append(Entries, e)
        BY <1>1, <1>2, <3>1, AddedSeen
      <3>3. QED
        BY <3>2, Zenon DEF e
    <2>3. sessions <= 0 /\ \A e \in Enumor : ~InProgress(e)
      BY <1>5, <1>8 DEF MayAddKeys
    <2>4. Walks' = Walks
      BY <1>1, <1>2, <2>2, <2>3, WalksKept
    <2>5. ~Dict!Locked
      BY <1>4, <1>5, <2>3
    <2>6. Dict!Set(k, v)
      BY <1>8, <2>1, <2>2, <2>4, <2>5, Zenon DEF Dict!Set, Entries, Walks, Walk
    <2>7. QED
      BY <2>1, <2>6, Zenon DEF Dict!SetDefault
  <1>9. QED
    <2>1. \/ /\ at # Never => i = SlotEmpty /\ ~MayAddKeys
             /\ ret' = <<"set", k>> /\ UNCHANGED troveVars
          \/ /\ at # Never /\ i > 0
             /\ trove' = IF overwrite THEN [trove EXCEPT ![i].val = v] ELSE trove
             /\ ret' = <<"set", k, trove'[i].val>>
          \/ /\ at # Never /\ i = SlotEmpty /\ MayAddKeys /\ RequestTroveEntry(k, v)
             /\ ret' = <<"set", k, v>>
      BY Zenon DEF SetKey
    <2> HIDE DEF i, at
    <2>2. QED
      BY <1>6, <1>7, <1>8, <2>1, Zenon

\* A walk that has one entry fewer behind it.
Shorter(w2, w) == w2 = [w EXCEPT !.passed = @ - 1]

LEMMA ShorterIs ==
  ASSUME NEW a, NEW g, NEW d, NEW p, NEW w, w = Rec(a, g, d, p),
         NEW w2, w2 = Rec(a, g, d, p - 1)
  PROVE  Shorter(w2, w)
  <1>1. w.passed = p
    BY DEF Rec
  <1>2. [w EXCEPT !.passed = w.passed - 1] = Rec(a, g, d, w.passed - 1)
    BY DEF Rec
  <1>3. [w EXCEPT !.passed = @ - 1] = [w EXCEPT !.passed = w.passed - 1]
    OBVIOUS
  <1>4. QED
    BY <1>1, <1>2, <1>3, Zenon DEF Shorter

\* The deleted entry is behind a walk or before it.
LEMMA PassedAfter ==
  ASSUME NEW L, Indexes(L), NEW d \in L, NEW L2, L2 = L \ {d}, NEW n \in Nat,
         NEW at, at = Place(L, d) + 1
  PROVE  /\ at <= Place(L, n) => Place(L2, n) = Place(L, n) - 1
         /\ ~(at <= Place(L, n)) => Place(L2, n) = Place(L, n)
  <1>1. d \in Nat /\ Place(L, d) \in Nat /\ Place(L, n) \in Nat
    BY PlaceNat DEF Indexes
  <1>2. CASE d < n
    <2>1. Place(L, d) < Place(L, n)
      BY <1>1, <1>2, PlaceStrict
    <2>2. Place(L2, n) = Place(L, n) - 1
      BY <1>1, <1>2, PlaceRemoved
    <2>3. at <= Place(L, n)
      BY <1>1, <2>1
    <2>4. QED
      BY <2>2, <2>3
  <1>3. CASE ~(d < n)
    <2>1. n <= d
      BY <1>1, <1>3
    <2>2. Place(L, n) <= Place(L, d)
      BY <1>1, <2>1, PlaceOrder
    <2>3. Place(L2, n) = Place(L, n)
      BY <1>1, <2>1, PlaceRemoved
    <2>4. ~(at <= Place(L, n))
      BY <1>1, <2>2
    <2>5. QED
      BY <2>3, <2>4
  <1>4. QED
    BY <1>2, <1>3

\* What deleting does to a walk: the trove is squeezed only if nobody walks.
LEMMA WalkDeleted ==
  ASSUME NEW tr, NEW t, NEW L, L = LiveAt(tr), Indexes(L), NEW d \in L,
         NEW en, Walking(en) => en.next \in Nat /\ LiveAt(t) = L \ {d},
         NEW at, at = Place(L, d) + 1, NEW w, w = WalkOf(tr, en), NEW w2, w2 = WalkOf(t, en)
  PROVE  /\ w.going /\ at <= w.passed => Shorter(w2, w)
         /\ ~(w.going /\ at <= w.passed) => w2 = w
  <1> DEFINE a == en.from
             g == Walking(en)
             d1 == en.ended
             p == IF Walking(en) THEN Place(LiveAt(tr), en.next) ELSE 0
             p2 == IF Walking(en) THEN Place(LiveAt(t), en.next) ELSE 0
  <1>1. w = Rec(a, g, d1, p) /\ w2 = Rec(a, g, d1, p2)
    BY Zenon DEF WalkOf, Rec
  <1>2. w.going = g /\ w.passed = p
    BY Zenon DEF WalkOf
  <1>3. CASE ~g
    <2>1. p = 0 /\ p2 = 0
      BY <1>3
    <2>2. w2 = w /\ ~w.going
      BY <1>1, <1>2, <1>3, <2>1, Zenon
    <2>3. QED
      BY <2>2, Zenon
  <1>4. CASE g
    <2> DEFINE n == en.next
               L2 == LiveAt(t)
    <2>1. n \in Nat /\ L2 = L \ {d} /\ p = Place(L, n) /\ p2 = Place(L2, n)
      BY <1>4
    <2> HIDE DEF a, g, d1, p, p2, n, L2
    <2>2. /\ at <= Place(L, n) => Place(L2, n) = Place(L, n) - 1
          /\ ~(at <= Place(L, n)) => Place(L2, n) = Place(L, n)
      BY <2>1, PassedAfter
    <2>3. CASE at <= p
      <3>1. p2 = p - 1
        BY <2>1, <2>2, <2>3, Zenon
      <3>2. w2 = Rec(a, g, d1, p - 1)
        BY <1>1, <3>1, Zenon
      <3>3. Shorter(w2, w)
        BY <1>1, <3>2, ShorterIs
      <3>4. w.going /\ at <= w.passed
        BY <1>2, <1>4, <2>3, Zenon
      <3>5. QED
        BY <3>3, <3>4, Zenon
    <2>4. CASE ~(at <= p)
      <3>1. p2 = p
        BY <2>1, <2>2, <2>4, Zenon
      <3>2. w2 = w /\ ~(at <= w.passed)
        BY <1>1, <1>2, <2>4, <3>1, Zenon
      <3>3. QED
        BY <3>2, Zenon
    <2>5. QED
      BY <2>3, <2>4
  <1>5. QED
    BY <1>3, <1>4

\* The entries without the p-th.
Without(h, r, p) == h = SubSeq(r, 1, p - 1) \o SubSeq(r, p + 1, Len(r))

Agree(t, tr, L) == \A x \in L : t[x] = tr[x]

LEMMA ListWithout ==
  ASSUME NEW L, Indexes(L), NEW tr, NEW r, Lists(r, L, tr), NEW d \in L, NEW L2, L2 = L \ {d},
         NEW t, Agree(t, tr, L2), NEW at, at = Place(L, d) + 1, NEW s, Without(s, r, at)
  PROVE  Lists(s, L2, t)
  <1>1. Lists(SubSeq(r, 1, at - 1) \o SubSeq(r, at + 1, Len(r)), L2, t)
    BY ListRemoved DEF Agree
  <1>2. QED
    BY <1>1, Zenon DEF Without

\* An entry is deleted.
LEMMA RemovedSeen ==
  ASSUME KeysInv, NEW i \in LiveAt(trove), NEW t, t = [trove EXCEPT ![i] = Dead],
         NEW at, at = Place(LiveAt(trove), i) + 1
  PROVE  /\ t \in Seq(Entry) /\ LiveAt(t) = LiveAt(trove) \ {i}
         /\ Without(LiveOf(t), Entries, at)
  <1> DEFINE L == LiveAt(trove)
             L2 == LiveAt(t)
             r == Entries
  <1>1. trove \in Seq(Entry) /\ Indexes(L) /\ Lists(r, L, trove)
    BY TroveSeq DEF KeysInv
  <1>2. i \in 1 .. Len(trove) /\ Dead \in Entry
    BY DEF LiveAt, LiveUpTo, Entry
  <1>3. Replaces(t, trove, i, Dead)
    <2> DEFINE s == [trove EXCEPT ![i] = Dead]
    <2>1. Replaces(s, trove, i, Dead)
      BY <1>1, <1>2, Changed
    <2>2. t = s
      OBVIOUS
    <2> HIDE DEF s
    <2>3. QED
      BY <2>1, <2>2, Zenon
  <1>4. L2 = L \ {i}
    BY <1>1, <1>2, <1>3, ChangedLive
  <1>5. t \in Seq(Entry) /\ \A x \in L2 : t[x] = trove[x]
    <2>1. \A x \in L2 : x \in 1 .. Len(trove) /\ x # i
      BY <1>4 DEF LiveAt, LiveUpTo
    <2>2. QED
      BY <1>3, <2>1 DEF Replaces
  <1>6. i \in L /\ at = Place(L, i) + 1
    OBVIOUS
  <1>7. Lists(LiveOf(t), L2, t)
    BY <1>5, LiveLists
  <1> HIDE DEF L, L2, r
  <1> DEFINE s == SubSeq(r, 1, at - 1) \o SubSeq(r, at + 1, Len(r))
             u == LiveOf(t)
  <1>8. Lists(s, L2, t)
    <2>1. Without(s, r, at)
      BY Zenon DEF Without
    <2>2. Agree(t, trove, L2)
      BY <1>5, Zenon DEF Agree
    <2> HIDE DEF s
    <2>3. QED
      BY <1>1, <1>4, <1>6, <2>1, <2>2, ListWithout
  <1>9. s = u
    <2>1. Lists(u, L2, t)
      BY <1>7
    <2> HIDE DEF s, u
    <2>2. QED
      BY <1>8, <2>1, ListsOnce
  <1>10. Without(LiveOf(t), Entries, at)
    BY <1>9, Zenon DEF Without, r
  <1>11. QED
    BY <1>4, <1>5, <1>10 DEF L, L2

LEMMA DelSeen ==
  ASSUME DictInv, IsFiniteSet(Enumor), HasRoom, NEW k \in Key, Del(k)
  PROVE  Dict!Del(k)
  <1> DEFINE at == Landing(Paths[width][k], Holders(slots, k) \cup Empties(slots))
             slot == Paths[width][k][at]
             i == slots[slot]
  <1>1. KeysInv /\ MirrorInv /\ trove \in Seq(Entry) /\ Indexes(LiveAt(trove))
    BY TroveSeq DEF DictInv, KeysInv
  <1>2. CASE Answers(<<"del", k, FALSE>>) /\ \A j \in LiveAt(trove) : trove[j].key # k
    <2>1. k \notin Dict!Keys
      BY <1>1, <1>2, DictHasNot
    <2>2. ret' = <<"del", k, FALSE>> /\ UNCHANGED <<trove, enumors>>
      BY <1>2, Zenon DEF Answers, dictVars
    <2>3. Dict!Answers(<<"del", k, FALSE>>)
      BY <2>2, SameSeen, AnswersSeen
    <2>4. QED
      BY <2>1, <2>3, Zenon DEF Dict!Del
  <1>3. ASSUME width # 0
        PROVE  /\ at # Never
               /\ \/ i = SlotEmpty /\ \A j \in LiveAt(trove) : trove[j].key # k
                  \/ i > 0 /\ i \in LiveAt(trove) /\ trove[i].key = k
    <2>1. /\ Fit(width, slots, active, dummies, trove, trovedead, renames)
          /\ Empties(slots) # {}
      BY <1>1, <1>3, SetFit DEF HasRoom
    <2>2. at # Never
      BY <2>1, SearchEnds
    <2>3. Stops(width, slots, k, at)
      BY <2>2 DEF Stops
    <2> HIDE DEF at
    <2>4. QED
      BY <2>1, <2>2, <2>3, Search
  <1>4. CASE /\ width # 0 /\ i > 0 /\ i \in LiveAt(trove) /\ trove[i].key = k
             /\ ret' = <<"del", k, TRUE>> /\ UNCHANGED enumors
             /\ \E sl, ac, dm, dead :
                  CheckToCompact(sessions, sl, ac, dm, [trove EXCEPT ![i] = Dead], dead)
    <2> DEFINE t == [trove EXCEPT ![i] = Dead]
               L == LiveAt(trove)
               p == Place(L, i) + 1
    <2>1. i \in LiveAt(trove) /\ t = [trove EXCEPT ![i] = Dead]
          /\ p = Place(LiveAt(trove), i) + 1 /\ trove[i].key = k
          /\ \E sl, ac, dm, dead : CheckToCompact(sessions, sl, ac, dm, t, dead)
      BY <1>4
    <2> HIDE DEF t, p, i
    <2>2. t \in Seq(Entry) /\ LiveAt(t) = L \ {i} /\ Without(LiveOf(t), Entries, p)
      BY <1>1, <2>1, RemovedSeen
    <2>3. Entries' = LiveOf(t) /\ trove' \in Seq(Entry) /\ (trove' = t \/ sessions = 0)
      BY <2>1, <2>2, CheckedSeen
    <2>4. k \in Dict!Keys /\ Dict!At(k) = p
      BY <1>1, <2>1, DictHas
    <2>5. ASSUME NEW e \in Enumor
          PROVE  Walks'[e] = IF Walks[e].going /\ p <= Walks[e].passed
                             THEN [Walks[e] EXCEPT !.passed = @ - 1] ELSE Walks[e]
      <3> DEFINE en == enumors[e]
                 w == WalkOf(trove, en)
                 w2 == WalkOf(trove', en)
      <3>1. Walks[e] = w
        BY <1>1, WalksAre, Zenon
      <3>2. Walks'[e] = w2
        <4>1. Walks'[e] = WalkOf(trove', enumors'[e])
          BY <2>3, WalksAreNext, Zenon
        <4>2. enumors' = enumors
          BY <1>4, Zenon
        <4>3. QED
          BY <4>1, <4>2, Zenon
      <3>3. Walking(en) => en.next \in Nat /\ LiveAt(trove') = L \ {i}
        <4>1. SUFFICES ASSUME Walking(en) PROVE en.next \in Nat /\ LiveAt(trove') = L \ {i}
          OBVIOUS
        <4>2. InProgress(e)
          BY <4>1, Zenon DEF InProgress, Walking
        <4>3. en.next \in Nat \ {0}
          BY <4>2, Zenon DEF DictInv, Positions
        <4>4. sessions \in Nat /\ ~(sessions <= 0)
          BY <4>2, LockedWhen
        <4>5. sessions > 0
          BY <4>4
        <4>6. trove' = t
          BY <2>3, <4>5
        <4>7. QED
          BY <2>2, <4>3, <4>6
      <3> HIDE DEF en
      <3>4. w = WalkOf(trove, en) /\ w2 = WalkOf(trove', en) /\ L = LiveAt(trove) /\ Indexes(L)
            /\ i \in L /\ p = Place(L, i) + 1
        BY <1>1, <2>1
      <3> HIDE DEF w, w2, L
      <3>5. /\ w.going /\ p <= w.passed => Shorter(w2, w)
            /\ ~(w.going /\ p <= w.passed) => w2 = w
        BY <3>3, <3>4, WalkDeleted
      <3>6. QED
        BY <3>1, <3>2, <3>5, Zenon DEF Shorter
    <2>6. Walks' = [e \in Enumor |-> IF Walks[e].going /\ p <= Walks[e].passed
                                     THEN [Walks[e] EXCEPT !.passed = @ - 1] ELSE Walks[e]]
      <3>1. Walks' = [e \in Enumor |-> Walks'[e]]
        BY Zenon DEF Walks
      <3>2. QED
        BY <2>5, <3>1, Zenon
    <2>7. Entries' = SubSeq(Entries, 1, p - 1) \o SubSeq(Entries, p + 1, Len(Entries))
      BY <2>2, <2>3, Zenon DEF Without
    <2>8. QED
      BY <1>4, <2>4, <2>6, <2>7, Zenon DEF Dict!Del, Entries, Walks, Walk
  <1>5. CASE width = 0
    <2>1. \A j \in LiveAt(trove) : trove[j].key # k
      BY <1>1, <1>5, UnsetBare
    <2>2. Answers(<<"del", k, FALSE>>)
      BY <1>5, Zenon DEF Del
    <2>3. QED
      BY <1>2, <2>1, <2>2
  <1>6. CASE width # 0
    <2>1. \/ at = Never
          \/ i = SlotEmpty /\ Answers(<<"del", k, FALSE>>)
          \/ /\ i > 0 /\ ret' = <<"del", k, TRUE>> /\ UNCHANGED enumors
             /\ \E sl, ac, dm, dead :
                  CheckToCompact(sessions, sl, ac, dm, [trove EXCEPT ![i] = Dead], dead)
      BY <1>6, Zenon DEF Del
    <2>2. ~(SlotEmpty > 0)
      BY DEF SlotEmpty
    <2> HIDE DEF i, slot, at
    <2>3. QED
      BY <1>2, <1>3, <1>4, <1>6, <2>1, <2>2, Zenon
  <1>7. QED
    BY <1>5, <1>6

LEMMA RenameSeen ==
  ASSUME DictInv, ProbesCover, NEW k \in Key, NEW new \in Key, KeyRename(k, new)
  PROVE  Dict!Rename(k, new)
  <1> DEFINE i == slots[Find(k)]
             x == trove[i]
             e == [key |-> new, val |-> x.val]
  <1>1. KeysInv /\ trove \in Seq(Entry)
    BY TroveSeq DEF DictInv, KeysInv
  <1>2. CASE (Find(k) = -1 \/ Find(new) # -1) /\ Answers(<<"rename", k, new, FALSE>>)
    <2>1. k \notin Dict!Keys \/ new \in Dict!Keys
      BY <1>1, <1>2, FindSeen
    <2>2. ret' = <<"rename", k, new, FALSE>> /\ UNCHANGED <<trove, enumors>>
      BY <1>2, Zenon DEF Answers, dictVars
    <2>3. Dict!Answers(<<"rename", k, new, FALSE>>)
      BY <2>2, SameSeen, AnswersSeen
    <2>4. QED
      BY <2>1, <2>3, Zenon DEF Dict!Rename
  <1>3. CASE /\ Find(k) # -1 /\ Find(new) = -1 /\ UNCHANGED enumors
             /\ trove' = [trove EXCEPT ![i].key = new] /\ ret' = <<"rename", k, new, TRUE>>
    <2>1. new \notin Dict!Keys
      BY <1>1, <1>3, FindSeen
    <2>2. /\ k \in Dict!Keys /\ i \in LiveAt(trove) /\ Entries[Dict!At(k)] = x
          /\ Dict!At(k) = Place(LiveAt(trove), i) + 1
      BY <1>1, <1>3, FindSeen
    <2>3. i \in 1 .. Len(trove) /\ x \in [key : Key, val : Value]
      BY <1>1, <2>2, LiveIndexes
    <2>4. e \in Entry /\ e # Dead
      <3>1. NoKey \notin Key
        BY TuningAssumption
      <3>2. e.key = new /\ Dead.key = NoKey
        BY DEF Dead
      <3>3. QED
        BY <2>3, <3>1, <3>2 DEF Entry
    <2>5. Replaces(trove', trove, i, e)
      <3> DEFINE t == [trove EXCEPT ![i] = e]
      <3>1. Replaces(t, trove, i, e)
        <4> HIDE DEF i, e
        <4>1. QED
          BY <1>1, <2>3, <2>4, Changed
      <3>2. trove' = t
        <4>1. [x EXCEPT !.key = new] = e
          BY <2>3
        <4> HIDE DEF e
        <4>2. trove' = [trove EXCEPT ![i] = [trove[i] EXCEPT !.key = new]]
          BY <1>3
        <4>3. QED
          BY <4>1, <4>2
      <3> HIDE DEF t
      <3>3. QED
        BY <3>1, <3>2, Zenon
    <2>6. /\ trove' \in Seq(Entry) /\ LiveAt(trove') = LiveAt(trove)
          /\ Swaps(Entries', Entries, Place(LiveAt(trove), i) + 1, e)
      <3> HIDE DEF i, e
      <3>1. QED
        BY <1>1, <2>2, <2>4, <2>5, ReplacedSeen
    <2>7. Walks' = Walks
      BY <1>1, <1>3, <2>6, WalksKept
    <2>8. Renamed(Entries', Entries, Dict!At(k), new)
      <3> DEFINE p == Dict!At(k)
                 h == Entries'
                 f == Entries
      <3>1. f[p] = x
        BY <2>2
      <3>2. Swaps(h, f, p, [key |-> new, val |-> x.val])
        BY <2>2, <2>6, Zenon
      <3> HIDE DEF p, h, f, x, i
      <3>3. Renamed(h, f, p, new)
        BY <2>3, <3>1, <3>2, RenamedIs
      <3>4. QED
        BY <3>3 DEF p, h, f
    <2>9. Entries' = [Entries EXCEPT ![Dict!At(k)].key = new]
      BY <2>8, Zenon DEF Renamed
    <2>10. QED
      BY <1>3, <2>1, <2>2, <2>7, <2>9, Zenon DEF Dict!Rename, Entries, Walks, Walk
  <1>4. QED
    BY <1>2, <1>3, Zenon DEF KeyRename, NameTaken

--------------------------------------------------------------------------------
(***************************************************************************)
(* The refinement.                                                         *)
(***************************************************************************)
LEMMA InitSeen ==
  ASSUME Init
  PROVE  Dict!Init
  <1>1. trove = <<>> /\ ret = <<"clear", TRUE>> /\ enumors = [e \in Enumor |-> FreshEnumor(NoKey)]
    BY DEF Init
  <1>2. Entries = <<>>
    BY <1>1, NoEntries DEF Entries
  <1>3. trove \in Seq(Entry)
    BY <1>1
  <1>4. Walks = [e \in Enumor |-> WalkOf(trove, enumors[e])]
    BY <1>3, WalksAre
  <1>5. ASSUME NEW e \in Enumor
        PROVE  WalkOf(trove, enumors[e]) = Dict!Fresh(NoKey)
    <2>1. enumors[e] = FreshEnumor(NoKey)
      BY <1>1, Zenon
    <2>2. FreshEnumor(NoKey).from = NoKey /\ FreshEnumor(NoKey).ended = FALSE
      BY DEF FreshEnumor
    <2>3. Walking(FreshEnumor(NoKey)) = FALSE
      BY DEF FreshEnumor, Walking
    <2>4. QED
      BY <2>1, <2>2, <2>3, Zenon DEF WalkOf, Dict!Fresh
  <1>6. Walks = [e \in Enumor |-> Dict!Fresh(NoKey)]
    BY <1>4, <1>5, Zenon
  <1>7. QED
    BY <1>1, <1>2, <1>6, Zenon DEF Dict!Init, Entries, Walks, Walk

LEMMA StepSeen ==
  ASSUME DictInv, IsFiniteSet(Enumor), ProbesCover, HasRoom, [Next]_vars
  PROVE  [Dict!Next]_(Dict!vars)
  <1>1. KeysInv
    BY DEF DictInv
  <1>2. ASSUME NEW k \in Key, NEW v \in Value, NEW overwrite \in BOOLEAN, SetKey(k, v, overwrite)
        PROVE  Dict!Next
    <2>1. IF overwrite THEN Dict!Set(k, v) ELSE Dict!SetDefault(k, v)
      BY <1>2, SetKeySeen
    <2>2. QED
      BY <2>1, Zenon DEF Dict!Next
  <1>3. ASSUME NEW k \in Key, Get(k) \/ Del(k) \/ \E new \in Key : KeyRename(k, new)
        PROVE  Dict!Next
    <2>1. Dict!Get(k) \/ Dict!Del(k) \/ \E new \in Key : Dict!Rename(k, new)
      BY <1>1, <1>3, GetSeen, DelSeen, RenameSeen
    <2>2. QED
      BY <2>1, Zenon DEF Dict!Next
  <1>4. ASSUME Compact \/ Clear \/ CopyDict \/ GetKeys
                 \/ \E pct \in HungrySlots : SetDbgParams(pct)
        PROVE  Dict!Next
    <2>1. Dict!Compact \/ Dict!Clear \/ Dict!Administer \/ Dict!GetKeys
      BY <1>4, CompactCallSeen, ClearSeen, AdministerSeen, GetKeysSeen
    <2>2. QED
      BY <2>1, Zenon DEF Dict!Next
  <1>5. ASSUME NEW e \in Enumor,
               EnumNext(e) \/ (\E from \in FromKeys : EnumReset(e, from))
                 \/ (\E e2 \in Enumor : EnumCopy(e, e2))
        PROVE  Dict!Next
    <2>1. FromKeys \subseteq Key \cup {NoKey}
      BY TuningAssumption
    <2>2. \/ Dict!EnumNext(e) \/ (\E from \in Key \cup {NoKey} : Dict!EnumReset(e, from))
          \/ (\E e2 \in Enumor : Dict!EnumCopy(e, e2))
      BY <1>5, <2>1, EnumNextSeen, ResetSeen, CopySeen
    <2>3. QED
      BY <2>2, Zenon DEF Dict!Next
  <1>6. CASE UNCHANGED vars
    <2>1. UNCHANGED <<trove, enumors>> /\ ret' = ret
      BY <1>6 DEF vars
    <2>2. Entries' = Entries /\ Walks' = Walks
      BY <2>1, SameSeen
    <2>3. QED
      BY <2>1, <2>2, Zenon DEF Dict!vars, Entries, Walks, Walk
  <1>7. CASE Next
    <2>1. Dict!Next
      BY <1>2, <1>3, <1>4, <1>5, <1>7, Zenon DEF Next
    <2>2. QED
      BY <2>1, Zenon
  <1>8. QED
    BY <1>6, <1>7

\* hashdict.h keeps its promise, as OrderedDict states it: each call of the
\* dictionary answers like the ordered dictionary whose entries are the
\* trove's live ones, and every walk visits them in order, one by one, whatever
\* is deleted, renamed or compacted meanwhile.  Slots always have an empty one
\* left, as long as renaming does not fill them with uncounted dummies.
THEOREM RefinesOrderedDict ==
  ASSUME IsFiniteSet(Enumor), "EnumCopyWalking" \notin Calls, ProbesCover
  PROVE  Spec /\ []HasRoom => ImplementsOrderedDict
  <1>1. Init => DictInv
    BY InitDict
  <1>2. DictInv /\ [Next]_vars => DictInv'
    BY NextKeepsDict
  <1>3. Init => Dict!Init
    BY InitSeen
  <1>4. DictInv /\ HasRoom /\ [Next]_vars => [Dict!Next]_(Dict!vars)
    BY StepSeen
  <1>5. QED
    BY <1>1, <1>2, <1>3, <1>4, PTL DEF Spec, ImplementsOrderedDict, Dict!Spec

\* A client that neither renames keys nor fills its slots up always has room.
LEMMA SpareRoom ==
  ASSUME SpareInv
  PROVE  HasRoom
  <1>1. SUFFICES ASSUME width # 0 PROVE Empties(slots) # {}
    BY DEF HasRoom
  <1>2. /\ Fit(width, slots, active, dummies, trove, trovedead, renames)
        /\ renames = 0 /\ Spare(width, active, dummies)
    BY <1>1, SetFit DEF SpareInv, KeysInv
  <1>3. active = Cardinality(InUse(slots))
    BY InvMirrors DEF SpareInv, KeysInv, SlotsMirrorTrove
  <1>4. QED
    BY <1>2, <1>3, SpareEmpty

\* So for such a client the dictionary is the ordered one without proviso.
THEOREM RoomyRefinesOrderedDict ==
  ASSUME IsFiniteSet(Enumor), "EnumCopyWalking" \notin Calls, ProbesCover, KeepsSlotsFree
  PROVE  Spec => ImplementsOrderedDict
  <1>1. Init => SpareInv
    BY InitSpare
  <1>2. SpareInv /\ [Next]_vars => SpareInv'
    BY NextSpare
  <1>3. SpareInv => HasRoom
    BY SpareRoom
  <1>4. Spec => []HasRoom
    BY <1>1, <1>2, <1>3, PTL DEF Spec
  <1>5. Spec /\ []HasRoom => ImplementsOrderedDict
    BY RefinesOrderedDict
  <1>6. QED
    BY <1>4, <1>5, PTL
===============================================================================
