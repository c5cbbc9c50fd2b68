--------------------------- MODULE CameraHub_proofs ---------------------------
(***************************************************************************)
(* CameraHub for any number of connections and processes, any masks, and   *)
(* any USB commands that may fail.  The bookkeeping: what is counted is    *)
(* what is subscribed, whatever is superseded, rolled back, revoked or     *)
(* left behind.  The device: what is counted is what the engines send      *)
(* after every apply_locked that succeeds, whatever failed before it.      *)
(***************************************************************************)
EXTENDS CameraHub, FiniteSetTheorems, WellFoundedInduction, TLAPS

Naming(s, t) == {c \in Conns : t \in s.lease[c]}

\* The counters are the leases, and extra for a mask that has no lease yet.
Counted(s, extra) ==
  \A t \in Streams : s.users[t] = Cardinality(Naming(s, t)) + extra[t]

Nothing == [t \in Streams |-> 0]

-----------------------------------------------------------------------------
(* Lemmas about the subscriptions.                                         *)

\* Sets of connections are finite.
LEMMA FiniteConns == \A S : S \subseteq Conns => IsFiniteSet(S) /\ Cardinality(S) \in Nat
  BY ConnsAssumption, FS_Subset, FS_CardinalityType

\* Taking leases out of the record takes as many off a counter.
LEMMA CardinalityOfRest ==
  ASSUME NEW S \in SUBSET Conns, NEW T \in SUBSET Conns
  PROVE  Cardinality(S \ T) = Cardinality(S) - Cardinality({c \in T : c \in S})
<1>1. {c \in T : c \in S} = S \cap T
  OBVIOUS
<1> QED
  BY <1>1, FiniteConns, FS_Difference

\* Erase keeps the counters equal to the leases, and erases just D.
LEMMA EraseCounted ==
  ASSUME NEW s \in SubsType, NEW D \in SUBSET Conns,
         NEW extra \in [Streams -> Nat], Counted(s, extra)
  PROVE  /\ Erase(s, D) \in SubsType
         /\ Counted(Erase(s, D), extra)
         /\ Erase(s, D).lease = [c \in Conns |-> IF c \in D THEN {} ELSE s.lease[c]]
<1> DEFINE e == Erase(s, D)
<1>1. /\ e.lease = [c \in Conns |-> IF c \in D THEN {} ELSE s.lease[c]]
      /\ e.users = DropUsers(s.users, Held(s.lease, D))
  BY DEF Erase, SubsType
<1>2. ASSUME NEW t \in Streams
      PROVE  /\ Held(s.lease, D)[t] \in Nat
             /\ Cardinality(Naming(s, t)) \in Nat
             /\ Cardinality(Naming(e, t)) = Cardinality(Naming(s, t)) - Held(s.lease, D)[t]
             /\ Held(s.lease, D)[t] <= Cardinality(Naming(s, t))
  <2> DEFINE H == {c \in D : t \in s.lease[c]}
  <2>1. Naming(e, t) = Naming(s, t) \ D
    BY <1>1 DEF Naming
  <2>2. H = {c \in D : c \in Naming(s, t)} /\ H \subseteq Naming(s, t)
    BY DEF Naming
  <2>3. Held(s.lease, D)[t] = Cardinality(H)
    BY DEF Held
  <2>4. Naming(s, t) \subseteq Conns
    BY DEF Naming
  <2>5. Cardinality(H) <= Cardinality(Naming(s, t))
    BY <2>2, <2>4, FiniteConns, FS_Subset
  <2>6. Cardinality(Naming(s, t) \ D) = Cardinality(Naming(s, t)) - Cardinality(H)
    <3> HIDE DEF H
    <3> QED
      BY <2>2, <2>4, CardinalityOfRest
  <2>7. Cardinality(H) \in Nat /\ Cardinality(Naming(s, t)) \in Nat
    BY <2>2, <2>4, FiniteConns
  <2> QED
    BY <2>1, <2>3, <2>5, <2>6, <2>7
<1>3. Counted(e, extra)
  <2> SUFFICES ASSUME NEW t \in Streams
               PROVE  e.users[t] = Cardinality(Naming(e, t)) + extra[t]
    BY DEF Counted
  <2>1. e.users[t] = IF s.users[t] > Held(s.lease, D)[t]
                     THEN s.users[t] - Held(s.lease, D)[t] ELSE 0
    BY <1>1 DEF DropUsers
  <2>2. s.users[t] = Cardinality(Naming(s, t)) + extra[t] /\ extra[t] \in Nat
    BY DEF Counted
  <2> HIDE DEF e
  <2> QED
    BY <2>1, <2>2, <1>2
<1>4. e \in SubsType
  <2>1. DropUsers(s.users, Held(s.lease, D)) \in [Streams -> Nat]
    <3> SUFFICES ASSUME NEW t \in Streams
                 PROVE  (IF s.users[t] > Held(s.lease, D)[t]
                         THEN s.users[t] - Held(s.lease, D)[t] ELSE 0) \in Nat
      BY DEF DropUsers
    <3>1. s.users[t] \in Nat
      BY DEF SubsType
    <3> QED
      BY <3>1, <1>2
  <2>2. [c \in Conns |-> IF c \in D THEN {} ELSE s.lease[c]] \in [Conns -> SUBSET Streams]
    BY DEF SubsType
  <2> QED
    BY <2>1, <2>2 DEF Erase, SubsType
<1> QED
  BY <1>1, <1>3, <1>4

\* One more for each stream of a mask.
LEMMA AddCounted ==
  ASSUME NEW s \in SubsType, NEW m \in SUBSET Streams, Counted(s, Nothing)
  PROVE  LET a == [s EXCEPT !.users = AddUsers(s.users, m)]
         IN  /\ a \in SubsType
             /\ Counted(a, One(m))
             /\ a.lease = s.lease /\ a.alive = s.alive
<1> DEFINE a == [s EXCEPT !.users = AddUsers(s.users, m)]
<1>1. a.users = AddUsers(s.users, m) /\ a.lease = s.lease /\ a.alive = s.alive
  BY DEF SubsType
<1>2. ASSUME NEW t \in Streams
      PROVE  /\ AddUsers(s.users, m)[t] = s.users[t] + One(m)[t]
             /\ s.users[t] = Cardinality(Naming(s, t))
             /\ s.users[t] \in Nat /\ One(m)[t] \in {0, 1}
  <2>1. s.users \in [Streams -> Nat]
    BY DEF SubsType
  <2>2. Cardinality(Naming(s, t)) \in Nat
    BY FiniteConns DEF Naming
  <2>3. s.users[t] = Cardinality(Naming(s, t)) + 0
    BY DEF Counted, Nothing
  <2> QED
    BY <2>1, <2>2, <2>3 DEF AddUsers, One
<1>3. Counted(a, One(m))
  BY <1>1, <1>2 DEF Counted, Naming
<1>4. AddUsers(s.users, m) \in [Streams -> Nat]
  BY <1>2 DEF AddUsers
<1>5. a \in SubsType
  BY <1>4 DEF SubsType
<1> QED
  BY <1>1, <1>3, <1>5

\* Revoke only touches the flags.
LEMMA RevokeKeeps ==
  ASSUME NEW s \in SubsType, NEW D, NEW N
  PROVE  /\ Revoke(s, D, N) \in SubsType
         /\ Revoke(s, D, N).lease = s.lease
         /\ Revoke(s, D, N).users = s.users
         /\ Revoke(s, D, N).alive = [c \in Conns |-> c \notin D /\ s.alive[c]]
<1>1. [c \in Conns |-> c \notin D /\ s.alive[c]] \in [Conns -> BOOLEAN]
  OBVIOUS
<1>2. [c \in Conns |-> c \in Holders(N) \/ s.cut[c]] \in [Conns -> BOOLEAN]
  OBVIOUS
<1> QED
  BY <1>1, <1>2 DEF Revoke, SubsType

\* Giving RGB HQ up erases the leases that name it, tells their connections and
\* counts the remaining ones.
LEMMA AppliedCounted ==
  ASSUME NEW s \in SubsType, NEW d, NEW extra \in [Streams -> Nat], Counted(s, extra)
  PROVE  LET a == Applied(s, d)
         IN  /\ a \in SubsType
             /\ Counted(a, extra)
             /\ \A c \in Conns : a.lease[c] = s.lease[c] \/ (a.lease[c] = {} /\ ~a.alive[c])
             /\ \A c \in Conns : a.alive[c] => s.alive[c]
<1>1. CASE ~HqOverdue(d)
  BY <1>1 DEF Applied
<1>2. CASE HqOverdue(d)
  <2> DEFINE D == {c \in Conns : "hq" \in s.lease[c]}
             E == Erase(s, D)
             N == {fd[c] : c \in D}
             r == Revoke(E, D, N)
             a == [r EXCEPT !.hqBad = TRUE, !.active = Cardinality(Leased(r))]
  <2>1. Applied(s, d) = a
    BY <1>2 DEF Applied, MarkHqUnavailable
  <2>2. /\ E \in SubsType
        /\ Counted(E, extra)
        /\ E.lease = [c \in Conns |-> IF c \in D THEN {} ELSE s.lease[c]]
    BY EraseCounted
  <2>3. E.alive = s.alive
    BY DEF Erase, SubsType
  <2>4. /\ r \in SubsType
        /\ r.lease = E.lease /\ r.users = E.users
        /\ r.alive = [c \in Conns |-> c \notin D /\ E.alive[c]]
    <3> HIDE DEF E, D, N
    <3> QED
      BY <2>2, RevokeKeeps
  <2>5. Cardinality(Leased(r)) \in Nat
    BY FiniteConns DEF Leased
  <2> HIDE DEF r, E
  <2>6. /\ a \in SubsType
        /\ a.lease = r.lease /\ a.users = r.users /\ a.alive = r.alive
    BY <2>4, <2>5 DEF SubsType
  <2> HIDE DEF a
  <2>7. Counted(a, extra)
    <3>1. a.lease = E.lease /\ a.users = E.users
      BY <2>4, <2>6
    <3>2. \A t \in Streams : Naming(a, t) = Naming(E, t)
      BY <3>1 DEF Naming
    <3> QED
      BY <2>2, <3>1, <3>2 DEF Counted
  <2>9. ASSUME NEW c \in Conns
        PROVE  a.lease[c] = s.lease[c] \/ (a.lease[c] = {} /\ ~a.alive[c])
    <3> HIDE DEF D
    <3>1. CASE c \in D
      <4>1. a.lease[c] = {}
        BY <2>2, <2>4, <2>6, <3>1
      <4>2. a.alive[c] = (c \notin D /\ E.alive[c])
        BY <2>4, <2>6
      <4> QED
        BY <3>1, <4>1, <4>2
    <3>2. CASE c \notin D
      BY <2>2, <2>4, <2>6, <3>2
    <3> QED
      BY <3>1, <3>2
  <2>10. \A c \in Conns : a.alive[c] => s.alive[c]
    BY <2>3, <2>4, <2>6
  <2> QED
    BY <2>1, <2>6, <2>7, <2>9, <2>10
<1> QED
  BY <1>1, <1>2

\* A granted mask is a lease now.
LEMMA GrantedCounted ==
  ASSUME NEW s \in SubsType, NEW c \in Conns, mask[c] \in SUBSET Streams,
         s.lease[c] = {}, Counted(s, One(mask[c]))
  PROVE  LET g == Granted(s, c)
         IN  /\ g \in SubsType
             /\ Counted(g, Nothing)
             /\ g.lease = [s.lease EXCEPT ![c] = mask[c]]
             /\ g.alive = [s.alive EXCEPT ![c] = TRUE]
<1> DEFINE h == [s EXCEPT !.lease[c] = mask[c], !.alive[c] = TRUE]
           g == [h EXCEPT !.active = Cardinality(Leased(h))]
<1>1. Granted(s, c) = g
  BY DEF Granted
<1>2. /\ h \in SubsType
      /\ h.lease = [s.lease EXCEPT ![c] = mask[c]]
      /\ h.alive = [s.alive EXCEPT ![c] = TRUE]
      /\ h.users = s.users
  BY DEF SubsType
<1>3. Cardinality(Leased(h)) \in Nat
  BY FiniteConns DEF Leased
<1> HIDE DEF h
<1>4. /\ g \in SubsType
      /\ g.lease = h.lease /\ g.alive = h.alive /\ g.users = h.users
  BY <1>2, <1>3 DEF SubsType
<1> HIDE DEF g
<1>6. s.lease \in [Conns -> SUBSET Streams] /\ s.users \in [Streams -> Nat]
  BY DEF SubsType
<1>7. ASSUME NEW t \in Streams
      PROVE  s.users[t] = Cardinality(Naming(g, t))
  <2>1. s.users[t] = Cardinality(Naming(s, t)) + One(mask[c])[t]
    BY DEF Counted
  <2>2. Naming(s, t) \subseteq Conns /\ c \notin Naming(s, t)
    BY DEF Naming
  <2>3. IsFiniteSet(Naming(s, t)) /\ Cardinality(Naming(s, t)) \in Nat
    BY <2>2, FiniteConns
  <2>4. CASE t \in mask[c]
    <3>1. Naming(g, t) = Naming(s, t) \cup {c}
      BY <1>2, <1>4, <1>6, <2>4 DEF Naming
    <3>2. Cardinality(Naming(s, t) \cup {c}) = Cardinality(Naming(s, t)) + 1
      BY <2>2, <2>3, FS_AddElement
    <3>3. One(mask[c])[t] = 1
      BY <2>4 DEF One
    <3> QED
      BY <2>1, <3>1, <3>2, <3>3
  <2>5. CASE t \notin mask[c]
    <3>1. Naming(g, t) = Naming(s, t)
      BY <1>2, <1>4, <1>6, <2>5 DEF Naming
    <3>2. One(mask[c])[t] = 0
      BY <2>5 DEF One
    <3> QED
      BY <2>1, <2>3, <3>1, <3>2
  <2> QED
    BY <2>4, <2>5
<1>8. Counted(g, Nothing)
  <2> SUFFICES ASSUME NEW t \in Streams
               PROVE  g.users[t] = Cardinality(Naming(g, t)) + 0
    BY DEF Counted, Nothing
  <2>1. Cardinality(Naming(g, t)) \in Nat
    BY FiniteConns DEF Naming
  <2> QED
    BY <1>2, <1>4, <1>7, <2>1
<1> QED
  BY <1>1, <1>2, <1>4, <1>8

\* The leases that come back are counted again, the refused mask is not.
LEMMA RolledBackCounted ==
  ASSUME NEW s \in SubsType, NEW c \in Conns, NEW old \in SUBSET Conns,
         subs \in SubsType, mask[c] \in SUBSET Streams,
         \A x \in old : s.lease[x] = {}, Counted(s, One(mask[c]))
  PROVE  LET r == RolledBack(s, c, old)
         IN  /\ r \in SubsType
             /\ Counted(r, Nothing)
             /\ r.lease = [x \in Conns |-> IF x \in old THEN subs.lease[x] ELSE s.lease[x]]
             /\ r.alive = s.alive
<1> DEFINE back  == Held(subs.lease, old)
           less  == DropUsers(s.users, One(mask[c]))
           lease == [x \in Conns |-> IF x \in old THEN subs.lease[x] ELSE s.lease[x]]
           users == [t \in Streams |-> less[t] + back[t]]
           r     == [s EXCEPT !.lease = lease, !.users = users]
<1>1. RolledBack(s, c, old) = r
  BY DEF RolledBack
<1>2. /\ s.lease \in [Conns -> SUBSET Streams] /\ s.users \in [Streams -> Nat]
      /\ subs.lease \in [Conns -> SUBSET Streams]
  BY DEF SubsType
<1>3. lease \in [Conns -> SUBSET Streams]
  BY <1>2
<1>4. ASSUME NEW t \in Streams
      PROVE  /\ back[t] \in Nat /\ less[t] \in Nat
             /\ less[t] + back[t] = Cardinality({x \in Conns : t \in lease[x]})
  <2> DEFINE B == {x \in old : t \in subs.lease[x]}
             A == Naming(s, t)
  <2>1. A \subseteq Conns /\ B \subseteq Conns
    BY DEF Naming
  <2>2. {x \in Conns : t \in lease[x]} = A \cup B /\ A \cap B = {}
    BY <1>2 DEF Naming
  <2>3. back[t] = Cardinality(B)
    BY DEF Held
  <2>4. /\ IsFiniteSet(A) /\ IsFiniteSet(B)
        /\ Cardinality(A) \in Nat /\ Cardinality(B) \in Nat
    <3> HIDE DEF A, B
    <3> QED
      BY <2>1, FiniteConns
  <2>5. Cardinality(A \cup B) = Cardinality(A) + Cardinality(B)
    <3> HIDE DEF A, B
    <3>1. Cardinality(A \cup B) = Cardinality(A) + Cardinality(B) - Cardinality(A \cap B)
      BY <2>4, FS_Union
    <3>2. Cardinality(A \cap B) = 0
      <4>1. A \cap B = {}
        BY <2>2
      <4> QED
        BY <4>1, FS_EmptySet
    <3> QED
      BY <2>4, <3>1, <3>2
  <2>6. s.users[t] = Cardinality(A) + One(mask[c])[t] /\ One(mask[c])[t] \in {0, 1}
    BY DEF Counted, One
  <2>7. less[t] = Cardinality(A)
    <3>1. less[t] = IF s.users[t] > One(mask[c])[t] THEN s.users[t] - One(mask[c])[t] ELSE 0
      BY DEF DropUsers
    <3> HIDE DEF less, A
    <3> QED
      BY <2>4, <2>6, <3>1
  <2> HIDE DEF A, B, less, back
  <2> QED
    BY <2>2, <2>3, <2>4, <2>5, <2>7
<1> HIDE DEF less, back
<1>5. users \in [Streams -> Nat]
  <2>1. ASSUME NEW t \in Streams
        PROVE  less[t] + back[t] \in Nat
    <3>1. less[t] \in Nat /\ back[t] \in Nat
      BY <1>4
    <3> QED
      BY <3>1
  <2> QED
    BY <2>1
<1> HIDE DEF lease, users
<1>6. /\ r \in SubsType
      /\ r.lease = lease /\ r.users = users
      /\ r.alive = s.alive
  BY <1>3, <1>5 DEF SubsType
<1> HIDE DEF r
<1>7. Counted(r, Nothing)
  <2> SUFFICES ASSUME NEW t \in Streams
               PROVE  r.users[t] = Cardinality(Naming(r, t)) + 0
    BY DEF Counted, Nothing
  <2>1. Cardinality(Naming(r, t)) \in Nat
    BY FiniteConns DEF Naming
  <2>2. Naming(r, t) = {x \in Conns : t \in lease[x]}
    BY <1>6 DEF Naming
  <2>3. users[t] = less[t] + back[t]
    BY DEF users
  <2> QED
    BY <1>4, <1>6, <2>1, <2>2, <2>3
<1> QED
  BY <1>1, <1>6, <1>7 DEF lease

-----------------------------------------------------------------------------
(* The inductive invariant.                                                *)

Typed ==
  /\ subs \in SubsType
  /\ pc \in [Conns -> Places]
  /\ mask \in [Conns -> SUBSET Streams]
  /\ wake \in [Conns -> SUBSET Conns]
  /\ pid \in [Conns -> Pids \cup {NoPid}]

\* A connection that has not been answered yet has no lease, and asks for some.
Fresh ==
  \A c \in Conns : pc[c] \in {"check", "acquire"} => subs.lease[c] = {} /\ mask[c] # {}

\* LostLeaseIsTold from the moment the lease is granted.
Told(c) == ~subs.alive[c] \/ \E x \in Conns : pc[x] = "wake" /\ c \in wake[x]
LostIsTold ==
  \A c \in Conns : pc[c] \in {"wake", "reply", "stream"} /\ subs.lease[c] = {} => Told(c)

IInv ==
  /\ Typed /\ Fresh
  /\ Counted(subs, Nothing)
  /\ OneLeasePerProcess
  /\ LostIsTold

\* A lease stays or goes, and a connection that loses one without being
\* superseded is told at once.
Narrower(s, t) ==
  \A c \in Conns : /\ t.lease[c] = s.lease[c] \/ (t.lease[c] = {} /\ ~t.alive[c])
                   /\ t.alive[c] => s.alive[c]

LEMMA InitIInv == Init => IInv
<1> SUFFICES ASSUME Init
             PROVE  IInv
  OBVIOUS
<1> USE DEF Init
<1>1. Typed
  BY DEF Typed, SubsType, Places, Streams
<1>2. \A c \in Conns : subs.lease[c] = {} /\ pc[c] = "off"
  OBVIOUS
<1>3. Fresh /\ LostIsTold
  BY <1>2 DEF Fresh, LostIsTold
<1>4. Leased(subs) = {}
  BY <1>2 DEF Leased
<1>5. OneLeasePerProcess
  BY <1>4 DEF OneLeasePerProcess
<1>6. Counted(subs, Nothing)
  <2> SUFFICES ASSUME NEW t \in Streams
               PROVE  subs.users[t] = Cardinality(Naming(subs, t)) + 0
    BY DEF Counted, Nothing
  <2>1. Naming(subs, t) = {}
    BY <1>2 DEF Naming
  <2>2. subs.users[t] = 0
    OBVIOUS
  <2>3. Cardinality(Naming(subs, t)) = 0
    BY <2>1, FS_EmptySet
  <2> QED
    BY <2>2, <2>3
<1> QED
  BY <1>1, <1>3, <1>5, <1>6 DEF IInv

\* What acquire leaves behind.
LEMMA AcquireEffect ==
  ASSUME IInv, NEW c \in Conns, Acquire(c), dev.online
  PROVE  /\ subs' \in SubsType
         /\ Counted(subs', Nothing)
         /\ \A x \in Conns \ {c} :
              /\ subs'.alive[x] => subs.alive[x]
              /\ \/ subs'.lease[x] = subs.lease[x]
                 \/ subs'.lease[x] = {} /\ ~subs'.alive[x]
                 \/ subs'.lease[x] = {} /\ pc'[c] = "wake" /\ x \in wake'[c]
         /\ \/ /\ pc'[c] \in {"wake", "reply"} /\ subs'.lease[c] = mask[c]
               /\ \A x \in Superseded(c) : subs'.lease[x] = {}
            \/ pc'[c] = "close" /\ subs'.lease[c] = {} /\ wake' = wake
<1> DEFINE old   == Superseded(c)
           fewer == Erase(subs, old)
           asked == [fewer EXCEPT !.users = AddUsers(fewer.users, mask[c])]
           s     == Applied(asked, dev)
<1>1. /\ pc[c] = "acquire"
      /\ \/ /\ subs' = Granted(s, c)
            /\ wake' = [wake EXCEPT ![c] = old]
            /\ pc' = [pc EXCEPT ![c] = IF old = {} THEN "reply" ELSE "wake"]
         \/ /\ subs' = RolledBack(s, c, old)
            /\ pc' = [pc EXCEPT ![c] = "close"]
            /\ wake' = wake
  BY DEF Acquire, Goto
<1>2. /\ subs \in SubsType /\ Counted(subs, Nothing)
      /\ subs.lease[c] = {} /\ mask[c] \in SUBSET Streams
      /\ pc \in [Conns -> Places] /\ wake \in [Conns -> SUBSET Conns]
  BY <1>1 DEF IInv, Typed, Fresh
<1>3. /\ old \in SUBSET Conns /\ c \notin old
      /\ \A x \in old : subs.lease[x] # {}
  BY <1>2 DEF Superseded, Leased
<1> HIDE DEF old
<1>4. Nothing \in [Streams -> Nat] /\ One(mask[c]) \in [Streams -> Nat]
  BY DEF Nothing, One
<1>5. /\ fewer \in SubsType
      /\ Counted(fewer, Nothing)
      /\ fewer.lease = [x \in Conns |-> IF x \in old THEN {} ELSE subs.lease[x]]
      /\ fewer.alive = subs.alive
  <2>1. fewer.alive = subs.alive
    BY <1>2 DEF Erase, SubsType
  <2> QED
    BY <1>2, <1>3, <1>4, <2>1, EraseCounted
<1> HIDE DEF fewer
<1>6. /\ asked \in SubsType
      /\ Counted(asked, One(mask[c]))
      /\ asked.lease = fewer.lease /\ asked.alive = fewer.alive
  BY <1>2, <1>5, AddCounted
<1> HIDE DEF asked
<1>7. /\ s \in SubsType
      /\ Counted(s, One(mask[c]))
      /\ \A x \in Conns : s.lease[x] = asked.lease[x] \/ (s.lease[x] = {} /\ ~s.alive[x])
      /\ \A x \in Conns : s.alive[x] => asked.alive[x]
  BY <1>4, <1>6, AppliedCounted
<1> HIDE DEF s
<1>8. /\ s.lease[c] = {} /\ \A x \in old : s.lease[x] = {}
      /\ \A x \in Conns \ old : s.lease[x] = subs.lease[x] \/ (s.lease[x] = {} /\ ~s.alive[x])
      /\ \A x \in Conns : s.alive[x] => subs.alive[x]
  BY <1>2, <1>3, <1>5, <1>6, <1>7
<1>9. CASE /\ subs' = Granted(s, c)
           /\ wake' = [wake EXCEPT ![c] = old]
           /\ pc' = [pc EXCEPT ![c] = IF old = {} THEN "reply" ELSE "wake"]
  <2>1. /\ subs' \in SubsType
        /\ Counted(subs', Nothing)
        /\ subs'.lease = [s.lease EXCEPT ![c] = mask[c]]
        /\ subs'.alive = [s.alive EXCEPT ![c] = TRUE]
    BY <1>2, <1>7, <1>8, <1>9, GrantedCounted
  <2>2. s.lease \in [Conns -> SUBSET Streams] /\ s.alive \in [Conns -> BOOLEAN]
    BY <1>7 DEF SubsType
  <2>3. subs'.lease[c] = mask[c]
    BY <2>1, <2>2
  <2>4. \A x \in Conns \ {c} : subs'.lease[x] = s.lease[x] /\ subs'.alive[x] = s.alive[x]
    BY <2>1, <2>2
  <2>5. pc'[c] \in {"wake", "reply"} /\ wake'[c] = old /\ (old # {} => pc'[c] = "wake")
    BY <1>2, <1>9
  <2>6. \A x \in old : subs'.lease[x] = {}
    BY <1>3, <1>8, <2>4
  <2>8. \A x \in Conns \ {c} : subs'.alive[x] => subs.alive[x]
    BY <1>8, <2>4
  <2>9. ASSUME NEW x \in Conns \ {c}
        PROVE  \/ subs'.lease[x] = subs.lease[x]
               \/ subs'.lease[x] = {} /\ ~subs'.alive[x]
               \/ subs'.lease[x] = {} /\ pc'[c] = "wake" /\ x \in wake'[c]
    <3>1. CASE x \in old
      BY <2>5, <2>6, <3>1
    <3>2. CASE x \notin old
      BY <1>8, <2>4, <3>2
    <3> QED
      BY <3>1, <3>2
  <2> QED
    BY <2>1, <2>3, <2>5, <2>6, <2>8, <2>9 DEF old
<1>10. CASE /\ subs' = RolledBack(s, c, old)
            /\ pc' = [pc EXCEPT ![c] = "close"]
            /\ wake' = wake
  <2>1. /\ subs' \in SubsType
        /\ Counted(subs', Nothing)
        /\ subs'.lease = [x \in Conns |-> IF x \in old THEN subs.lease[x] ELSE s.lease[x]]
        /\ subs'.alive = s.alive
    BY <1>2, <1>3, <1>7, <1>8, <1>10, RolledBackCounted
  <2>2. pc'[c] = "close" /\ subs'.lease[c] = {} /\ wake' = wake
    BY <1>2, <1>3, <1>8, <1>10, <2>1
  <2>3. \A x \in Conns \ {c} : subs'.alive[x] => subs.alive[x]
    BY <1>8, <2>1
  <2>4. ASSUME NEW x \in Conns \ {c}
        PROVE  \/ subs'.lease[x] = subs.lease[x]
               \/ subs'.lease[x] = {} /\ ~subs'.alive[x]
    <3>1. CASE x \in old
      BY <1>3, <2>1, <3>1
    <3>2. CASE x \notin old
      BY <1>8, <2>1, <3>2
    <3> QED
      BY <3>1, <3>2
  <2> QED
    BY <2>1, <2>2, <2>3, <2>4
<1> QED
  BY <1>1, <1>9, <1>10 DEF s, asked, fewer, old

\* What the end of a subscription leaves behind.
LEMMA ReleaseEffect ==
  ASSUME IInv, NEW c \in Conns, Release(c)
  PROVE  /\ subs' \in SubsType
         /\ Counted(subs', Nothing)
         /\ Narrower(subs, subs')
<1>1. subs \in SubsType /\ Counted(subs, Nothing)
  BY DEF IInv, Typed
<1>2. CASE UNCHANGED subs
  BY <1>1, <1>2 DEF Narrower
<1>3. CASE subs' = Applied(Left(c), dev)
  <2> DEFINE E == Erase(subs, {c})
             r == Revoke(E, {c}, {})
             l == [r EXCEPT !.active = Cardinality(Leased(r))]
  <2>1. Left(c) = l
    BY DEF Left
  <2>2. Nothing \in [Streams -> Nat]
    BY DEF Nothing
  <2>3. /\ E \in SubsType
        /\ Counted(E, Nothing)
        /\ E.lease = [x \in Conns |-> IF x \in {c} THEN {} ELSE subs.lease[x]]
        /\ E.alive = subs.alive
    <3>1. E.alive = subs.alive
      BY <1>1 DEF Erase, SubsType
    <3> QED
      BY <1>1, <2>2, <3>1, EraseCounted
  <2> HIDE DEF E
  <2>4. /\ r \in SubsType
        /\ r.lease = E.lease /\ r.users = E.users
        /\ r.alive = [x \in Conns |-> x \notin {c} /\ E.alive[x]]
    BY <2>3, RevokeKeeps
  <2> HIDE DEF r
  <2>5. Cardinality(Leased(r)) \in Nat
    BY FiniteConns DEF Leased
  <2>6. /\ l \in SubsType
        /\ l.lease = r.lease /\ l.users = r.users /\ l.alive = r.alive
    BY <2>4, <2>5 DEF SubsType
  <2> HIDE DEF l
  <2>7. Counted(l, Nothing)
    <3>1. l.lease = E.lease /\ l.users = E.users
      BY <2>4, <2>6
    <3>2. \A t \in Streams : Naming(l, t) = Naming(E, t)
      BY <3>1 DEF Naming
    <3> QED
      BY <2>3, <3>1, <3>2 DEF Counted
  <2>9. /\ subs' \in SubsType
        /\ Counted(subs', Nothing)
        /\ \A x \in Conns : subs'.lease[x] = l.lease[x] \/ (subs'.lease[x] = {} /\ ~subs'.alive[x])
        /\ \A x \in Conns : subs'.alive[x] => l.alive[x]
    BY <1>3, <2>1, <2>2, <2>6, <2>7, AppliedCounted
  <2>11. ASSUME NEW x \in Conns
         PROVE  /\ l.lease[x] = subs.lease[x] \/ (l.lease[x] = {} /\ ~l.alive[x])
                /\ l.alive[x] => subs.alive[x]
    <3>1. l.alive[x] = (x \notin {c} /\ E.alive[x])
      BY <2>4, <2>6
    <3>2. l.lease[x] = IF x \in {c} THEN {} ELSE subs.lease[x]
      BY <2>3, <2>4, <2>6
    <3> QED
      BY <2>3, <3>1, <3>2
  <2>12. Narrower(subs, subs')
    BY <2>9, <2>11 DEF Narrower
  <2> QED
    BY <2>9, <2>12
<1> QED
  BY <1>2, <1>3 DEF Release

\* The worker's look at the subscriptions leaves them as narrow.
LEMMA ApplyEffect ==
  ASSUME IInv, subs' = Applied(subs, dev)
  PROVE  /\ subs' \in SubsType
         /\ Counted(subs', Nothing)
         /\ Narrower(subs, subs')
<1>1. subs \in SubsType /\ Counted(subs, Nothing)
  BY DEF IInv, Typed
<1>2. Nothing \in [Streams -> Nat]
  BY DEF Nothing
<1>3. /\ subs' \in SubsType
      /\ Counted(subs', Nothing)
      /\ \A x \in Conns : subs'.lease[x] = subs.lease[x] \/ (subs'.lease[x] = {} /\ ~subs'.alive[x])
      /\ \A x \in Conns : subs'.alive[x] => subs.alive[x]
  BY <1>1, <1>2, AppliedCounted
<1> QED
  BY <1>3 DEF Narrower

\* The invariant survives a step that narrows the leases and moves the
\* connections at most from an answered place to another.
LEMMA NarrowStep ==
  ASSUME IInv, subs' \in SubsType, Counted(subs', Nothing), Narrower(subs, subs'),
         pc' \in [Conns -> Places], UNCHANGED <<mask, wake, pid>>,
         \A c \in Conns : \/ pc'[c] = pc[c]
                          \/ pc'[c] \notin {"check", "acquire"} /\ pc[c] # "wake"
                               /\ (pc'[c] \in {"wake", "reply", "stream"}
                                     => pc[c] \in {"wake", "reply", "stream"})
                          \/ pc[c] = "check" /\ pc'[c] \in {"acquire", "close"}
  PROVE  IInv'
<1>1. Typed'
  BY DEF IInv, Typed
<1>2. Fresh'
  <2> SUFFICES ASSUME NEW c \in Conns, pc'[c] \in {"check", "acquire"}
               PROVE  subs'.lease[c] = {} /\ mask'[c] # {}
    BY DEF Fresh
  <2>1. pc[c] \in {"check", "acquire"}
    OBVIOUS
  <2> QED
    BY <2>1 DEF IInv, Fresh, Narrower
<1>3. Leased(subs') \subseteq Leased(subs)
  BY DEF Narrower, Leased
<1>4. OneLeasePerProcess'
  BY <1>3 DEF IInv, OneLeasePerProcess
<1>6. LostIsTold'
  <2> SUFFICES ASSUME NEW c \in Conns, pc'[c] \in {"wake", "reply", "stream"},
                      subs'.lease[c] = {}
               PROVE  ~subs'.alive[c] \/ \E x \in Conns : pc'[x] = "wake" /\ c \in wake'[x]
    BY DEF LostIsTold, Told
  <2>1. pc[c] \in {"wake", "reply", "stream"}
    OBVIOUS
  <2>2. CASE subs.lease[c] = {}
    <3>1. CASE subs.alive[c]
      <4>1. PICK x \in Conns : pc[x] = "wake" /\ c \in wake[x]
        BY <2>1, <2>2, <3>1 DEF IInv, LostIsTold, Told
      <4>2. pc'[x] = "wake"
        BY <4>1
      <4> QED
        BY <4>1, <4>2
    <3>2. CASE ~subs.alive[c]
      BY <3>2 DEF Narrower
    <3> QED
      BY <3>1, <3>2
  <2>3. CASE subs.lease[c] # {}
    BY <2>3 DEF Narrower
  <2> QED
    BY <2>2, <2>3
<1> QED
  BY <1>1, <1>2, <1>4, <1>6 DEF IInv

LEMMA ConnectStep ==
  ASSUME IInv, NEW c \in Conns, NEW p \in Pids \cup {NoPid}, NEW m \in Masks, Connect(c, p, m)
  PROVE  IInv'
<1>1. /\ pc[c] = "off" /\ subs.lease[c] = {}
      /\ pc' = [pc EXCEPT ![c] = "check"] /\ pid' = [pid EXCEPT ![c] = p]
      /\ mask' = [mask EXCEPT ![c] = m]
      /\ subs' = subs /\ wake' = wake
  BY DEF Connect, Goto, Forgotten
<1>2. m \in SUBSET Streams /\ m # {}
  BY MasksAssumption DEF ValidMask
<1>3. Typed
  BY DEF IInv
<1>4. Typed'
  BY <1>1, <1>2, <1>3 DEF Typed, Places
<1>5. Fresh'
  <2> SUFFICES ASSUME NEW x \in Conns, pc'[x] \in {"check", "acquire"}
               PROVE  subs.lease[x] = {} /\ mask'[x] # {}
    BY <1>1 DEF Fresh
  <2>1. CASE x = c
    BY <1>1, <1>2, <1>3, <2>1 DEF Typed
  <2>2. CASE x # c
    BY <1>1, <1>3, <2>2 DEF Typed, IInv, Fresh
  <2> QED
    BY <2>1, <2>2
<1>6. OneLeasePerProcess'
  <2>1. \A x \in Leased(subs) : x \in Conns /\ x # c /\ pid'[x] = pid[x]
    BY <1>1, <1>3 DEF Leased, Typed
  <2> QED
    BY <1>1, <2>1 DEF IInv, OneLeasePerProcess
<1>7. LostIsTold'
  <2> SUFFICES ASSUME NEW x \in Conns, pc'[x] \in {"wake", "reply", "stream"},
                      subs.lease[x] = {}, subs.alive[x]
               PROVE  \E y \in Conns : pc'[y] = "wake" /\ x \in wake[y]
    BY <1>1 DEF LostIsTold, Told
  <2>1. pc[x] \in {"wake", "reply", "stream"}
    BY <1>1, <1>3 DEF Typed
  <2>2. PICK y \in Conns : pc[y] = "wake" /\ x \in wake[y]
    BY <2>1 DEF IInv, LostIsTold, Told
  <2>3. pc'[y] = "wake"
    BY <1>1, <1>3, <2>2 DEF Typed
  <2> QED
    BY <2>2, <2>3
<1> QED
  BY <1>1, <1>4, <1>5, <1>6, <1>7 DEF IInv

LEMMA AcquireStep ==
  ASSUME IInv, NEW c \in Conns, Acquire(c), dev.online
  PROVE  IInv'
<1>1. /\ pc[c] = "acquire" /\ UNCHANGED <<pid, mask>>
      /\ \/ pc' = [pc EXCEPT ![c] = IF Superseded(c) = {} THEN "reply" ELSE "wake"]
            /\ wake' = [wake EXCEPT ![c] = Superseded(c)]
         \/ pc' = [pc EXCEPT ![c] = "close"] /\ wake' = wake
  BY DEF Acquire, Goto
<1>2. Typed /\ Superseded(c) \in SUBSET Conns
  BY DEF IInv, Superseded, Leased
<1>3. \A x \in Conns \ {c} : pc'[x] = pc[x] /\ wake'[x] = wake[x]
  BY <1>1, <1>2 DEF Typed
<1>4. Typed'
  <2>1. pc' \in [Conns -> Places]
    BY <1>1, <1>2 DEF Typed, Places
  <2>2. wake' \in [Conns -> SUBSET Conns]
    BY <1>1, <1>2 DEF Typed
  <2> QED
    BY <1>1, <1>2, <2>1, <2>2, AcquireEffect DEF Typed
<1>5. Fresh'
  <2> SUFFICES ASSUME NEW x \in Conns, pc'[x] \in {"check", "acquire"}
               PROVE  subs'.lease[x] = {} /\ mask[x] # {}
    BY <1>1 DEF Fresh
  <2>1. x # c
    BY AcquireEffect
  <2>2. subs.lease[x] = {} /\ mask[x] # {}
    BY <1>3, <2>1 DEF IInv, Fresh
  <2> QED
    BY <2>1, <2>2, AcquireEffect
<1>6. OneLeasePerProcess'
  <2>1. \A x \in Leased(subs') : x \in Conns /\ (x # c => x \in Leased(subs))
    BY AcquireEffect DEF Leased
  <2>2. ASSUME NEW x \in Leased(subs'), x # c, c \in Leased(subs'), pid[x] = pid[c]
        PROVE  pid[c] = NoPid
    <3>1. subs'.lease[x] # {} /\ subs'.lease[c] # {}
      BY <2>2 DEF Leased
    <3>2. x \notin Superseded(c)
      BY <3>1, AcquireEffect
    <3> QED
      BY <2>1, <2>2, <3>2 DEF Superseded
  <2> SUFFICES ASSUME NEW x \in Leased(subs'), NEW y \in Leased(subs'), x # y, pid[x] = pid[y]
               PROVE  pid[x] = NoPid
    BY <1>1 DEF OneLeasePerProcess
  <2>3. CASE x # c /\ y # c
    BY <2>1, <2>3 DEF IInv, OneLeasePerProcess
  <2>4. CASE x = c \/ y = c
    BY <2>2, <2>4
  <2> QED
    BY <2>3, <2>4
<1>8. LostIsTold'
  <2> SUFFICES ASSUME NEW x \in Conns, pc'[x] \in {"wake", "reply", "stream"},
                      subs'.lease[x] = {}
               PROVE  ~subs'.alive[x] \/ \E y \in Conns : pc'[y] = "wake" /\ x \in wake'[y]
    BY DEF LostIsTold, Told
  <2>1. mask[c] # {}
    BY <1>1 DEF IInv, Fresh
  <2>2. x # c
    BY <2>1, AcquireEffect
  <2>3. CASE subs.lease[x] = {} /\ subs.alive[x]
    <3>1. PICK y \in Conns : pc[y] = "wake" /\ x \in wake[y]
      BY <1>3, <2>2, <2>3 DEF IInv, LostIsTold, Told
    <3>2. pc'[y] = "wake" /\ wake'[y] = wake[y]
      BY <1>1, <1>3, <3>1
    <3> QED
      BY <3>1, <3>2
  <2>4. CASE subs.lease[x] = {} /\ ~subs.alive[x]
    BY <2>2, <2>4, AcquireEffect
  <2>5. CASE subs.lease[x] # {}
    BY <2>2, <2>5, AcquireEffect
  <2> QED
    BY <2>3, <2>4, <2>5
<1> QED
  BY <1>4, <1>5, <1>6, <1>8, AcquireEffect DEF IInv

LEMMA WakeStep ==
  ASSUME IInv, NEW c \in Conns, Wake(c)
  PROVE  IInv'
<1> DEFINE N == {fd[x] : x \in wake[c]} \ {fd[c]}
<1>1. /\ pc[c] = "wake" /\ UNCHANGED <<pid, mask>>
      /\ pc' = [pc EXCEPT ![c] = "reply"] /\ wake' = [wake EXCEPT ![c] = {}]
      /\ subs' = Revoke(subs, wake[c], N)
  BY DEF Wake, Goto
<1> HIDE DEF N
<1>2. Typed
  BY DEF IInv
<1>3. /\ subs' \in SubsType
      /\ subs'.lease = subs.lease /\ subs'.users = subs.users
      /\ subs'.alive = [x \in Conns |-> x \notin wake[c] /\ subs.alive[x]]
  BY <1>1, <1>2, RevokeKeeps DEF Typed
<1>4. Leased(subs') = Leased(subs) /\ \A t \in Streams : Naming(subs', t) = Naming(subs, t)
  BY <1>3 DEF Leased, Naming
<1>5. Typed'
  BY <1>1, <1>2, <1>3 DEF Typed, Places
<1>6. Fresh'
  <2> SUFFICES ASSUME NEW x \in Conns, pc'[x] \in {"check", "acquire"}
               PROVE  subs.lease[x] = {} /\ mask[x] # {}
    BY <1>1, <1>3 DEF Fresh
  <2>1. pc[x] \in {"check", "acquire"}
    BY <1>1, <1>2 DEF Typed
  <2> QED
    BY <2>1 DEF IInv, Fresh
<1>7. Counted(subs', Nothing)
  BY <1>3, <1>4 DEF IInv, Counted
<1>8. OneLeasePerProcess'
  BY <1>1, <1>4 DEF IInv, OneLeasePerProcess
<1>10. LostIsTold'
  <2> SUFFICES ASSUME NEW x \in Conns, pc'[x] \in {"wake", "reply", "stream"},
                      subs.lease[x] = {}, subs'.alive[x]
               PROVE  \E y \in Conns : pc'[y] = "wake" /\ x \in wake'[y]
    BY <1>3 DEF LostIsTold, Told
  <2>1. subs'.alive[x] = (x \notin wake[c] /\ subs.alive[x])
    BY <1>3
  <2>2. pc[x] \in {"wake", "reply", "stream"}
    BY <1>1, <1>2 DEF Typed
  <2>3. PICK y \in Conns : pc[y] = "wake" /\ x \in wake[y]
    BY <2>1, <2>2 DEF IInv, LostIsTold, Told
  <2>4. y # c
    BY <2>1, <2>3
  <2>5. pc'[y] = "wake" /\ wake'[y] = wake[y]
    BY <1>1, <1>2, <2>3, <2>4 DEF Typed
  <2> QED
    BY <2>3, <2>5
<1> QED
  BY <1>5, <1>6, <1>7, <1>8, <1>10 DEF IInv

LEMMA CloseActionStep ==
  ASSUME IInv, NEW c \in Conns, Close(c)
  PROVE  IInv'
<1>1. /\ pc[c] = "close" /\ wake' = wake
      /\ pc' = [pc EXCEPT ![c] = "off"] /\ mask' = [mask EXCEPT ![c] = {}]
      /\ subs' = [subs EXCEPT !.cut[c] = FALSE]
      /\ pid' = pid \/ (subs.lease[c] = {} /\ pid' = [pid EXCEPT ![c] = NoPid])
  BY DEF Close, Goto, Forgotten
<1>2. Typed
  BY DEF IInv
<1>3. /\ subs' \in SubsType
      /\ subs'.lease = subs.lease /\ subs'.users = subs.users
      /\ subs'.alive = subs.alive
  BY <1>1, <1>2 DEF Typed, SubsType
<1>4. Leased(subs') = Leased(subs) /\ \A t \in Streams : Naming(subs', t) = Naming(subs, t)
  BY <1>3 DEF Leased, Naming
<1>5. Typed'
  BY <1>1, <1>2, <1>3 DEF Typed, Places
<1>6. Fresh'
  <2> SUFFICES ASSUME NEW x \in Conns, pc'[x] \in {"check", "acquire"}
               PROVE  subs.lease[x] = {} /\ mask'[x] # {}
    BY <1>3 DEF Fresh
  <2>1. pc[x] \in {"check", "acquire"} /\ mask'[x] = mask[x]
    BY <1>1, <1>2 DEF Typed
  <2> QED
    BY <2>1 DEF IInv, Fresh
<1>7. Counted(subs', Nothing)
  BY <1>3, <1>4 DEF IInv, Counted
<1>8. OneLeasePerProcess'
  <2>1. \A x \in Leased(subs) : x \in Conns /\ pid'[x] = pid[x]
    BY <1>1, <1>2 DEF Leased, Typed
  <2> QED
    BY <1>4, <2>1 DEF IInv, OneLeasePerProcess
<1>10. LostIsTold'
  <2> SUFFICES ASSUME NEW x \in Conns, pc'[x] \in {"wake", "reply", "stream"},
                      subs.lease[x] = {}, subs.alive[x]
               PROVE  \E y \in Conns : pc'[y] = "wake" /\ x \in wake[y]
    BY <1>1, <1>3 DEF LostIsTold, Told
  <2>1. pc[x] \in {"wake", "reply", "stream"}
    BY <1>1, <1>2 DEF Typed
  <2>2. PICK y \in Conns : pc[y] = "wake" /\ x \in wake[y]
    BY <2>1 DEF IInv, LostIsTold, Told
  <2>3. pc'[y] = "wake"
    BY <1>1, <1>2, <2>2 DEF Typed
  <2> QED
    BY <2>2, <2>3
<1> QED
  BY <1>5, <1>6, <1>7, <1>8, <1>10 DEF IInv

LEMMA StepIInv == IInv /\ [Next]_vars => IInv'
<1> SUFFICES ASSUME IInv, [Next]_vars
             PROVE  IInv'
  OBVIOUS
<1>1. /\ subs \in SubsType /\ Counted(subs, Nothing) /\ Narrower(subs, subs)
      /\ pc \in [Conns -> Places]
  BY DEF IInv, Typed, Narrower
<1>2. CASE UNCHANGED <<subs, conns>>
  BY <1>1, <1>2, NarrowStep DEF conns
<1>3. ASSUME NEW c \in Conns, NEW p \in Pids \cup {NoPid}, NEW m \in Masks, Connect(c, p, m)
      PROVE  IInv'
  BY <1>3, ConnectStep
<1>4. ASSUME NEW c \in Conns, Thread(c) \/ HangUp(c)
      PROVE  IInv'
  <2>1. CASE Check(c)
    <3>1. pc[c] = "check" /\ subs' = subs /\ UNCHANGED <<mask, wake, pid>>
            /\ (pc' = [pc EXCEPT ![c] = "acquire"] \/ pc' = [pc EXCEPT ![c] = "close"])
      BY <2>1 DEF Check, Goto
    <3>2. pc' \in [Conns -> Places] /\ pc'[c] \in {"acquire", "close"}
            /\ \A x \in Conns \ {c} : pc'[x] = pc[x]
      BY <1>1, <3>1 DEF Places
    <3> QED
      BY <1>1, <3>1, <3>2, NarrowStep
  <2>2. CASE Acquire(c)
    <3>1. CASE dev.online
      BY <2>2, <3>1, AcquireStep
    <3>2. CASE ~dev.online
      <4>1. pc[c] = "acquire" /\ subs' = subs /\ UNCHANGED <<mask, wake, pid>>
              /\ pc' = [pc EXCEPT ![c] = "close"]
        BY <2>2, <3>2 DEF Acquire, Goto
      <4>2. pc' \in [Conns -> Places] /\ pc'[c] = "close"
              /\ \A x \in Conns \ {c} : pc'[x] = pc[x]
        BY <1>1, <4>1 DEF Places
      <4> QED
        BY <1>1, <4>1, <4>2, NarrowStep
    <3> QED
      BY <3>1, <3>2
  <2>3. CASE Wake(c)
    BY <2>3, WakeStep
  <2>4. CASE Reply(c)
    <3>1. pc[c] = "reply" /\ subs' = subs /\ UNCHANGED <<mask, wake, pid>>
            /\ (pc' = [pc EXCEPT ![c] = "stream"] \/ pc' = [pc EXCEPT ![c] = "close"])
      BY <2>4 DEF Reply, Goto
    <3>2. pc' \in [Conns -> Places] /\ pc'[c] \in {"stream", "close"}
            /\ \A x \in Conns \ {c} : pc'[x] = pc[x]
      BY <1>1, <3>1 DEF Places
    <3> QED
      BY <1>1, <3>1, <3>2, NarrowStep
  <2>5. CASE EndStream(c) \/ HangUp(c)
    <3>1. pc[c] = "stream" /\ subs' = subs /\ UNCHANGED <<mask, wake, pid>>
            /\ pc' = [pc EXCEPT ![c] = "release"]
      BY <2>5 DEF EndStream, HangUp, Goto
    <3>2. pc' \in [Conns -> Places] /\ pc'[c] = "release"
            /\ \A x \in Conns \ {c} : pc'[x] = pc[x]
      BY <1>1, <3>1 DEF Places
    <3> QED
      BY <1>1, <3>1, <3>2, NarrowStep
  <2>6. CASE Release(c)
    <3>1. pc[c] = "release" /\ UNCHANGED <<mask, wake, pid>> /\ pc' = [pc EXCEPT ![c] = "close"]
      BY <2>6 DEF Release, Goto
    <3>2. pc' \in [Conns -> Places] /\ pc'[c] = "close"
            /\ \A x \in Conns \ {c} : pc'[x] = pc[x]
      BY <1>1, <3>1 DEF Places
    <3>3. /\ subs' \in SubsType /\ Counted(subs', Nothing) /\ Narrower(subs, subs')
      BY <2>6, ReleaseEffect
    <3> QED
      BY <1>1, <3>1, <3>2, <3>3, NarrowStep
  <2>7. CASE Close(c)
    BY <2>7, CloseActionStep
  <2> QED
    BY <1>4, <2>1, <2>2, <2>3, <2>4, <2>5, <2>6, <2>7 DEF Thread
<1>5. CASE ApplyStep
  <2>1. subs' = Applied(subs, dev) /\ UNCHANGED <<pc, mask, wake, pid>>
    BY <1>5 DEF ApplyStep, conns
  <2>2. /\ subs' \in SubsType /\ Counted(subs', Nothing) /\ Narrower(subs, subs')
    BY <2>1, ApplyEffect
  <2> QED
    BY <1>1, <2>1, <2>2, NarrowStep
<1>6. CASE \/ OpenStep \/ CloseStep \/ Shutdown
           \/ VideoFrame \/ VideoTimeout \/ DepthFrame \/ DepthTimeout
           \/ Unplug \/ Replug
  BY <1>2, <1>6 DEF OpenStep, CloseStep, Shutdown, VideoFrame, VideoTimeout,
                    DepthFrame, DepthTimeout, Unplug, Replug
<1>7. CASE UNCHANGED vars
  BY <1>2, <1>7 DEF vars
<1> QED
  BY <1>3, <1>4, <1>5, <1>6, <1>7 DEF Next, Worker

-----------------------------------------------------------------------------
(* Lemmas about the camera object and the stages of apply_locked.          *)

\* What the hub and the object know of the two engines and no operation of
\* another engine changes.
SameVideo(d, e) == /\ e.videoOn = d.videoOn /\ e.mode = d.mode
                   /\ e.running = d.running /\ e.fw = d.fw
SameHub(d, e)   == /\ e.online = d.online /\ e.live = d.live
SameDepth(d, e) == e.depthOn = d.depthOn

\* The video engine as far as the hub can tell: a stream that is on is sent in
\* its mode or not at all, and the object never runs an engine the hub has off.
VideoKnown(d) ==
  /\ d.videoOn => d.fw \in {d.mode, "off"}
  /\ d.running => d.videoOn
  /\ d.running /\ d.live => d.fw = d.mode

\* A command succeeds with the value it writes, or leaves either one.
LEMMA WriteOutcome ==
  ASSUME NEW d, NEW cmd, NEW old, NEW new, NEW o \in Write(d, cmd, old, new)
  PROVE  /\ o.rc \in {"ok", "fail"} /\ o.val \in {old, new}
         /\ o.rc = "ok" => o.val = new
<1>1. CASE ~d.live
  BY <1>1 DEF Write
<1>2. CASE d.live
  <2>1. \/ o = [rc |-> "ok", val |-> new]
        \/ \E v \in {old, new} : o = [rc |-> "fail", val |-> v]
    BY <1>2 DEF Write
  <2> QED
    BY <2>1
<1> QED
  BY <1>1, <1>2

\* suspend_video: the object counts the engine as stopped.
LEMMA SuspendVideoKeeps ==
  ASSUME NEW d \in DevType, NEW e \in SuspendVideo(d)
  PROVE  /\ e \in DevType /\ e.rc \in {"ok", "fail"}
         /\ SameHub(d, e) /\ SameDepth(d, e)
         /\ e.videoOn = d.videoOn /\ e.mode = d.mode
         /\ ~e.running /\ e.fw \in {d.fw, "off"}
<1>1. CASE ~d.running
  <2>1. e = [d EXCEPT !.rc = "ok"]
    BY <1>1 DEF SuspendVideo
  <2> QED
    BY <1>1, <2>1 DEF DevType, SameHub, SameDepth
<1>2. CASE d.running
  <2>1. PICK o \in Write(d, "videoStop", d.fw, "off") :
          e = [d EXCEPT !.running = FALSE, !.rc = o.rc, !.fw = o.val]
    BY <1>2 DEF SuspendVideo
  <2>2. o.rc \in {"ok", "fail"} /\ o.val \in {d.fw, "off"}
    BY WriteOutcome
  <2>3. d.fw \in Modes \cup {"off"}
    BY DEF DevType
  <2> QED
    BY <2>1, <2>2, <2>3 DEF DevType, SameHub, SameDepth
<1> QED
  BY <1>1, <1>2

\* configure_video and the enable: the engine runs exactly when both succeed.
LEMMA EnableVideoKeeps ==
  ASSUME NEW d \in DevType, ~d.running, NEW m \in Modes, NEW e \in EnableVideo(d, m)
  PROVE  /\ e \in DevType /\ e.rc \in {"ok", "fail"}
         /\ SameHub(d, e) /\ SameDepth(d, e)
         /\ e.videoOn = d.videoOn /\ e.mode = d.mode
         /\ e.running <=> e.rc = "ok"
         /\ e.rc = "ok" => e.fw = m
<1> DEFINE configured == {[d EXCEPT !.vmode = m, !.rc = o.rc, !.fw = o.val] :
                            o \in Write(d, "videoConfig", d.fw, "off")}
           Enabled(i) == {[i EXCEPT !.armed = TRUE, !.running = (o.rc = "ok"),
                                    !.rc = o.rc, !.fw = o.val] :
                            o \in Write(i, "videoEnable", "off", m)}
<1>1. PICK i \in configured : e \in IF i.rc = "ok" THEN Enabled(i) ELSE {i}
  BY DEF EnableVideo
<1>2. PICK o \in Write(d, "videoConfig", d.fw, "off") :
        i = [d EXCEPT !.vmode = m, !.rc = o.rc, !.fw = o.val]
  OBVIOUS
<1> HIDE DEF configured
<1>3. /\ i \in DevType /\ i.rc \in {"ok", "fail"} /\ ~i.running
      /\ SameHub(d, i) /\ SameDepth(d, i)
      /\ i.videoOn = d.videoOn /\ i.mode = d.mode
  <2>1. o.rc \in {"ok", "fail"} /\ o.val \in {d.fw, "off"} /\ d.fw \in Modes \cup {"off"}
    BY WriteOutcome DEF DevType
  <2> QED
    BY <1>2, <2>1 DEF DevType, SameHub, SameDepth
<1>4. CASE i.rc = "ok"
  <2>1. PICK p \in Write(i, "videoEnable", "off", m) :
          e = [i EXCEPT !.armed = TRUE, !.running = (p.rc = "ok"), !.rc = p.rc, !.fw = p.val]
    BY <1>1, <1>4
  <2> HIDE DEF Enabled
  <2>2. p.rc \in {"ok", "fail"} /\ p.val \in {m, "off"} /\ (p.rc = "ok" => p.val = m)
    BY WriteOutcome
  <2>3. CASE p.rc = "ok"
    <3>1. e = [i EXCEPT !.armed = TRUE, !.running = TRUE, !.rc = "ok", !.fw = m]
      BY <2>1, <2>2, <2>3
    <3> QED
      BY <1>3, <3>1 DEF DevType, SameHub, SameDepth
  <2>4. CASE p.rc = "fail"
    <3>1. e = [i EXCEPT !.armed = TRUE, !.running = FALSE, !.rc = "fail", !.fw = p.val]
      BY <2>1, <2>4
    <3> QED
      BY <1>3, <2>2, <3>1 DEF DevType, SameHub, SameDepth
  <2> QED
    BY <2>2, <2>3, <2>4
<1>5. CASE i.rc # "ok"
  BY <1>1, <1>3, <1>5 DEF SameHub, SameDepth
<1> QED
  BY <1>4, <1>5

\* start_video of a stopped engine.
LEMMA StartVideoKeeps ==
  ASSUME NEW d \in DevType, ~d.running, NEW m \in Modes, NEW e \in StartVideo(d, m)
  PROVE  /\ e \in DevType /\ e.rc \in {"ok", "fail"}
         /\ SameHub(d, e) /\ SameDepth(d, e)
         /\ e.videoOn = d.videoOn /\ e.mode = d.mode
         /\ e.running <=> e.rc = "ok"
         /\ e.rc = "ok" => e.fw = m
<1>1. PICK i \in SuspendVideo(d) : e \in IF i.rc = "ok" THEN EnableVideo(i, m) ELSE {i}
  BY DEF StartVideo
<1>2. /\ i \in DevType /\ i.rc = "ok" /\ ~i.running
      /\ SameHub(d, i) /\ SameDepth(d, i)
      /\ i.videoOn = d.videoOn /\ i.mode = d.mode
  <2>1. i = [d EXCEPT !.rc = "ok"]
    BY <1>1 DEF SuspendVideo
  <2> QED
    BY <2>1, SuspendVideoKeeps
<1> QED
  BY <1>1, <1>2, EnableVideoKeeps DEF SameHub, SameDepth

\* set_projector_state touches the projector only.
LEMMA SetProjectorKeeps ==
  ASSUME NEW d \in DevType, NEW cmd, NEW on \in BOOLEAN, NEW e \in SetProjector(d, cmd, on)
  PROVE  /\ e \in DevType /\ e.rc \in {"ok", "fail"}
         /\ SameHub(d, e) /\ SameDepth(d, e) /\ SameVideo(d, e)
<1>1. CASE d.projector = on
  <2>1. e = [d EXCEPT !.rc = "ok"]
    BY <1>1 DEF SetProjector
  <2> QED
    BY <2>1 DEF DevType, SameHub, SameDepth, SameVideo
<1>2. CASE d.projector # on
  <2>1. PICK o \in Write(d, cmd, d.laser, on) :
          e = [d EXCEPT !.projector = (IF o.rc = "ok" THEN on ELSE d.projector),
                        !.laser = o.val, !.rc = o.rc]
    BY <1>2 DEF SetProjector
  <2>2. o.rc \in {"ok", "fail"} /\ o.val \in {d.laser, on} /\ d.laser \in BOOLEAN
    BY WriteOutcome DEF DevType
  <2>3. o.val \in BOOLEAN
    BY <2>2
  <2>4. PICK q \in BOOLEAN : q = IF o.rc = "ok" THEN on ELSE d.projector
    BY DEF DevType
  <2>5. e = [d EXCEPT !.projector = q, !.laser = o.val, !.rc = o.rc]
    BY <2>1, <2>4
  <2> HIDE <2>4
  <2> QED
    BY <2>2, <2>3, <2>5 DEF DevType, SameHub, SameDepth, SameVideo
<1> QED
  BY <1>1, <1>2

\* start_depth_preconfigured leaves the video engine alone.
LEMMA StartDepthKeeps ==
  ASSUME NEW d \in DevType, NEW e \in StartDepth(d)
  PROVE  /\ e \in DevType /\ e.rc \in {"ok", "fail"}
         /\ SameHub(d, e) /\ SameDepth(d, e) /\ SameVideo(d, e)
<1> DEFINE Idle(o) == [d EXCEPT !.laser = o.val, !.rc = o.rc,
                                !.projector = (o.rc # "ok" /\ d.projector)]
           idle == {Idle(o) : o \in Write(d, "depthIdle", d.laser, FALSE)}
           Configured(i) == {[i EXCEPT !.rc = o.rc] : o \in Write(i, "depthConfig", 0, 0)}
           Armed(i)   == [i EXCEPT !.armed = TRUE]
           Enabled(i) == {[r EXCEPT !.depthRunning = (r.rc = "ok")] :
                            r \in SetProjector(Armed(i), "depthEnable", TRUE)}
           Good(i) == /\ i \in DevType /\ i.rc \in {"ok", "fail"}
                      /\ SameHub(d, i) /\ SameDepth(d, i) /\ SameVideo(d, i)
<1>1. CASE d.depthRunning
  <2>1. e = [d EXCEPT !.rc = "ok"]
    BY <1>1 DEF StartDepth
  <2> QED
    BY <2>1 DEF DevType, SameHub, SameDepth, SameVideo
<1>2. CASE ~d.depthRunning
  <2>1. PICK i \in UNION {IF j.rc = "ok" THEN Configured(j) ELSE {j} : j \in idle} :
          e \in IF i.rc = "ok" THEN Enabled(i) ELSE {i}
    BY <1>2 DEF StartDepth
  <2>2. PICK j \in idle : i \in IF j.rc = "ok" THEN Configured(j) ELSE {j}
    OBVIOUS
  <2>3. Good(j)
    <3>1. PICK o \in Write(d, "depthIdle", d.laser, FALSE) : j = Idle(o)
      OBVIOUS
    <3>2. o.rc \in {"ok", "fail"} /\ o.val \in {d.laser, FALSE} /\ d.laser \in BOOLEAN
      BY WriteOutcome DEF DevType
    <3>3. o.val \in BOOLEAN
      BY <3>2
    <3>4. PICK q \in BOOLEAN : q = (o.rc # "ok" /\ d.projector)
      OBVIOUS
    <3>5. j = [d EXCEPT !.laser = o.val, !.rc = o.rc, !.projector = q]
      BY <3>1, <3>4
    <3> HIDE <3>4
    <3> QED
      BY <3>2, <3>3, <3>5 DEF DevType, SameHub, SameDepth, SameVideo
  <2> HIDE DEF idle
  <2>4. Good(i)
    <3>1. CASE j.rc = "ok"
      <4>1. PICK o \in Write(j, "depthConfig", 0, 0) : i = [j EXCEPT !.rc = o.rc]
        BY <2>2, <3>1
      <4>2. o.rc \in {"ok", "fail"}
        BY WriteOutcome
      <4> QED
        BY <2>3, <4>1, <4>2 DEF DevType, SameHub, SameDepth, SameVideo
    <3>2. CASE j.rc # "ok"
      BY <2>2, <2>3, <3>2
    <3> QED
      BY <3>1, <3>2
  <2>5. CASE i.rc = "ok"
    <3>1. PICK r \in SetProjector(Armed(i), "depthEnable", TRUE) :
            e = [r EXCEPT !.depthRunning = (r.rc = "ok")]
      BY <2>1, <2>5
    <3>2. Armed(i) \in DevType /\ SameHub(i, Armed(i)) /\ SameDepth(i, Armed(i))
            /\ SameVideo(i, Armed(i))
      BY <2>4 DEF DevType, SameHub, SameDepth, SameVideo
    <3> HIDE DEF Armed
    <3>3. /\ r \in DevType /\ r.rc \in {"ok", "fail"}
          /\ SameHub(Armed(i), r) /\ SameDepth(Armed(i), r) /\ SameVideo(Armed(i), r)
      BY <3>2, SetProjectorKeeps
    <3>4. PICK q \in BOOLEAN : q = (r.rc = "ok")
      OBVIOUS
    <3>5. e = [r EXCEPT !.depthRunning = q]
      BY <3>1, <3>4
    <3> HIDE <3>4
    <3>6. e \in DevType /\ e.rc = r.rc /\ SameHub(r, e) /\ SameDepth(r, e) /\ SameVideo(r, e)
      BY <3>3, <3>5 DEF DevType, SameHub, SameDepth, SameVideo
    <3> QED
      BY <2>4, <3>2, <3>3, <3>6 DEF SameHub, SameDepth, SameVideo
  <2>6. CASE i.rc # "ok"
    BY <2>1, <2>4, <2>6
  <2> QED
    BY <2>5, <2>6
<1> QED
  BY <1>1, <1>2

\* suspend_depth leaves the video engine alone.
LEMMA SuspendDepthKeeps ==
  ASSUME NEW d \in DevType, NEW e \in SuspendDepth(d)
  PROVE  /\ e \in DevType /\ e.rc \in {"ok", "fail"}
         /\ SameHub(d, e) /\ SameDepth(d, e) /\ SameVideo(d, e)
<1>1. CASE ~d.depthRunning
  <2>1. e = [d EXCEPT !.rc = "ok"]
    BY <1>1 DEF SuspendDepth
  <2> QED
    BY <2>1 DEF DevType, SameHub, SameDepth, SameVideo
<1>2. CASE d.depthRunning
  <2>1. PICK r \in SetProjector(d, "depthStop", FALSE) : e = [r EXCEPT !.depthRunning = FALSE]
    BY <1>2 DEF SuspendDepth
  <2>2. /\ r \in DevType /\ r.rc \in {"ok", "fail"}
        /\ SameHub(d, r) /\ SameDepth(d, r) /\ SameVideo(d, r)
    BY SetProjectorKeeps
  <2>3. e \in DevType /\ e.rc = r.rc /\ SameHub(r, e) /\ SameDepth(r, e) /\ SameVideo(r, e)
    BY <2>1, <2>2 DEF DevType, SameHub, SameDepth, SameVideo
  <2> QED
    BY <2>2, <2>3 DEF SameHub, SameDepth, SameVideo
<1> QED
  BY <1>1, <1>2

\* A device record between two stages of apply_locked.
Staged(d, e) ==
  /\ e \in DevType /\ e.rc \in {"ok", "fail"}
  /\ SameHub(d, e)
  /\ VideoKnown(d) => VideoKnown(e)

Demands == [video : BOOLEAN, mode : Modes, depth : BOOLEAN]

\* The first stage stops a stream nobody asks for, or of another mode.
LEMMA StopVideoStageKeeps ==
  ASSUME NEW d \in DevType, d.rc = "ok", NEW w \in Demands, NEW e \in StopVideoStage(d, w)
  PROVE  /\ Staged(d, e) /\ SameDepth(d, e)
         /\ e.rc = "ok" /\ e.videoOn => w.video /\ w.mode = e.mode
<1>1. CASE d.videoOn /\ (~w.video \/ w.mode # d.mode)
  <2>1. PICK i \in SuspendVideo(d) :
          e = [i EXCEPT !.videoOn = (i.rc # "ok"), !.seen = (i.rc # "ok" /\ d.seen),
                        !.late = (i.rc # "ok" /\ d.late)]
    BY <1>1 DEF StopVideoStage
  <2>2. /\ i \in DevType /\ i.rc \in {"ok", "fail"}
        /\ SameHub(d, i) /\ SameDepth(d, i) /\ i.mode = d.mode
        /\ ~i.running /\ i.fw \in {d.fw, "off"}
    BY SuspendVideoKeeps
  <2>3. d.seen \in BOOLEAN /\ d.late \in BOOLEAN
    BY DEF DevType
  <2>4. CASE i.rc = "ok"
    <3>1. e = [i EXCEPT !.videoOn = FALSE, !.seen = FALSE, !.late = FALSE]
      BY <2>1, <2>4
    <3> QED
      BY <2>2, <2>4, <3>1 DEF DevType, Staged, SameHub, SameDepth, VideoKnown
  <2>5. CASE i.rc = "fail"
    <3>1. e = [i EXCEPT !.videoOn = TRUE, !.seen = d.seen, !.late = d.late]
      BY <2>1, <2>3, <2>5
    <3>2. e \in DevType /\ e.rc = "fail" /\ e.mode = d.mode /\ e.fw = i.fw /\ ~e.running
      BY <2>2, <2>3, <2>5, <3>1 DEF DevType
    <3>3. SameHub(d, e) /\ SameDepth(d, e)
      BY <2>2, <3>1 DEF DevType, SameHub, SameDepth
    <3> QED
      BY <1>1, <2>2, <3>2, <3>3 DEF Staged, VideoKnown
  <2> QED
    BY <2>2, <2>4, <2>5
<1>2. CASE ~(d.videoOn /\ (~w.video \/ w.mode # d.mode))
  <2>1. e = d
    BY <1>2 DEF StopVideoStage
  <2> QED
    BY <1>2, <2>1 DEF Staged, SameHub, SameDepth
<1> QED
  BY <1>1, <1>2

\* The second starts the stream that is asked for.
LEMMA StartVideoStageKeeps ==
  ASSUME NEW d \in DevType, d.rc \in {"ok", "fail"}, VideoKnown(d), NEW w \in Demands,
         d.rc = "ok" /\ d.videoOn => w.video /\ w.mode = d.mode,
         NEW e \in StartVideoStage(d, w)
  PROVE  /\ Staged(d, e) /\ SameDepth(d, e)
         /\ e.rc = "ok" => d.rc = "ok" /\ (e.videoOn <=> w.video) /\ (w.video => e.mode = w.mode)
<1>1. CASE d.rc = "ok" /\ w.video /\ ~d.videoOn
  <2>1. PICK i \in StartVideo(d, w.mode) :
          e = [i EXCEPT !.mode = w.mode, !.videoOn = (i.rc = "ok"), !.seen = FALSE,
                        !.late = FALSE]
    BY <1>1 DEF StartVideoStage
  <2>2. w.mode \in Modes /\ ~d.running
    BY <1>1 DEF Demands, VideoKnown
  <2>3. /\ i \in DevType /\ i.rc \in {"ok", "fail"}
        /\ SameHub(d, i) /\ SameDepth(d, i)
        /\ i.running <=> i.rc = "ok"
        /\ i.rc = "ok" => i.fw = w.mode
    BY <2>2, StartVideoKeeps
  <2>4. CASE i.rc = "ok"
    <3>1. e = [i EXCEPT !.mode = w.mode, !.videoOn = TRUE, !.seen = FALSE, !.late = FALSE]
      BY <2>1, <2>4
    <3>2. e \in DevType /\ e.rc = "ok" /\ e.mode = w.mode /\ e.videoOn /\ e.fw = w.mode
      BY <2>2, <2>3, <2>4, <3>1 DEF DevType
    <3>3. SameHub(d, e) /\ SameDepth(d, e)
      BY <2>3, <3>1 DEF DevType, SameHub, SameDepth
    <3> QED
      BY <1>1, <3>2, <3>3 DEF Staged, VideoKnown
  <2>5. CASE i.rc = "fail"
    <3>1. e = [i EXCEPT !.mode = w.mode, !.videoOn = FALSE, !.seen = FALSE, !.late = FALSE]
      BY <2>1, <2>5
    <3>2. e \in DevType /\ e.rc = "fail" /\ ~e.videoOn /\ ~e.running
      BY <2>2, <2>3, <2>5, <3>1 DEF DevType
    <3>3. SameHub(d, e) /\ SameDepth(d, e)
      BY <2>3, <3>1 DEF DevType, SameHub, SameDepth
    <3> QED
      BY <3>2, <3>3 DEF Staged, VideoKnown
  <2> QED
    BY <2>3, <2>4, <2>5
<1>2. CASE ~(d.rc = "ok" /\ w.video /\ ~d.videoOn)
  <2>1. e = d
    BY <1>2 DEF StartVideoStage
  <2> QED
    BY <1>2, <2>1 DEF Staged, SameHub, SameDepth
<1> QED
  BY <1>1, <1>2

\* The third stops a depth stream nobody asks for.
LEMMA StopDepthStageKeeps ==
  ASSUME NEW d \in DevType, d.rc \in {"ok", "fail"}, NEW w \in Demands,
         NEW e \in StopDepthStage(d, w)
  PROVE  /\ Staged(d, e) /\ SameVideo(d, e)
         /\ e.rc = "ok" => d.rc = "ok" /\ (e.depthOn => w.depth)
<1>1. CASE d.rc = "ok" /\ d.depthOn /\ ~w.depth
  <2>1. PICK i \in SuspendDepth(d) :
          e = [i EXCEPT !.depthOn = (i.rc # "ok"), !.depthLate = (i.rc # "ok" /\ d.depthLate)]
    BY <1>1 DEF StopDepthStage
  <2>2. /\ i \in DevType /\ i.rc \in {"ok", "fail"}
        /\ SameHub(d, i) /\ SameVideo(d, i)
    BY SuspendDepthKeeps
  <2>3. PICK p \in BOOLEAN, q \in BOOLEAN :
          p = (i.rc # "ok") /\ q = (i.rc # "ok" /\ d.depthLate)
    OBVIOUS
  <2>4. e = [i EXCEPT !.depthOn = p, !.depthLate = q]
    BY <2>1, <2>3
  <2>5. e \in DevType /\ e.rc = i.rc /\ e.depthOn = p
    BY <2>2, <2>4 DEF DevType
  <2>6. SameHub(d, e) /\ SameVideo(d, e)
    BY <2>2, <2>4 DEF DevType, SameHub, SameVideo
  <2>7. e.rc = "ok" => ~e.depthOn
    BY <2>3, <2>5
  <2>8. VideoKnown(d) => VideoKnown(e)
    BY <2>6 DEF SameHub, SameVideo, VideoKnown
  <2> QED
    BY <1>1, <2>2, <2>5, <2>6, <2>7, <2>8 DEF Staged
<1>2. CASE ~(d.rc = "ok" /\ d.depthOn /\ ~w.depth)
  <2>1. e = d
    BY <1>2 DEF StopDepthStage
  <2> QED
    BY <1>2, <2>1 DEF Staged, SameHub, SameVideo
<1> QED
  BY <1>1, <1>2

\* The fourth starts the depth stream that is asked for.
LEMMA StartDepthStageKeeps ==
  ASSUME NEW d \in DevType, d.rc \in {"ok", "fail"}, NEW w \in Demands,
         d.rc = "ok" /\ d.depthOn => w.depth,
         NEW e \in StartDepthStage(d, w)
  PROVE  /\ Staged(d, e) /\ SameVideo(d, e)
         /\ e.rc = "ok" => d.rc = "ok" /\ (e.depthOn <=> w.depth)
<1>1. CASE d.rc = "ok" /\ w.depth /\ ~d.depthOn
  <2>1. PICK i \in StartDepth(d) : e = [i EXCEPT !.depthOn = (i.rc = "ok"), !.depthLate = FALSE]
    BY <1>1 DEF StartDepthStage
  <2>2. /\ i \in DevType /\ i.rc \in {"ok", "fail"}
        /\ SameHub(d, i) /\ SameVideo(d, i)
    BY StartDepthKeeps
  <2>3. PICK p \in BOOLEAN : p = (i.rc = "ok")
    OBVIOUS
  <2>4. e = [i EXCEPT !.depthOn = p, !.depthLate = FALSE]
    BY <2>1, <2>3
  <2>5. e \in DevType /\ e.rc = i.rc /\ e.depthOn = p
    BY <2>2, <2>4 DEF DevType
  <2>6. SameHub(d, e) /\ SameVideo(d, e)
    BY <2>2, <2>4 DEF DevType, SameHub, SameVideo
  <2>7. e.rc = "ok" => e.depthOn
    BY <2>3, <2>5
  <2>8. VideoKnown(d) => VideoKnown(e)
    BY <2>6 DEF SameHub, SameVideo, VideoKnown
  <2> QED
    BY <1>1, <2>2, <2>5, <2>6, <2>7, <2>8 DEF Staged
<1>2. CASE ~(d.rc = "ok" /\ w.depth /\ ~d.depthOn)
  <2>1. e = d
    BY <1>2 DEF StartDepthStage
  <2> QED
    BY <1>2, <2>1 DEF Staged, SameHub, SameVideo
<1> QED
  BY <1>1, <1>2

\* apply_locked ends with success only when exactly the streams that are asked
\* for are on, in the mode that is asked for.
LEMMA ApplyOutcome ==
  ASSUME NEW d \in DevType, VideoKnown(d), NEW w \in Demands, NEW e \in Apply(d, w)
  PROVE  /\ Staged(d, e) /\ VideoKnown(e)
         /\ e.rc = "ok" => /\ e.videoOn <=> w.video
                           /\ e.depthOn <=> w.depth
                           /\ w.video => e.mode = w.mode
<1>1. CASE ~d.online \/ Stalled(d, w)
  <2>1. e = [d EXCEPT !.rc = "fail"]
    BY <1>1 DEF Apply
  <2> QED
    BY <2>1 DEF DevType, Staged, SameHub, VideoKnown
<1>2. CASE d.online /\ ~Stalled(d, w)
  <2> DEFINE d0 == [d EXCEPT !.rc = "ok"]
             S1 == StopVideoStage(d0, w)
             S2 == UNION {StartVideoStage(x, w) : x \in S1}
             S3 == UNION {StopDepthStage(x, w)  : x \in S2}
             S4 == UNION {StartDepthStage(x, w) : x \in S3}
  <2>1. PICK e4 \in S4 : e \in ProjectorStage(e4, w)
    BY <1>2 DEF Apply
  <2>2. PICK e3 \in S3 : e4 \in StartDepthStage(e3, w)
    OBVIOUS
  <2>3. PICK e2 \in S2 : e3 \in StopDepthStage(e2, w)
    OBVIOUS
  <2>4. PICK e1 \in S1 : e2 \in StartVideoStage(e1, w)
    OBVIOUS
  <2>5. d0 \in DevType /\ d0.rc = "ok" /\ SameHub(d, d0) /\ VideoKnown(d0)
    BY DEF DevType, SameHub, VideoKnown
  <2> HIDE DEF d0, S2, S3, S4
  <2>6. Staged(d0, e1) /\ (e1.rc = "ok" /\ e1.videoOn => w.video /\ w.mode = e1.mode)
    BY <2>5, StopVideoStageKeeps
  <2> HIDE DEF S1
  <2>7. /\ Staged(e1, e2)
        /\ e2.rc = "ok" => (e2.videoOn <=> w.video) /\ (w.video => e2.mode = w.mode)
    BY <2>4, <2>5, <2>6, StartVideoStageKeeps DEF Staged
  <2>8. Staged(e2, e3) /\ SameVideo(e2, e3)
          /\ (e3.rc = "ok" => e2.rc = "ok" /\ (e3.depthOn => w.depth))
    BY <2>3, <2>7, StopDepthStageKeeps DEF Staged
  <2>9. Staged(e3, e4) /\ SameVideo(e3, e4)
          /\ (e4.rc = "ok" => e3.rc = "ok" /\ (e4.depthOn <=> w.depth))
    BY <2>2, <2>8, StartDepthStageKeeps DEF Staged
  <2>10. Staged(e4, e) /\ SameVideo(e4, e) /\ SameDepth(e4, e) /\ (e.rc = "ok" => e4.rc = "ok")
    <3>1. CASE e4.rc = "ok"
      <4> DEFINE on == (w.video /\ w.mode = "ir") \/ w.depth
      <4>1. on \in BOOLEAN /\ e \in SetProjector(e4, "projector", on)
        BY <2>1, <3>1 DEF ProjectorStage
      <4> HIDE DEF on
      <4>2. /\ e \in DevType /\ e.rc \in {"ok", "fail"}
            /\ SameHub(e4, e) /\ SameDepth(e4, e) /\ SameVideo(e4, e)
        BY <2>9, <4>1, SetProjectorKeeps DEF Staged
      <4> QED
        BY <3>1, <4>2 DEF Staged, SameHub, SameVideo, VideoKnown
    <3>2. CASE e4.rc # "ok"
      <4>1. e = e4
        BY <2>1, <3>2 DEF ProjectorStage
      <4> QED
        BY <2>9, <4>1 DEF Staged, SameHub, SameVideo, SameDepth
    <3> QED
      BY <3>1, <3>2
  <2>11. /\ e \in DevType /\ e.rc \in {"ok", "fail"} /\ SameHub(d, e) /\ VideoKnown(e)
    BY <2>5, <2>6, <2>7, <2>8, <2>9, <2>10 DEF Staged, SameHub
  <2>12. ASSUME e.rc = "ok"
         PROVE  /\ e.videoOn <=> w.video
                /\ e.depthOn <=> w.depth
                /\ w.video => e.mode = w.mode
    BY <2>7, <2>8, <2>9, <2>10, <2>12 DEF SameVideo, SameDepth
  <2> QED
    BY <2>11, <2>12 DEF Staged
<1> QED
  BY <1>1, <1>2

\* close_device_locked forgets both streams.
LEMMA CloseDeviceKeeps ==
  ASSUME NEW d \in DevType, NEW e \in CloseDevice(d)
  PROVE  e \in DevType /\ VideoKnown(e) /\ ~e.online
<1>1. PICK c \in CloseCamera(d) :
        e = [c EXCEPT !.online = FALSE, !.videoOn = FALSE, !.seen = FALSE, !.late = FALSE,
                      !.depthOn = FALSE, !.depthLate = FALSE]
  BY DEF CloseDevice
<1>2. c \in DevType /\ ~c.running
  <2> DEFINE quiet == UNION {UNION {SetProjector(j, "projector", FALSE) : j \in SuspendDepth(i)} :
                               i \in SuspendVideo(d)}
  <2>1. PICK q \in quiet :
          c = [q EXCEPT !.live = FALSE, !.armed = FALSE, !.running = FALSE,
                        !.depthRunning = FALSE, !.projector = FALSE]
    BY DEF CloseCamera
  <2>2. PICK i \in SuspendVideo(d) :
          q \in UNION {SetProjector(j, "projector", FALSE) : j \in SuspendDepth(i)}
    OBVIOUS
  <2> HIDE DEF quiet
  <2>3. PICK j \in SuspendDepth(i) : q \in SetProjector(j, "projector", FALSE)
    BY <2>2
  <2>4. j \in DevType
    <3>1. i \in DevType
      BY SuspendVideoKeeps
    <3> QED
      BY <3>1, SuspendDepthKeeps
  <2>5. q \in DevType
    BY <2>3, <2>4, SetProjectorKeeps
  <2>6. ~c.running
    BY ONLY <2>1, <2>5 DEF DevType
  <2>7. c \in DevType
    <3> DEFINE half == [q EXCEPT !.live = FALSE, !.armed = FALSE, !.running = FALSE]
    <3>1. half \in DevType
      BY ONLY <2>5 DEF DevType
    <3>2. c = [half EXCEPT !.depthRunning = FALSE, !.projector = FALSE]
      BY ONLY <2>1
    <3> HIDE DEF half
    <3> QED
      BY ONLY <3>1, <3>2 DEF DevType
  <2> QED
    BY <2>6, <2>7
<1> QED
  BY <1>1, <1>2 DEF DevType, VideoKnown

LEMMA OpenDeviceKeeps ==
  ASSUME NEW d \in DevType
  PROVE  OpenDevice(d) \in DevType /\ VideoKnown(OpenDevice(d)) /\ OpenDevice(d).rc = "none"
<1>1. OpenCamera(d) \in DevType /\ ~OpenCamera(d).running /\ OpenCamera(d).rc = "none"
  BY DEF OpenCamera, DevType
<1> QED
  BY <1>1 DEF OpenDevice, DevType, Modes, VideoKnown

-----------------------------------------------------------------------------
(* The device follows the subscriptions.                                    *)

Named(s, t) == \E c \in Conns : t \in s.lease[c]

\* Arbitrated of any subscriptions and any device record.
Suits(s, d) ==
  d.online /\ d.live /\ d.rc = "ok" =>
    /\ d.videoOn <=> Named(s, "rgb") \/ Named(s, "hq") \/ Named(s, "ir")
    /\ d.depthOn <=> Named(s, "depth")
    /\ Named(s, "ir") => d.mode = "ir" /\ d.fw \in {"ir", "off"}
    /\ Named(s, "hq") /\ ~Named(s, "ir") => d.mode = "hq" /\ d.fw \in {"hq", "off"}
    /\ (Named(s, "rgb") \/ Named(s, "hq") \/ Named(s, "ir")) /\ d.running =>
         d.fw \in {"rgb", "hq", "ir"} /\ Named(s, d.fw)

DevInv == dev \in DevType /\ VideoKnown(dev) /\ Suits(subs, dev)

LEMMA SuitsIsArbitrated == Suits(subs, dev) <=> Arbitrated
<1>1. \A t : Asked(t) <=> Named(subs, t)
  BY DEF Asked, Named
<1>2. AskedVideo # {} <=> Named(subs, "rgb") \/ Named(subs, "hq") \/ Named(subs, "ir")
  BY <1>1 DEF AskedVideo
<1>3. \A t : t \in AskedVideo <=> t \in {"rgb", "hq", "ir"} /\ Named(subs, t)
  BY <1>1 DEF AskedVideo
<1> QED
  BY <1>1, <1>2, <1>3 DEF Suits, Arbitrated

\* A counter is above zero exactly when a subscription names its stream.
LEMMA CountedIsNamed ==
  ASSUME NEW s \in SubsType, Counted(s, Nothing), NEW t \in Streams
  PROVE  s.users[t] \in Nat /\ (s.users[t] > 0 <=> Named(s, t))
<1>1. s.users[t] = Cardinality(Naming(s, t)) + 0
  BY DEF Counted, Nothing
<1>2. IsFiniteSet(Naming(s, t)) /\ Cardinality(Naming(s, t)) \in Nat
  <2>1. Naming(s, t) \subseteq Conns
    BY DEF Naming
  <2> QED
    BY <2>1, FiniteConns
<1>3. Cardinality(Naming(s, t)) = 0 <=> Naming(s, t) = {}
  BY <1>2, FS_EmptySet
<1>4. Naming(s, t) # {} <=> Named(s, t)
  BY DEF Naming, Named
<1> QED
  BY <1>1, <1>2, <1>3, <1>4

\* What the counters make apply_locked want.
LEMMA WantType ==
  ASSUME NEW users \in [Streams -> Nat]
  PROVE  Want(users) \in Demands
<1>1. users["rgb"] \in Nat /\ users["hq"] \in Nat /\ users["ir"] \in Nat /\ users["depth"] \in Nat
  BY DEF Streams
<1>2. (users["rgb"] + users["hq"] + users["ir"] > 0) \in BOOLEAN /\ (users["depth"] > 0) \in BOOLEAN
  OBVIOUS
<1>3. (IF users["ir"] > 0 THEN "ir" ELSE IF users["hq"] > 0 THEN "hq" ELSE "rgb") \in Modes
  BY DEF Modes
<1> QED
  BY <1>2, <1>3, Zenon DEF Want, Demands

LEMMA WantIsNamed ==
  ASSUME NEW s \in SubsType, Counted(s, Nothing)
  PROVE  LET w == Want(s.users)
         IN  /\ w.video <=> Named(s, "rgb") \/ Named(s, "hq") \/ Named(s, "ir")
             /\ w.depth <=> Named(s, "depth")
             /\ Named(s, "ir") => w.mode = "ir"
             /\ Named(s, "hq") /\ ~Named(s, "ir") => w.mode = "hq"
             /\ ~Named(s, "hq") /\ ~Named(s, "ir") => w.mode = "rgb"
<1> DEFINE u == s.users
<1>1. /\ u["rgb"] \in Nat /\ (u["rgb"] > 0 <=> Named(s, "rgb"))
      /\ u["hq"] \in Nat /\ (u["hq"] > 0 <=> Named(s, "hq"))
      /\ u["ir"] \in Nat /\ (u["ir"] > 0 <=> Named(s, "ir"))
      /\ u["depth"] \in Nat /\ (u["depth"] > 0 <=> Named(s, "depth"))
  BY CountedIsNamed DEF Streams
<1>2. /\ Want(u).video = (u["rgb"] + u["hq"] + u["ir"] > 0)
      /\ Want(u).depth = (u["depth"] > 0)
      /\ Want(u).mode = IF u["ir"] > 0 THEN "ir" ELSE IF u["hq"] > 0 THEN "hq" ELSE "rgb"
  BY DEF Want
<1> HIDE DEF u
<1>3. u["rgb"] + u["hq"] + u["ir"] > 0 <=> u["rgb"] > 0 \/ u["hq"] > 0 \/ u["ir"] > 0
  BY <1>1
<1>4. Want(u).video <=> Named(s, "rgb") \/ Named(s, "hq") \/ Named(s, "ir")
  BY <1>1, <1>2, <1>3, Zenon
<1>5. Want(u).depth <=> Named(s, "depth")
  BY <1>1, <1>2, Zenon
<1>6. /\ Named(s, "ir") => Want(u).mode = "ir"
      /\ Named(s, "hq") /\ ~Named(s, "ir") => Want(u).mode = "hq"
      /\ ~Named(s, "hq") /\ ~Named(s, "ir") => Want(u).mode = "rgb"
  BY <1>1, <1>2
<1> QED
  BY <1>4, <1>5, <1>6 DEF u

\* After apply_locked has succeeded the device suits the subscriptions.
LEMMA SuitsAfterApply ==
  ASSUME NEW d \in DevType, VideoKnown(d), NEW s \in SubsType, Counted(s, Nothing),
         NEW e \in Apply(d, Want(s.users))
  PROVE  Suits(s, e)
<1>1. Want(s.users) \in Demands
  <2>1. s.users \in [Streams -> Nat]
    BY DEF SubsType
  <2> QED
    BY <2>1, WantType
<1> DEFINE w == Want(s.users)
<1>2. /\ w.video <=> Named(s, "rgb") \/ Named(s, "hq") \/ Named(s, "ir")
      /\ w.depth <=> Named(s, "depth")
      /\ Named(s, "ir") => w.mode = "ir"
      /\ Named(s, "hq") /\ ~Named(s, "ir") => w.mode = "hq"
      /\ ~Named(s, "hq") /\ ~Named(s, "ir") => w.mode = "rgb"
  BY WantIsNamed
<1> HIDE DEF w
<1>3. /\ VideoKnown(e)
      /\ e.rc = "ok" => /\ e.videoOn <=> w.video
                        /\ e.depthOn <=> w.depth
                        /\ w.video => e.mode = w.mode
  BY <1>1, ApplyOutcome DEF w
<1> QED
  BY <1>2, <1>3 DEF Suits, VideoKnown

\* Giving RGB HQ up takes only the leases that name it, and is remembered.
LEMMA AppliedTakesHq ==
  ASSUME NEW s \in SubsType, NEW d, NEW x \in Conns
  PROVE  \/ Applied(s, d).lease[x] = s.lease[x]
         \/ "hq" \in s.lease[x] /\ Applied(s, d).lease[x] = {} /\ Applied(s, d).hqBad
<1>1. CASE ~HqOverdue(d)
  BY <1>1 DEF Applied
<1>2. CASE HqOverdue(d)
  <2> DEFINE D == {c \in Conns : "hq" \in s.lease[c]}
             E == Erase(s, D)
             r == Revoke(E, D, {fd[c] : c \in D})
             a == [r EXCEPT !.hqBad = TRUE, !.active = Cardinality(Leased(r))]
  <2>1. Applied(s, d) = a
    BY <1>2 DEF Applied, MarkHqUnavailable
  <2>2. E.lease = [c \in Conns |-> IF c \in D THEN {} ELSE s.lease[c]]
          /\ DOMAIN E = DOMAIN s
    BY DEF Erase, SubsType
  <2> HIDE DEF E
  <2>3. r.lease = E.lease /\ DOMAIN r = DOMAIN E
    BY DEF Revoke
  <2> HIDE DEF r
  <2>4. DOMAIN s = {"users", "lease", "alive", "cut", "active", "hqBad"}
    BY DEF SubsType
  <2>5. a.lease = r.lease /\ a.hqBad
    BY <2>2, <2>3, <2>4
  <2>6. a.lease[x] = IF x \in D THEN {} ELSE s.lease[x]
    BY <2>2, <2>3, <2>5
  <2> QED
    BY <2>1, <2>5, <2>6
<1> QED
  BY <1>1, <1>2

\* What acquire asks of the device, and what a refusal leaves.
LEMMA AcquireAsks ==
  ASSUME IInv, NEW c \in Conns, Acquire(c), dev.online
  PROVE  /\ \E users \in [Streams -> Nat] :
              /\ dev' \in Apply(dev, Want(users))
              /\ dev'.rc = "ok" => users = subs'.users
         /\ pc'[c] = "close" =>
              \A x \in Conns :
                \/ subs'.lease[x] = subs.lease[x]
                \/ subs'.hqBad /\ "hq" \in subs.lease[x] /\ subs'.lease[x] = {}
<1> DEFINE old   == Superseded(c)
           fewer == Erase(subs, old)
           asked == [fewer EXCEPT !.users = AddUsers(fewer.users, mask[c])]
           s     == Applied(asked, dev)
<1>1. /\ pc[c] = "acquire"
      /\ dev' \in Apply(dev, Want(s.users))
      /\ \/ /\ subs' = Granted(s, c)
            /\ pc' = [pc EXCEPT ![c] = IF old = {} THEN "reply" ELSE "wake"]
         \/ /\ dev'.rc # "ok"
            /\ subs' = RolledBack(s, c, old)
            /\ pc' = [pc EXCEPT ![c] = "close"]
  BY DEF Acquire, Goto
<1>2. /\ subs \in SubsType /\ Counted(subs, Nothing)
      /\ subs.lease[c] = {} /\ mask[c] \in SUBSET Streams
      /\ pc \in [Conns -> Places]
  BY <1>1 DEF IInv, Typed, Fresh
<1>3. old \in SUBSET Conns
  BY DEF Superseded, Leased
<1> HIDE DEF old
<1>4. Nothing \in [Streams -> Nat] /\ One(mask[c]) \in [Streams -> Nat]
  BY DEF Nothing, One
<1>5. /\ fewer \in SubsType
      /\ Counted(fewer, Nothing)
      /\ fewer.lease = [x \in Conns |-> IF x \in old THEN {} ELSE subs.lease[x]]
  BY <1>2, <1>3, <1>4, EraseCounted
<1> HIDE DEF fewer
<1>6. /\ asked \in SubsType
      /\ Counted(asked, One(mask[c]))
      /\ asked.lease = fewer.lease
  BY <1>2, <1>5, AddCounted
<1> HIDE DEF asked
<1>7. s \in SubsType
  BY <1>4, <1>6, AppliedCounted
<1>8. \A x \in Conns : \/ s.lease[x] = asked.lease[x]
                       \/ "hq" \in asked.lease[x] /\ s.lease[x] = {} /\ s.hqBad
  BY <1>6, AppliedTakesHq
<1> HIDE DEF s
<1>9. s.users \in [Streams -> Nat]
  BY <1>7 DEF SubsType
<1>10. CASE /\ subs' = Granted(s, c)
            /\ pc' = [pc EXCEPT ![c] = IF old = {} THEN "reply" ELSE "wake"]
  <2>1. subs'.users = s.users
    BY <1>7, <1>10 DEF Granted, SubsType
  <2>2. pc'[c] # "close"
    BY <1>2, <1>10
  <2> QED
    BY <1>1, <1>9, <2>1, <2>2
<1>11. CASE dev'.rc # "ok" /\ subs' = RolledBack(s, c, old)
  <2> DEFINE back == [x \in Conns |-> IF x \in old THEN subs.lease[x] ELSE s.lease[x]]
  <2>1. subs'.lease = back /\ subs'.hqBad = s.hqBad
    BY <1>7, <1>11 DEF RolledBack, SubsType
  <2>2. ASSUME NEW x \in Conns
        PROVE  \/ subs'.lease[x] = subs.lease[x]
               \/ subs'.hqBad /\ "hq" \in subs.lease[x] /\ subs'.lease[x] = {}
    <3>1. subs'.lease[x] = IF x \in old THEN subs.lease[x] ELSE s.lease[x]
      BY <2>1
    <3>2. asked.lease[x] = IF x \in old THEN {} ELSE subs.lease[x]
      BY <1>5, <1>6
    <3> QED
      BY <1>8, <2>1, <3>1, <3>2
  <2> QED
    BY <1>1, <1>9, <1>11, <2>2
<1> QED
  BY <1>1, <1>10, <1>11 DEF s, asked, fewer, old

\* The device suits the same leases, whatever else a step changes.
LEMMA SameLeases ==
  ASSUME DevInv, subs'.lease = subs.lease, dev' \in DevType,
         \/ ~dev'.online \/ ~dev'.live \/ dev'.rc # "ok"
         \/ /\ SameVideo(dev, dev') /\ SameHub(dev, dev') /\ SameDepth(dev, dev')
            /\ dev'.rc = dev.rc
  PROVE  Suits(subs', dev')
<1>1. \A t : Named(subs', t) <=> Named(subs, t)
  BY DEF Named
<1>2. CASE ~dev'.online \/ ~dev'.live \/ dev'.rc # "ok"
  BY <1>2 DEF Suits
<1>3. CASE /\ SameVideo(dev, dev') /\ SameHub(dev, dev') /\ SameDepth(dev, dev')
           /\ dev'.rc = dev.rc
  BY <1>1, <1>3 DEF DevInv, Suits, SameVideo, SameHub, SameDepth
<1> QED
  BY <1>2, <1>3

LEMMA InitDevInv == Init => DevInv
<1> SUFFICES ASSUME Init
             PROVE  DevInv
  OBVIOUS
<1>1. dev \in DevType
  BY DEF Init, DevType, Modes
<1>2. VideoKnown(dev) /\ Suits(subs, dev)
  BY DEF Init, VideoKnown, Suits
<1> QED
  BY <1>1, <1>2 DEF DevInv

LEMMA StepDevInv == IInv /\ IInv' /\ DevInv /\ [Next]_vars => DevInv'
<1> SUFFICES ASSUME IInv, IInv', DevInv, [Next]_vars
             PROVE  DevInv'
  OBVIOUS
<1>1. dev \in DevType /\ VideoKnown(dev) /\ subs \in SubsType
  BY DEF DevInv, IInv, Typed
<1>2. ASSUME subs'.lease = subs.lease, dev' = dev
      PROVE  DevInv'
  <2>1. SameVideo(dev, dev') /\ SameHub(dev, dev') /\ SameDepth(dev, dev')
    BY <1>2 DEF SameVideo, SameHub, SameDepth
  <2> QED
    BY <1>1, <1>2, <2>1, SameLeases DEF DevInv
<1>3. ASSUME NEW users \in [Streams -> Nat], dev' \in Apply(dev, Want(users)),
             dev'.rc = "ok" => users = subs'.users
      PROVE  DevInv'
  <2>1. Staged(dev, dev') /\ VideoKnown(dev')
    BY <1>1, <1>3, WantType, ApplyOutcome
  <2>2. subs' \in SubsType /\ Counted(subs', Nothing)
    BY DEF IInv, Typed
  <2>3. CASE dev'.rc = "ok"
    <3>1. dev' \in Apply(dev, Want(subs'.users))
      BY <1>3, <2>3
    <3>2. Suits(subs', dev')
      BY <1>1, <2>2, <3>1, SuitsAfterApply
    <3> QED
      BY <2>1, <3>2 DEF DevInv, Staged
  <2>4. CASE dev'.rc # "ok"
    BY <2>1, <2>4 DEF DevInv, Staged, Suits
  <2> QED
    BY <2>3, <2>4
<1>4. ASSUME subs' = Applied(subs, dev) \/ UNCHANGED subs, dev' \in CloseDevice(dev)
      PROVE  DevInv'
  <2>1. dev' \in DevType /\ VideoKnown(dev') /\ ~dev'.online
    BY <1>1, <1>4, CloseDeviceKeeps
  <2> QED
    BY <2>1 DEF DevInv, Suits
<1>5. ASSUME NEW c \in Conns, NEW p \in Pids \cup {NoPid}, NEW m \in Masks, Connect(c, p, m)
      PROVE  DevInv'
  BY <1>2, <1>5 DEF Connect
<1>6. ASSUME NEW c \in Conns, Thread(c) \/ HangUp(c)
      PROVE  DevInv'
  <2>1. CASE Acquire(c)
    <3>1. CASE dev.online
      BY <1>3, <2>1, <3>1, AcquireAsks
    <3>2. CASE ~dev.online
      BY <1>2, <2>1, <3>2 DEF Acquire
    <3> QED
      BY <3>1, <3>2
  <2>2. CASE Release(c)
    <3>1. CASE subs.lease[c] = {}
      BY <1>2, <2>2, <3>1 DEF Release
    <3>2. CASE subs.lease[c] # {}
      <4>1. dev' \in Apply(dev, Want(subs'.users)) /\ subs'.users \in [Streams -> Nat]
        BY <2>2, <3>2 DEF Release, IInv, Typed, SubsType
      <4> QED
        BY <1>3, <4>1
    <3> QED
      BY <3>1, <3>2
  <2>3. CASE Wake(c)
    <3>1. subs'.lease = subs.lease
      BY <1>1, <2>3 DEF Wake, Revoke, SubsType
    <3>2. dev' = dev
      BY <2>3 DEF Wake
    <3> QED
      BY <1>2, <3>1, <3>2
  <2>4. CASE Close(c)
    <3>1. subs'.lease = subs.lease /\ dev' = dev
      BY <1>1, <2>4 DEF Close, SubsType
    <3> QED
      BY <1>2, <3>1
  <2>5. CASE Check(c) \/ Reply(c) \/ EndStream(c) \/ HangUp(c)
    BY <1>2, <2>5 DEF Check, Reply, EndStream, HangUp
  <2> QED
    BY <1>6, <2>1, <2>2, <2>3, <2>4, <2>5 DEF Thread
<1>7. CASE ApplyStep
  <2>1. subs' = Applied(subs, dev) /\ subs'.users \in [Streams -> Nat]
    BY <1>7 DEF ApplyStep, IInv, Typed, SubsType
  <2>2. PICK d \in Apply(dev, Want(subs'.users)) : dev' = d \/ dev' \in CloseDevice(d)
    BY <1>7 DEF ApplyStep
  <2>3. CASE dev' = d
    BY <1>3, <2>1, <2>2, <2>3
  <2>4. CASE dev' \in CloseDevice(d)
    <3>1. d \in DevType
      BY <1>1, <2>1, WantType, ApplyOutcome DEF Staged
    <3>2. dev' \in DevType /\ VideoKnown(dev') /\ ~dev'.online
      BY <2>4, <3>1, CloseDeviceKeeps
    <3> QED
      BY <3>2 DEF DevInv, Suits
  <2> QED
    BY <2>2, <2>3, <2>4
<1>8. CASE OpenStep
  <2>1. dev' \in DevType /\ VideoKnown(dev') /\ dev'.rc = "none"
    BY <1>1, <1>8, OpenDeviceKeeps DEF OpenStep
  <2> QED
    BY <2>1 DEF DevInv, Suits
<1>9. CASE CloseStep
  BY <1>4, <1>9 DEF CloseStep
<1>10. CASE VideoFrame \/ VideoTimeout \/ DepthFrame \/ DepthTimeout
  <2>1. /\ dev' \in DevType /\ dev'.rc = dev.rc
        /\ SameVideo(dev, dev') /\ SameHub(dev, dev') /\ SameDepth(dev, dev')
        /\ subs' = subs
    <3>1. subs' = subs /\ dev \in DevType
      BY <1>1, <1>10 DEF VideoFrame, VideoTimeout, DepthFrame, DepthTimeout
    <3>2. CASE VideoFrame
      BY <3>1, <3>2 DEF VideoFrame, DevType, SameVideo, SameHub, SameDepth
    <3>3. CASE VideoTimeout
      BY <3>1, <3>3 DEF VideoTimeout, DevType, SameVideo, SameHub, SameDepth
    <3>4. CASE DepthFrame
      BY <3>1, <3>4 DEF DepthFrame, DevType, SameVideo, SameHub, SameDepth
    <3>5. CASE DepthTimeout
      BY <3>1, <3>5 DEF DepthTimeout, DevType, SameVideo, SameHub, SameDepth
    <3> QED
      BY <1>10, <3>2, <3>3, <3>4, <3>5
  <2>2. VideoKnown(dev')
    BY <1>1, <2>1 DEF VideoKnown, SameVideo, SameHub
  <2> QED
    BY <2>1, <2>2, SameLeases DEF DevInv
<1>11. CASE Unplug
  <2>1. dev' = [dev EXCEPT !.live = FALSE, !.fw = "off", !.laser = FALSE]
    BY <1>11 DEF Unplug
  <2>2. /\ dev' \in DevType /\ ~dev'.live /\ dev'.fw = "off"
        /\ dev'.videoOn = dev.videoOn /\ dev'.running = dev.running
    BY <1>1, <2>1 DEF DevType
  <2>3. VideoKnown(dev')
    BY <1>1, <2>2 DEF VideoKnown
  <2> QED
    BY <2>2, <2>3 DEF DevInv, Suits
<1>12. CASE Shutdown \/ Replug \/ UNCHANGED vars
  BY <1>2, <1>12 DEF Shutdown, Replug, vars
<1> QED
  BY <1>5, <1>6, <1>7, <1>8, <1>9, <1>10, <1>11, <1>12 DEF Next, Worker

-----------------------------------------------------------------------------
(* The descriptors.                                                         *)

RestTyped == fd \in [Conns -> Nat] /\ present \in BOOLEAN /\ running \in BOOLEAN

\* A non-empty set of naturals has a least element.
LEMMA LeastNumber ==
  ASSUME NEW S, S \subseteq Nat, S # {}
  PROVE  \E n \in S : \A m \in S : n <= m
<1> DEFINE Less == {p \in Nat \X Nat : p[1] < p[2]}
<1>1. IsWellFoundedOn(Less, Nat)
  BY NatLessThanWellFounded DEF OpToRel
<1>2. PICK n \in S : \A m \in S : <<m, n>> \notin Less
  BY <1>1, WFMin
<1>3. ASSUME NEW m \in S
      PROVE  n <= m
  <2>1. <<m, n>> \in Nat \X Nat /\ <<m, n>> \notin Less
    BY <1>2
  <2>2. ~(m < n)
    BY <2>1
  <2> QED
    BY <2>2
<1> QED
  BY <1>3

\* There are fewer connections than numbers to choose from, so one is free.
LEMMA FreeFdIsNat == FreeFd \in Nat
<1> DEFINE N    == Cardinality(Conns)
           Free == {n \in 0..N : Holders({n}) = {}}
<1>1. IsFiniteSet(Conns) /\ N \in Nat
  BY FiniteConns
<1>2. Free # {}
  <2> SUFFICES ASSUME Free = {}
               PROVE  FALSE
    OBVIOUS
  <2> DEFINE f == [n \in 0..N |-> CHOOSE c \in Conns : fd[c] = n]
  <2>1. ASSUME NEW n \in 0..N
        PROVE  f[n] \in Conns /\ fd[f[n]] = n
    <3>1. \E c \in Conns : fd[c] = n
      BY DEF Holders
    <3> QED
      BY <3>1
  <2>2. f \in [0..N -> Conns]
    BY <2>1
  <2>3. IsFiniteSet(0..N) /\ Cardinality(0..N) = N + 1
    <3> HIDE DEF N
    <3> QED
      BY <1>1, FS_Interval
  <2>4. Cardinality(Conns) < Cardinality(0..N)
    BY <1>1, <2>3
  <2> HIDE DEF f, N
  <2>5. PICK x \in 0..N, y \in 0..N : x # y /\ f[x] = f[y]
    BY <1>1, <2>2, <2>3, <2>4, FS_PigeonHole
  <2> QED
    BY <2>1, <2>5
<1>3. PICK n \in Free : \A m \in Free : n <= m
  <2>1. Free \subseteq Nat
    BY <1>1
  <2> HIDE DEF Free
  <2> QED
    BY <1>2, <2>1, LeastNumber
<1>4. \A k \in 0..(n - 1) : Holders({k}) # {}
  <2> SUFFICES ASSUME NEW k \in 0..(n - 1), Holders({k}) = {}
               PROVE  FALSE
    OBVIOUS
  <2>1. k \in 0..N /\ k < n
    BY <1>1, <1>3
  <2> QED
    BY <1>1, <1>3, <2>1
<1>5. n \in 0..N /\ Holders({n}) = {}
  BY <1>3
<1> HIDE DEF Free
<1>6. FreeFd \in 0..Cardinality(Conns)
  BY <1>4, <1>5 DEF FreeFd
<1> QED
  BY <1>1, <1>6

LEMMA StepRestTyped == RestTyped /\ [Next]_vars => RestTyped'
<1> SUFFICES ASSUME RestTyped, [Next]_vars
             PROVE  RestTyped'
  OBVIOUS
<1>1. ASSUME NEW c \in Conns, NEW p \in Pids \cup {NoPid}, NEW m \in Masks, Connect(c, p, m)
      PROVE  RestTyped'
  BY <1>1, FreeFdIsNat DEF Connect, RestTyped
<1>2. ASSUME NEW c \in Conns, Thread(c) \/ HangUp(c)
      PROVE  RestTyped'
  BY <1>2 DEF Thread, Check, Acquire, Wake, Reply, EndStream, Release, Close, HangUp, RestTyped
<1>3. ASSUME \/ Worker \/ Shutdown \/ VideoFrame \/ VideoTimeout \/ DepthFrame \/ DepthTimeout
             \/ Unplug \/ Replug \/ UNCHANGED vars
      PROVE  RestTyped'
  BY <1>3 DEF Worker, OpenStep, ApplyStep, CloseStep, Shutdown, VideoFrame, VideoTimeout,
              DepthFrame, DepthTimeout, Unplug, Replug, conns, vars, RestTyped
<1> QED
  BY <1>1, <1>2, <1>3 DEF Next

-----------------------------------------------------------------------------
(* The theorems.                                                           *)

\* The bookkeeping of every hub, see IInv: it carries the theorems below.
THEOREM Invariance == Spec => []IInv
BY InitIInv, StepIInv, PTL DEF Spec

\* The four counters are exactly the subscriptions on record, through every
\* takeover, refusal, loss of RGB HQ and departure (camera_bridge.cpp:318-372).
THEOREM CountersAreLeases == Spec => []UsersAreLeases
<1>1. IInv => UsersAreLeases
  <2> SUFFICES ASSUME IInv
               PROVE  UsersAreLeases
    OBVIOUS
  <2>1. subs.users \in [Streams -> Nat]
    BY DEF IInv, Typed, SubsType
  <2>2. ASSUME NEW t \in Streams
        PROVE  subs.users[t] = Held(subs.lease, Conns)[t]
    <3>1. subs.users[t] = Cardinality(Naming(subs, t)) + 0
      BY DEF IInv, Counted, Nothing
    <3>2. Cardinality(Naming(subs, t)) \in Nat
      BY FiniteConns DEF Naming
    <3>3. Held(subs.lease, Conns)[t] = Cardinality(Naming(subs, t))
      BY DEF Held, Naming
    <3> QED
      BY <3>1, <3>2, <3>3
  <2>3. Held(subs.lease, Conns) = [t \in Streams |-> Held(subs.lease, Conns)[t]]
    BY DEF Held
  <2> QED
    BY <2>1, <2>2, <2>3 DEF UsersAreLeases
<1> QED
  BY <1>1, Invariance, PTL

\* A process owns at most one subscription, however many connections of it ask
\* at the same time (camera_bridge.cpp:325-336).
THEOREM OneLease == Spec => []OneLeasePerProcess
<1>1. IInv => OneLeasePerProcess
  BY DEF IInv
<1> QED
  BY <1>1, Invariance, PTL

\* No thread streams on without a subscription and without having been told, or
\* being about to be told (camera_bridge.cpp:365-369, 588-600).
THEOREM LostLeasesAreTold == Spec => []LostLeaseIsTold
<1>1. IInv => LostLeaseIsTold
  BY DEF IInv, LostIsTold, Told, LostLeaseIsTold
<1> QED
  BY <1>1, Invariance, PTL

\* What the hub knows of the two engines, see DevInv: it carries Arbitration.
THEOREM DeviceInvariance == Spec => []DevInv
<1>1. Init => IInv /\ DevInv
  BY InitIInv, InitDevInv
<1>2. IInv /\ DevInv /\ [Next]_vars => (IInv /\ DevInv)'
  BY StepIInv, StepDevInv
<1> QED
  BY <1>1, <1>2, PTL DEF Spec

\* After a successful apply_locked exactly the streams somebody subscribes to
\* are on, and nobody gets colour while IR is subscribed to, whatever commands
\* failed before (camera_bridge.cpp:340-344, 602-681).
THEOREM Arbitration == Spec => []Arbitrated
<1>1. DevInv => Arbitrated
  BY SuitsIsArbitrated DEF DevInv
<1> QED
  BY <1>1, DeviceInvariance, PTL

\* A refused subscription changes no other one, except that RGB HQ may be found
\* unavailable at that moment (camera_bridge.cpp:350-357).
THEOREM RefusalIsLocal == Spec => RefusalChangesNothing
<1> DEFINE Local == \A c \in Conns : pc[c] = "acquire" /\ pc'[c] = "close" =>
             \A x \in Conns : subs'.lease[x] = subs.lease[x]
                                \/ (subs'.hqBad /\ "hq" \in subs.lease[x] /\ subs'.lease[x] = {})
<1>1. IInv /\ [Next]_vars => Local
  <2> SUFFICES ASSUME IInv, [Next]_vars, NEW c \in Conns, pc[c] = "acquire", pc'[c] = "close",
                      NEW x \in Conns
               PROVE  subs'.lease[x] = subs.lease[x]
                        \/ (subs'.hqBad /\ "hq" \in subs.lease[x] /\ subs'.lease[x] = {})
    OBVIOUS
  <2>1. pc \in [Conns -> Places]
    BY DEF IInv, Typed
  <2>2. ASSUME NEW d \in Conns, Thread(d) \/ HangUp(d)
        PROVE  Acquire(c)
    <3>1. d = c
      <4>1. \E place : Goto(d, place)
        BY <2>2 DEF Thread, Check, Acquire, Wake, Reply, EndStream, Release, Close, HangUp
      <4> QED
        BY <2>1, <4>1 DEF Goto
    <3> QED
      BY <2>2, <3>1 DEF Thread, Check, Wake, Reply, EndStream, Release, Close, HangUp
  <2>3. ASSUME NEW d \in Conns, NEW p \in Pids \cup {NoPid}, NEW m \in Masks,
               Connect(d, p, m)
        PROVE  FALSE
    BY <2>1, <2>3 DEF Connect, Goto
  <2>4. pc' # pc
    OBVIOUS
  <2>5. ASSUME Worker \/ Shutdown \/ VideoFrame \/ VideoTimeout \/ DepthFrame \/ DepthTimeout
               \/ Unplug \/ Replug \/ UNCHANGED vars
        PROVE  FALSE
    BY <2>4, <2>5 DEF Worker, OpenStep, ApplyStep, CloseStep, Shutdown, VideoFrame, VideoTimeout,
                      DepthFrame, DepthTimeout, Unplug, Replug, conns, vars
  <2>6. Acquire(c)
    BY <2>2, <2>3, <2>5 DEF Next
  <2>7. CASE dev.online
    BY <2>6, <2>7, AcquireAsks
  <2>8. CASE ~dev.online
    BY <2>6, <2>8 DEF Acquire
  <2> QED
    BY <2>7, <2>8
<1> QED
  BY <1>1, Invariance, PTL DEF Spec, RefusalChangesNothing

\* Every variable keeps its type, in every stage of apply_locked and whatever
\* register writes fail.
THEOREM TypeCorrect == Spec => []TypeOK
<1>1. Init => RestTyped
  BY DEF Init, RestTyped
<1>2. IInv /\ DevInv /\ RestTyped => TypeOK
  BY DEF IInv, Typed, DevInv, RestTyped, TypeOK
<1> QED
  BY <1>1, <1>2, StepRestTyped, Invariance, DeviceInvariance, PTL DEF Spec
==============================================================================
