------------------------- MODULE TimeoutListProofs -------------------------
(***************************************************************************)
(* The timeout list stays a list, and a walk over it misses nobody, for    *)
(* every set of ports, a port being removed from any place of it.          *)
(*                                                                         *)
(* What the pointers of the ports have to do with each other is said       *)
(* without recursion, by giving every port on the list a place: a number   *)
(* that grows along le_next.  A port that is inserted at the head gets a   *)
(* place before all others, a port that is removed leaves a gap.           *)
(***************************************************************************)
EXTENDS TimeoutList, Integers, WellFoundedInduction, TLAPS

Active(l) == {p \in Ports : is_timeout_active(l, p)}

\* The pointers of the ports on the list l fit together, and those of all
\* others are NULL.
Linked(l) ==
    /\ \A p \in Active(l) : l.prev[p] \in Active(l) \cup {HEAD} /\ l.next[l.prev[p]] = p
    /\ \A p \in Active(l) \cup {HEAD} :
        l.next[p] # NULL => l.next[p] \in Active(l) /\ l.prev[l.next[p]] = p

\* Along le_next the places of the ports grow, and no port is passed over.
Ordered(l, place) ==
    /\ \A p, q \in Active(l) : place[p] = place[q] => p = q
    /\ \A p \in Active(l) : l.next[p] # NULL => place[p] < place[l.next[p]]
    /\ \A p, q \in Active(l) : place[p] < place[q] =>
        l.next[p] # NULL /\ place[l.next[p]] <= place[q]
    /\ \A p \in Active(l) : l.next[HEAD] # NULL /\ place[l.next[HEAD]] <= place[p]

\* Whoever is due has not been passed by the walk.
Ahead(l, place) ==
    /\ itr \in Active(l) \cup {NULL}
    /\ ~walking => itr = NULL /\ due = {}
    /\ due \subseteq Active(l)
    /\ \A p \in due : itr # NULL /\ place[itr] <= place[p]

IsList(l, place) == l \in List /\ Linked(l) /\ Ordered(l, place)

IInv ==
    /\ TypeOK
    /\ \E place \in [Ports -> Int] : IsList(list, place) /\ Ahead(list, place)
-----------------------------------------------------------------------------
(* The two operations on lists.                                            *)

\* LIST_INSERT_HEAD of a port that is not on the list.
LEMMA AddIsList ==
    ASSUME NEW l, NEW place \in [Ports -> Int], IsList(l, place),
           NEW p \in Ports, ~is_timeout_active(l, p)
    PROVE  /\ Active(add_timeout(l, p)) = Active(l) \cup {p}
           /\ \E new \in [Ports -> Int] :
                IsList(add_timeout(l, p), new) /\ \A q \in Ports \ {p} : new[q] = place[q]
<1> DEFINE m == add_timeout(l, p)
           first == l.next[HEAD]
           new == [place EXCEPT ![p] = IF first = NULL THEN 0 ELSE place[first] - 1]
<1> USE PointersAssumption
<1>1. /\ m \in List
      /\ m.next[p] = first /\ m.next[HEAD] = p
      /\ \A q \in Ports \ {p} : m.next[q] = l.next[q]
      /\ m.prev[p] = HEAD
      /\ \A q \in Ports \ {p} : m.prev[q] = IF q = first THEN p ELSE l.prev[q]
  BY DEF IsList, List, add_timeout
<1>2. /\ p \notin Active(l) /\ p # first
      /\ first # NULL => first \in Active(l) /\ l.prev[first] = HEAD
      /\ \A q \in Ports \ Active(l) : l.next[q] = NULL /\ l.prev[q] = NULL
      /\ \A q \in Active(l) : l.next[q] # p
  BY DEF IsList, Linked, Active, is_timeout_active
<1> HIDE DEF m, first
<1>3. Active(m) = Active(l) \cup {p}
  BY <1>1, <1>2 DEF Active, is_timeout_active
<1>4. Linked(m)
  <2>1. ASSUME NEW q \in Active(m)
        PROVE  m.prev[q] \in Active(m) \cup {HEAD} /\ m.next[m.prev[q]] = q
    BY <1>1, <1>2, <1>3 DEF IsList, Linked, Active, first
  <2>2. ASSUME NEW q \in Active(m) \cup {HEAD}, m.next[q] # NULL
        PROVE  m.next[q] \in Active(m) /\ m.prev[m.next[q]] = q
    BY <2>2, <1>1, <1>2, <1>3 DEF IsList, Linked, Active, first
  <2>3. QED
    BY <2>1, <2>2 DEF Linked
<1>5. /\ new \in [Ports -> Int]
      /\ \A q \in Ports \ {p} : new[q] = place[q]
      /\ \A q \in Active(l) : new[p] < place[q]
  BY <1>2 DEF IsList, Ordered, first, Active
<1> HIDE DEF new
<1>6. Ordered(m, new)
  <2>1. \A q \in Active(l) : q \in Ports \ {p} /\ m.next[q] = l.next[q] /\ new[q] = place[q]
    BY <1>1, <1>2, <1>5 DEF Active
  <2>2. \A q \in Active(l) : m.next[q] # NULL => m.next[q] \in Active(l)
    BY <1>1, <2>1 DEF IsList, Linked
  <2>3. Ordered(l, place)
    BY DEF IsList
  <2>4. \A q, r \in Active(m) : new[q] = new[r] => q = r
    BY <1>3, <1>5, <2>1, <2>3 DEF Ordered
  <2>5. \A q \in Active(m) : m.next[q] # NULL => new[q] < new[m.next[q]]
    BY <1>1, <1>2, <1>3, <1>5, <2>1, <2>2, <2>3 DEF Ordered
  <2>6. \A q, r \in Active(m) :
            new[q] < new[r] => m.next[q] # NULL /\ new[m.next[q]] <= new[r]
    <3> SUFFICES ASSUME NEW q \in Active(m), NEW r \in Active(m), new[q] < new[r]
                 PROVE  m.next[q] # NULL /\ new[m.next[q]] <= new[r]
      OBVIOUS
    <3>1. r \in Active(l)
      BY <1>3, <1>5, <2>1 DEF Active
    <3>2. CASE q = p
      BY <1>1, <1>2, <2>1, <2>3, <3>1, <3>2 DEF Ordered, first
    <3>3. CASE q # p
      BY <1>3, <2>1, <2>2, <2>3, <3>1, <3>3 DEF Ordered
    <3>4. QED
      BY <3>2, <3>3
  <2>7. \A q \in Active(m) : m.next[HEAD] # NULL /\ new[m.next[HEAD]] <= new[q]
    <3> SUFFICES ASSUME NEW q \in Active(m)
                 PROVE  m.next[HEAD] # NULL /\ new[m.next[HEAD]] <= new[q]
      OBVIOUS
    <3>1. m.next[HEAD] = p /\ p # NULL /\ new[p] \in Int
      BY <1>1, <1>5
    <3>2. CASE q = p
      BY <3>1, <3>2
    <3>3. CASE q # p
      <4>1. q \in Active(l) /\ new[q] = place[q] /\ new[p] < place[q] /\ place[q] \in Int
        BY <1>3, <1>5, <2>1, <3>3 DEF Active
      <4>2. QED
        BY <3>1, <4>1
    <3>4. QED
      BY <3>2, <3>3
  <2>8. QED
    BY <2>4, <2>5, <2>6, <2>7 DEF Ordered
<1>7. QED
  BY <1>1, <1>3, <1>4, <1>5, <1>6 DEF IsList, m

\* LIST_REMOVE of a port that is on the list, wherever.
LEMMA DelIsList ==
    ASSUME NEW l, NEW place \in [Ports -> Int], IsList(l, place),
           NEW p \in Ports, is_timeout_active(l, p)
    PROVE  /\ Active(del_timeout(l, p)) = Active(l) \ {p}
           /\ IsList(del_timeout(l, p), place)
<1> DEFINE m == del_timeout(l, p)
           before == l.prev[p]
           after == l.next[p]
<1> USE PointersAssumption
<1>1. /\ p \in Active(l)
      /\ before \in Active(l) \cup {HEAD} /\ l.next[before] = p /\ before # p
      /\ after # NULL => after \in Active(l) /\ l.prev[after] = p /\ after # p
      /\ before = HEAD \/ place[before] < place[p]
  BY DEF IsList, Linked, Ordered, Active
<1>2. /\ m \in List
      /\ m.next[p] = NULL /\ m.next[before] = after
      /\ \A q \in (Ports \cup {HEAD}) \ {p, before} : m.next[q] = l.next[q]
      /\ m.prev[p] = NULL
      /\ \A q \in Ports \ {p} : m.prev[q] = IF q = after THEN before ELSE l.prev[q]
  BY <1>1 DEF IsList, List, del_timeout, Active
<1>3. Active(m) = Active(l) \ {p}
  BY <1>1, <1>2 DEF IsList, Linked, Active, is_timeout_active
<1> HIDE DEF m, before, after
<1>4. Linked(m)
  <2>1. ASSUME NEW q \in Active(m)
        PROVE  m.prev[q] \in Active(m) \cup {HEAD} /\ m.next[m.prev[q]] = q
    BY <1>1, <1>2, <1>3 DEF IsList, Linked, Active, before, after
  <2>2. ASSUME NEW q \in Active(m) \cup {HEAD}, m.next[q] # NULL
        PROVE  m.next[q] \in Active(m) /\ m.prev[m.next[q]] = q
    BY <2>2, <1>1, <1>2, <1>3 DEF IsList, Linked, Active, before, after
  <2>3. QED
    BY <2>1, <2>2 DEF Linked
<1>5. Ordered(m, place)
  BY <1>1, <1>2, <1>3 DEF IsList, Ordered, Linked, Active, before, after
<1>6. QED
  BY <1>2, <1>3, <1>4, <1>5 DEF IsList, m
-----------------------------------------------------------------------------
(* The invariant is inductive.                                             *)

LEMMA InitInv == Init => IInv
<1> SUFFICES ASSUME Init PROVE IInv
  OBVIOUS
<1>1. TypeOK /\ Active(list) = {} /\ list.next[HEAD] = NULL
  BY PointersAssumption DEF Init, TypeOK, List, Active, is_timeout_active
<1>2. [p \in Ports |-> 0] \in [Ports -> Int]
  OBVIOUS
<1>3. IsList(list, [p \in Ports |-> 0])
  BY <1>1 DEF IsList, Linked, Ordered, TypeOK
<1>4. Ahead(list, [p \in Ports |-> 0])
  BY <1>1 DEF Ahead, Init
<1>5. QED
  BY <1>1, <1>2, <1>3, <1>4 DEF IInv

LEMMA NextInv == IInv /\ [Next]_vars => IInv'
<1> SUFFICES ASSUME IInv, [Next]_vars PROVE IInv'
  OBVIOUS
<1> USE PointersAssumption
<1>0. PICK place \in [Ports -> Int] : IsList(list, place) /\ Ahead(list, place)
  BY DEF IInv
<1>1. TypeOK
  BY DEF IInv
<1>2. ASSUME NEW p \in Ports, Start(p) PROVE IInv'
  <2>1. Active(list') = Active(list) \cup {p}
    BY <1>0, <1>2, AddIsList DEF Start
  <2>2. PICK new \in [Ports -> Int] :
            IsList(list', new) /\ \A q \in Ports \ {p} : new[q] = place[q]
    BY <1>0, <1>2, AddIsList DEF Start
  <2>3. Ahead(list, new)'
    BY <1>0, <1>2, <2>1 DEF Ahead, Start, walk
  <2>4. QED
    BY <1>1, <1>2, <2>2, <2>3 DEF IInv, TypeOK, IsList, Start, walk
<1>3. ASSUME NEW p \in Ports, Stop(p) PROVE IInv'
  <2>1. Active(list') = Active(list) \ {p} /\ IsList(list', place)
    BY <1>0, <1>3, DelIsList DEF Stop
  <2>2. Ahead(list, place)'
    BY <1>0, <1>3, <2>1 DEF Ahead, Stop, walk
  <2>3. QED
    BY <1>1, <1>3, <2>1, <2>2 DEF IInv, TypeOK, IsList, Stop, walk
<1>4. CASE Begin
  <2>1. itr' \in Active(list) \cup {NULL}
    BY <1>0, <1>4 DEF Begin, IsList, Linked
  <2>2. due' \subseteq Active(list)
    BY <1>4 DEF Begin, Active
  <2>3. Ahead(list, place)'
    BY <1>0, <1>4, <2>1, <2>2 DEF Ahead, Begin, IsList, Ordered
  <2>4. QED
    BY <1>0, <1>1, <1>4, <2>1, <2>2, <2>3 DEF IInv, TypeOK, Begin, Active
<1>5. CASE Fire
  <2> DEFINE l == del_timeout(list, itr)
  <2>1. /\ itr \in Active(list) /\ itr \in Ports /\ is_timeout_active(list, itr)
        /\ walking' = walking /\ walking
        /\ itr' = list.next[itr]
        /\ due' = due \ {itr}
        /\ list' \in {l, add_timeout(l, itr)}
    BY <1>0, <1>5 DEF Fire, Ahead, Active
  <2>2. Active(l) = Active(list) \ {itr} /\ IsList(l, place)
    BY <1>0, <2>1, DelIsList
  <2> HIDE DEF l
  <2>3. ~is_timeout_active(l, itr)
    BY <2>1, <2>2 DEF Active
  <2>4. Active(l) \subseteq Active(list')
    BY <2>1, <2>2, <2>3, AddIsList
  <2>5. PICK new \in [Ports -> Int] :
            IsList(list', new) /\ \A q \in Ports \ {itr} : new[q] = place[q]
    BY <2>1, <2>2, <2>3, AddIsList
  <2>6. itr' \in Active(l) \cup {NULL}
    BY <1>0, <2>1, <2>2 DEF IsList, Linked, Ordered, Active
  <2>7. due' \subseteq Active(l)
    BY <1>0, <2>1, <2>2 DEF Ahead
  <2>8. \A q \in due' : itr' # NULL /\ place[itr'] <= place[q]
    <3> SUFFICES ASSUME NEW q \in due' PROVE itr' # NULL /\ place[itr'] <= place[q]
      OBVIOUS
    <3>1. q \in Active(list) /\ q # itr /\ place[itr] <= place[q]
      BY <1>0, <2>1 DEF Ahead
    <3>2. place[itr] # place[q] /\ place[itr] \in Int /\ place[q] \in Int
      BY <1>0, <2>1, <3>1 DEF IsList, Ordered, Active
    <3>3. place[itr] < place[q]
      BY <3>1, <3>2
    <3>4. QED
      BY <1>0, <2>1, <3>1, <3>3 DEF IsList, Ordered
  <2>9. Active(l) \subseteq Ports \ {itr}
    BY <2>2 DEF Active
  <2>10. Ahead(list, new)'
    BY <2>1, <2>4, <2>5, <2>6, <2>7, <2>8, <2>9 DEF Ahead
  <2>11. QED
    BY <1>1, <2>1, <2>5, <2>6, <2>7, <2>9, <2>10 DEF IInv, TypeOK, IsList
<1>6. CASE Pass
  <2>1. /\ itr \in Active(list) /\ itr \in Ports /\ itr \notin due
        /\ walking' = walking /\ walking
        /\ itr' = list.next[itr]
        /\ due' = due /\ list' = list
    BY <1>0, <1>6 DEF Pass, Ahead, Active
  <2>2. itr' \in Active(list) \cup {NULL}
    BY <1>0, <2>1 DEF IsList, Linked
  <2>3. \A q \in due : itr' # NULL /\ place[itr'] <= place[q]
    <3> SUFFICES ASSUME NEW q \in due PROVE itr' # NULL /\ place[itr'] <= place[q]
      OBVIOUS
    <3>1. q \in Active(list) /\ q # itr /\ place[itr] <= place[q]
      BY <1>0, <2>1 DEF Ahead
    <3>2. place[itr] # place[q] /\ place[itr] \in Int /\ place[q] \in Int
      BY <1>0, <2>1, <3>1 DEF IsList, Ordered, Active
    <3>3. place[itr] < place[q]
      BY <3>1, <3>2
    <3>4. QED
      BY <1>0, <2>1, <3>1, <3>3 DEF IsList, Ordered
  <2>4. Ahead(list, place)'
    BY <1>0, <2>1, <2>2, <2>3 DEF Ahead
  <2>5. QED
    BY <1>0, <1>1, <2>1, <2>2, <2>4 DEF IInv, TypeOK, Active
<1>7. CASE End
  BY <1>0, <1>1, <1>7 DEF End, IInv, TypeOK, Ahead
<1>8. CASE UNCHANGED vars
  BY <1>0, <1>1, <1>8 DEF vars, IInv, TypeOK, Ahead
<1>9. QED
  BY <1>2, <1>3, <1>4, <1>5, <1>6, <1>7, <1>8 DEF Next

\* The pointers always form a list, in which the walk is where it believes to be.
THEOREM Invariance == Spec => []IInv
BY InitInv, NextInv, PTL DEF Spec
-----------------------------------------------------------------------------
(* What the invariant means.                                               *)

\* Whoever follows the pointers comes by exactly the ports that have some: the
\* port with the smallest place he missed would have a predecessor he did not.
LEMMA FollowingFindsAll == IInv => OnList = Active(list)
<1> SUFFICES ASSUME IInv PROVE OnList = Active(list)
  OBVIOUS
<1> USE PointersAssumption
<1>1. PICK place \in [Ports -> Int] : IsList(list, place)
  BY DEF IInv
<1>2. Active(list) \in SUBSET Ports /\ Closed(Active(list))
  BY <1>1 DEF IsList, Linked, Closed, Active
<1>3. ASSUME NEW S \in SUBSET Ports, Closed(S), Active(list) \ S # {}
      PROVE  FALSE
  <2> DEFINE first == list.next[HEAD]
             T == {place[p] - place[first] : p \in Active(list) \ S}
  <2>1. \A p \in Active(list) :
            /\ p \in Ports /\ first \in S /\ first \in Ports
            /\ place[first] <= place[p]
            /\ place[p] \in Int /\ place[first] \in Int
    BY <1>1, <1>3 DEF IsList, Ordered, Closed, Active
  <2>2. T \subseteq Nat /\ T # {}
    BY <1>3, <2>1
  <2>3. PICK n \in T : \A k \in T : ~(<<k, n>> \in OpToRel(<, Nat))
    BY <2>2, NatLessThanWellFounded, WFMin
  <2>4. \A k \in T : ~(k < n)
    BY <2>2, <2>3 DEF OpToRel
  <2>5. PICK p \in Active(list) \ S : n = place[p] - place[first]
    OBVIOUS
  <2>6. list.prev[p] \in Active(list) /\ list.next[list.prev[p]] = p
    BY <1>1, <2>1 DEF IsList, Linked
  <2>7. place[list.prev[p]] < place[p]
    BY <1>1, <2>6 DEF IsList, Ordered, Active
  <2>8. list.prev[p] \notin S
    BY <1>3, <2>6 DEF Closed, Active
  <2>9. place[list.prev[p]] - place[first] \in T
    BY <2>6, <2>8
  <2> HIDE DEF T, first
  <2>10. place[list.prev[p]] \in Int /\ place[p] \in Int /\ place[first] \in Int
    BY <2>1, <2>6
  <2>11. place[list.prev[p]] - place[first] < n
    BY <2>5, <2>7, <2>10
  <2>12. QED
    BY <2>4, <2>9, <2>11
<1>4. QED
  BY <1>2, <1>3 DEF OnList, Active

\* The test that stands for membership of the timeout list tells the truth, and
\* LIST_REMOVE always finds the pointer it has to change.
THEOREM ActiveMeansListedAlways == Spec => []ActiveMeansListed
<1>1. IInv => ActiveMeansListed
  <2> SUFFICES ASSUME IInv PROVE ActiveMeansListed
    OBVIOUS
  <2>1. PICK place \in [Ports -> Int] : IsList(list, place)
    BY DEF IInv
  <2>2. \A p \in Active(list) : list.prev[p] # NULL /\ list.next[list.prev[p]] = p
    BY <2>1, PointersAssumption DEF IsList, Linked, Active
  <2>3. QED
    BY <2>2, FollowingFindsAll DEF ActiveMeansListed, IInv, Active
<1>2. QED
  BY Invariance, <1>1, PTL

\* usb_monitor_check_timeouts misses no port that is due, though ports leave the
\* list under it and come back at its head.
THEOREM AllDueFireAlways == Spec => []AllDueFire
<1>1. IInv => AllDueFire
  BY DEF IInv, Ahead, AllDueFire
<1>2. QED
  BY Invariance, <1>1, PTL
=============================================================================
