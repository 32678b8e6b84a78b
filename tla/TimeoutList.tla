---------------------------- MODULE TimeoutList ----------------------------
(***************************************************************************)
(* The timeout list, pointer by pointer: the sys/queue list of             *)
(* usb_monitor_lists.c and the walk of usb_monitor_check_timeouts over it. *)
(* UsbPort abstracts it to a mark on each port (listed); here is why that  *)
(* is right as long as no port is inserted twice, and what a second        *)
(* insertion does.                                                         *)
(*                                                                         *)
(* list.next[p] is p's le_next and list.next[HEAD] is lh_first.  le_prev   *)
(* points to the pointer that points to p: list.prev[p] is the one whose   *)
(* next it is.                                                             *)
(***************************************************************************)
CONSTANTS Ports, HEAD, NULL

ASSUME PointersAssumption == HEAD \notin Ports /\ NULL \notin Ports /\ HEAD # NULL

VARIABLES
    list,   \* le_next and le_prev of every port
    itr,    \* timeout_itr of the walk, NULL outside of it
    walking,
    due     \* the ports whose deadline had passed when the walk began and whose
            \* timeout function it has not yet called

vars == <<list, itr, walking, due>>
walk == <<itr, walking, due>>

List == [next : [Ports \cup {HEAD} -> Ports \cup {NULL}],
         prev : [Ports -> Ports \cup {HEAD, NULL}]]

\* The pointers are pointers of their kind: le_next never leads to the head.
TypeOK ==
    /\ list \in List
    /\ itr \in Ports \cup {NULL}
    /\ walking \in BOOLEAN
    /\ due \subseteq Ports

Init ==
    /\ list = [next |-> [q \in Ports \cup {HEAD} |-> NULL], prev |-> [q \in Ports |-> NULL]]
    /\ itr = NULL /\ walking = FALSE
    /\ due = {}
-----------------------------------------------------------------------------
\* usb_monitor_lists_is_timeout_active.
is_timeout_active(l, p) == l.next[p] # NULL \/ l.prev[p] # NULL

\* usb_monitor_lists_add_timeout: LIST_INSERT_HEAD.
add_timeout(l, p) ==
    [next |-> [l.next EXCEPT ![p] = l.next[HEAD], ![HEAD] = p],
     prev |-> [q \in Ports |-> IF q = p THEN HEAD
                               ELSE IF q = l.next[HEAD] THEN p ELSE l.prev[q]]]

\* Mutant of del_timeout: as LIST_REMOVE leaves it, p keeps its pointers.
del_timeout_dangling(l, p) ==
    [next |-> [l.next EXCEPT ![l.prev[p]] = l.next[p]],
     prev |-> [q \in Ports |-> IF q = l.next[p] THEN l.prev[p] ELSE l.prev[q]]]

\* usb_monitor_lists_del_timeout: LIST_REMOVE, and p's pointers become NULL.
del_timeout(l, p) ==
    [next |-> [l.next EXCEPT ![l.prev[p]] = l.next[p], ![p] = NULL],
     prev |-> [q \in Ports |-> IF q = p THEN NULL
                               ELSE IF q = l.next[p] THEN l.prev[p] ELSE l.prev[q]]]
-----------------------------------------------------------------------------
\* Mutant of Start: the port may be on the list.
StartAgain(p) ==
    /\ ~walking
    /\ list' = add_timeout(list, p)
    /\ UNCHANGED walk

\* usb_helpers_start_timeout in a callback.  The code inserts without looking;
\* that the port is off the list is what its callers owe (TimersListedOnce of
\* GpioMonitor and YkushMonitor).
Start(p) ==
    /\ ~walking
    /\ ~is_timeout_active(list, p)
    /\ list' = add_timeout(list, p)
    /\ UNCHANGED walk

\* usb_helpers_reset_port or a restart stops the timer of a port.
Stop(p) ==
    /\ ~walking
    /\ is_timeout_active(list, p)
    /\ list' = del_timeout(list, p)
    /\ UNCHANGED walk

\* usb_monitor_check_timeouts reads the clock once; deadlines set during the
\* walk lie ahead of it.
Begin ==
    /\ ~walking
    /\ walking' = TRUE
    /\ itr' = list.next[HEAD]
    /\ due' \in SUBSET {p \in Ports : is_timeout_active(list, p)}
    /\ UNCHANGED list

\* Mutant of Fire: the next port is read after the current one is removed.
FireThenMove ==
    /\ itr # NULL
    /\ itr \in due
    /\ LET l == del_timeout(list, itr)
       IN /\ itr' = l.next[itr]
          /\ list' \in {l, add_timeout(l, itr)}
    /\ due' = due \ {itr}
    /\ UNCHANGED walking

\* An expired port leaves the list and its timeout function runs, which may
\* start the port's timer again.
Fire ==
    /\ itr # NULL
    /\ itr \in due
    /\ itr' = list.next[itr]
    /\ LET l == del_timeout(list, itr) IN list' \in {l, add_timeout(l, itr)}
    /\ due' = due \ {itr}
    /\ UNCHANGED walking

Pass ==
    /\ itr # NULL
    /\ itr \notin due
    /\ itr' = list.next[itr]
    /\ UNCHANGED <<list, walking, due>>

End ==
    /\ walking
    /\ itr = NULL
    /\ walking' = FALSE
    /\ due' = {}
    /\ UNCHANGED <<list, itr>>

Next == Begin \/ Fire \/ Pass \/ End \/ \E p \in Ports : Start(p) \/ Stop(p)

\* The walk is a loop: it goes on while it can.
Spec == Init /\ [][Next]_vars /\ WF_vars(Fire \/ Pass \/ End)
-----------------------------------------------------------------------------
\* A set that holds the port lh_first points to and, with a port, the port its
\* le_next points to.
Closed(S) ==
    /\ list.next[HEAD] \in S \cup {NULL}
    /\ \A q \in S : list.next[q] \in S \cup {NULL}

\* The ports that following the pointers from the head of the list comes by.
OnList == {p \in Ports : \A S \in SUBSET Ports : Closed(S) => p \in S}

\* The pointers that usb_monitor_lists_is_timeout_active looks at tell whether
\* the port is on the list, and le_prev leads to the pointer LIST_REMOVE must
\* change: no list operation loses a port that still has a timer.
ActiveMeansListed ==
    /\ TypeOK
    /\ OnList = {p \in Ports : is_timeout_active(list, p)}
    /\ \A p \in OnList : list.prev[p] # NULL /\ list.next[list.prev[p]] = p

\* A walk calls the timeout function of every port that was due, though ports
\* leave the list and come back at its head under the walk.
AllDueFire == walking /\ itr = NULL => due = {}

\* usb_monitor_check_timeouts returns.
WalkEnds == walking ~> ~walking
=============================================================================
