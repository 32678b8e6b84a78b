-------------------------- MODULE UsbMonitorProofs --------------------------
(***************************************************************************)
(* The hotplug events that libusb has queued for one path, as both kinds   *)
(* of monitors see them: what they say about the device a port has, and    *)
(* how an arrival, a removal, a dispatched event and a look at the device  *)
(* list change that.                                                       *)
(***************************************************************************)
EXTENDS UsbMonitor, SequenceTheorems, TLAPS

\* The event f can come next after e at one path.
Follows(e, f) ==
    \/ e.what = "ARRIVED" /\ f.what = "LEFT" /\ f.dev = e.dev
    \/ e.what = "LEFT" /\ f.what = "ARRIVED"

\* The queued events tell how the port's device became the one that is plugged
\* in: dev is NoDev, or the device that the first event is about.
Told(q, plugged, dev) ==
    /\ \A i \in 1 .. Len(q) - 1 : Follows(q[i], q[i + 1])
    /\ q = <<>> => dev \in {NoDev, plugged}
    /\ q # <<>> => /\ dev \in {NoDev, q[1].dev}
                   /\ plugged = IF q[Len(q)].what = "ARRIVED" THEN q[Len(q)].dev ELSE NoDev
-----------------------------------------------------------------------------
LEMMA ArriveTold ==
    ASSUME NEW q \in Seq(Event), NEW dev, Told(q, NoDev, dev), NEW d \in Devs
    PROVE  Told(Append(q, [what |-> "ARRIVED", dev |-> d]), d, dev)
<1> DEFINE e == [what |-> "ARRIVED", dev |-> d]
           w == Append(q, e)
<1>1. e \in Event /\ e.what = "ARRIVED" /\ e.dev = d
  BY DEF Event
<1> HIDE DEF e
<1>2. /\ w \in Seq(Event) /\ w # <<>> /\ Len(w) = Len(q) + 1 /\ w[Len(q) + 1] = e
      /\ \A i \in 1 .. Len(q) : w[i] = q[i]
      /\ Len(q) \in Nat /\ (q = <<>> <=> Len(q) = 0)
  BY <1>1, AppendProperties, EmptySeq, LenProperties
<1> HIDE DEF w
<1>3. \A i \in 1 .. Len(q) : q[i] \in Event
  BY ElementOfSeq
<1>4. Len(q) > 0 => q[Len(q)].what = "LEFT"
  BY <1>2, <1>3, DevsAssumption DEF Told, Event
<1>5. ASSUME NEW i \in 1 .. Len(w) - 1 PROVE Follows(w[i], w[i + 1])
  BY <1>1, <1>2, <1>4 DEF Told, Follows
<1>6. dev \in {NoDev, w[1].dev}
  BY <1>2 DEF Told
<1>7. QED
  BY <1>1, <1>2, <1>5, <1>6 DEF Told, e, w

LEMMA LeaveTold ==
    ASSUME NEW q \in Seq(Event), NEW dev, NEW d \in Devs, Told(q, d, dev)
    PROVE  Told(Append(q, [what |-> "LEFT", dev |-> d]), NoDev, dev)
<1> DEFINE e == [what |-> "LEFT", dev |-> d]
           w == Append(q, e)
<1>1. e \in Event /\ e.what = "LEFT" /\ e.dev = d
  BY DEF Event
<1> HIDE DEF e
<1>2. /\ w \in Seq(Event) /\ w # <<>> /\ Len(w) = Len(q) + 1 /\ w[Len(q) + 1] = e
      /\ \A i \in 1 .. Len(q) : w[i] = q[i]
      /\ Len(q) \in Nat /\ (q = <<>> <=> Len(q) = 0)
  BY <1>1, AppendProperties, EmptySeq, LenProperties
<1> HIDE DEF w
<1>3. \A i \in 1 .. Len(q) : q[i] \in Event
  BY ElementOfSeq
<1>4. Len(q) > 0 => q[Len(q)].what = "ARRIVED" /\ q[Len(q)].dev = d
  BY <1>2, <1>3, DevsAssumption DEF Told, Event
<1>5. ASSUME NEW i \in 1 .. Len(w) - 1 PROVE Follows(w[i], w[i + 1])
  BY <1>1, <1>2, <1>4 DEF Told, Follows
<1>6. dev \in {NoDev, w[1].dev}
  BY <1>1, <1>2 DEF Told
<1>7. QED
  BY <1>1, <1>2, <1>5, <1>6 DEF Told, e, w

\* The first event is dispatched: the port has its device, or none, when it
\* has arrived, and none when it has left.
LEMMA DispatchTold ==
    ASSUME NEW q \in Seq(Event), q # <<>>, NEW plugged, NEW dev, Told(q, plugged, dev),
           NEW new \in {NoDev, IF Head(q).what = "ARRIVED" THEN Head(q).dev ELSE NoDev}
    PROVE  Told(Tail(q), plugged, new)
<1> DEFINE w == Tail(q)
<1>1. /\ w \in Seq(Event) /\ Len(w) = Len(q) - 1 /\ Head(q) = q[1]
      /\ \A i \in 1 .. Len(w) : w[i] = q[i + 1]
      /\ Len(q) \in Nat /\ Len(q) > 0 /\ (w = <<>> <=> Len(w) = 0)
  <2>1. Len(q) \in Nat /\ Len(q) > 0
    BY EmptySeq, LenProperties
  <2>2. w \in Seq(Event) /\ Len(w) = Len(q) - 1 /\ \A i \in 1 .. Len(w) : w[i] = q[i + 1]
    BY HeadTailProperties
  <2>3. w = <<>> <=> Len(w) = 0
    BY <2>2, EmptySeq
  <2>4. Head(q) = q[1]
    OBVIOUS
  <2>5. QED
    BY <2>1, <2>2, <2>3, <2>4
<1> HIDE DEF w
<1>2. \A i \in 1 .. Len(q) : q[i] \in Event
  BY ElementOfSeq
<1>3. \A i \in 1 .. Len(w) - 1 : Follows(w[i], w[i + 1])
  BY <1>1 DEF Told
<1>4. CASE Len(q) = 1
  BY <1>1, <1>3, <1>4 DEF Told, w
<1>5. CASE Len(q) > 1
  <2>1. w # <<>> /\ w[1] = q[2] /\ w[Len(w)] = q[Len(q)] /\ Follows(q[1], q[2])
    BY <1>1, <1>5 DEF Told
  <2>2. new \in {NoDev, w[1].dev}
    BY <1>1, <2>1 DEF Follows
  <2>3. plugged = IF q[Len(q)].what = "ARRIVED" THEN q[Len(q)].dev ELSE NoDev
    BY DEF Told
  <2>4. QED
    BY <1>3, <2>1, <2>2, <2>3 DEF Told, w
<1>6. QED
  BY <1>1, <1>4, <1>5

\* A list that shows a device while no removal is queued shows the device that
\* the port has or is about to get.
LEMMA CurrentList ==
    ASSUME NEW q \in Seq(Event), NEW d \in Devs, NEW dev, Told(q, d, dev),
           \A i \in DOMAIN q : q[i].what # "LEFT"
    PROVE  dev \in {NoDev, d} /\ Told(q, d, d)
<1>1. /\ Len(q) \in Nat /\ DOMAIN q = 1 .. Len(q) /\ (q = <<>> <=> Len(q) = 0)
      /\ \A i \in 1 .. Len(q) : q[i] \in Event
  BY EmptySeq, LenProperties, ElementOfSeq
<1>2. \A i \in 1 .. Len(q) : q[i].what = "ARRIVED"
  BY <1>1 DEF Event
<1>3. ASSUME Len(q) > 1 PROVE FALSE
  <2>1. Follows(q[1], q[1 + 1]) /\ 1 \in 1 .. Len(q) /\ 1 + 1 \in 1 .. Len(q)
    BY <1>1, <1>3 DEF Told
  <2>2. QED
    BY <1>2, <2>1 DEF Follows
<1>4. CASE Len(q) = 0
  BY <1>1, <1>4 DEF Told
<1>5. CASE Len(q) = 1
  <2>1. q # <<>> /\ q[1].dev = d
    BY <1>1, <1>2, <1>5 DEF Told
  <2>2. QED
    BY <1>1, <1>5, <2>1 DEF Told
<1>6. QED
  BY <1>1, <1>3, <1>4, <1>5
-----------------------------------------------------------------------------
(* Less is left when lists are stale, but a device that is gone is still   *)
(* forgotten once the queue is empty.                                      *)

Known(q, plugged, dev) ==
    /\ q # <<>> => (plugged = NoDev <=> q[Len(q)].what = "LEFT")
    /\ q = <<>> /\ plugged = NoDev => dev = NoDev

\* An event is queued, and the device list changes with it.
LEMMA QueueKnown ==
    ASSUME NEW q \in Seq(Event), NEW e \in Event, NEW plugged, NEW dev,
           plugged = NoDev <=> e.what = "LEFT"
    PROVE  Known(Append(q, e), plugged, dev)
<1>1. /\ Append(q, e) # <<>> /\ Len(Append(q, e)) = Len(q) + 1
      /\ Append(q, e)[Len(q) + 1] = e
  BY AppendProperties
<1>2. QED
  BY <1>1 DEF Known

\* The first event is dispatched; a removal leaves the port without a device.
LEMMA DispatchKnown ==
    ASSUME NEW q \in Seq(Event), q # <<>>, NEW plugged, NEW dev, Known(q, plugged, dev),
           NEW new, Head(q).what = "LEFT" => new = NoDev
    PROVE  Known(Tail(q), plugged, new)
<1> DEFINE w == Tail(q)
<1>0. Head(q) = q[1]
  OBVIOUS
<1>1. Len(q) \in Nat /\ Len(q) > 0
  BY EmptySeq, LenProperties
<1>2. w \in Seq(Event) /\ Len(w) = Len(q) - 1 /\ \A i \in 1 .. Len(w) : w[i] = q[i + 1]
  BY HeadTailProperties
<1>3. w = <<>> <=> Len(w) = 0
  BY <1>2, EmptySeq
<1> HIDE DEF w
<1>4. CASE w = <<>>
  BY <1>0, <1>1, <1>2, <1>3, <1>4 DEF Known, w
<1>5. CASE w # <<>>
  <2>1. w[Len(w)] = q[Len(q)]
    BY <1>1, <1>2, <1>3, <1>5
  <2>2. QED
    BY <1>5, <2>1 DEF Known, w
<1>6. QED
  BY <1>4, <1>5
=============================================================================
