-------------------------- MODULE DeviceManagerProofs --------------------------
(***************************************************************************)
(* Proofs about DeviceManager, for any instruments, any number of replugs  *)
(* and session files, and any choice of calls.                             *)
(***************************************************************************)
EXTENDS DeviceManager, FiniteSetTheorems, WellFoundedInduction, TLAPS

Inst == [handle : 1..(DemoHandle + MaxFiles), unit : Units \cup {"demo", "file"},
         open : BOOLEAN, freed : BOOLEAN]

-----------------------------------------------------------------------------
(* The operations on the device instances.                                 *)

\* g is f after devices were opened, closed or given another libusb handle.
SameDevices(f, g) ==
    /\ g \in Seq(Inst) /\ Len(g) = Len(f)
    /\ \A i \in DOMAIN f :
          /\ g[i].freed = f[i].freed
          /\ g[i].handle = f[i].handle \/ (g[i].handle <= MaxPlugs /\ f[i].handle <= MaxPlugs)

\* g is f after, besides, the devices in S were destroyed.
Destroyed(f, g, S) ==
    /\ g \in Seq(Inst) /\ Len(g) = Len(f)
    /\ \A i \in DOMAIN f :
          /\ g[i].freed = (f[i].freed \/ i \in S)
          /\ g[i].handle = f[i].handle \/ (g[i].handle <= MaxPlugs /\ f[i].handle <= MaxPlugs)

\* First picks a member.
LEMMA FirstIn ==
    ASSUME NEW S \in SUBSET Nat, S # {}
    PROVE  First(S) \in S
<1>1. PICK x \in S : \A y \in S : ~(<<y, x>> \in OpToRel(<, Nat))
    BY WFMin, NatLessThanWellFounded, Zenon
<1>2. \A y \in S : ~(y < x)
    BY <1>1, Zenon DEF OpToRel
<1>3. \A y \in S : x <= y
    BY <1>2
<1> QED
    BY <1>3 DEF First

\* A sequence changed element by element remains a sequence of instances.
LEMMA ElementwiseSeq ==
    \A f \in Seq(Inst) : \A g :
        /\ DOMAIN g = DOMAIN f /\ g = [i \in DOMAIN g |-> g[i]]
        /\ \A i \in DOMAIN f : g[i] \in Inst
        => g \in Seq(Inst) /\ Len(g) = Len(f)
<1> SUFFICES ASSUME NEW f \in Seq(Inst), NEW g,
                    DOMAIN g = DOMAIN f, g = [i \in DOMAIN g |-> g[i]],
                    \A i \in DOMAIN f : g[i] \in Inst
             PROVE  g \in Seq(Inst) /\ Len(g) = Len(f)
    OBVIOUS
<1>1. DOMAIN f = 1..Len(f) /\ Len(f) \in Nat
    OBVIOUS
<1>2. g \in [1..Len(f) -> Inst]
    BY <1>1
<1> QED
    BY <1>1, <1>2

LEMMA CloseFacts ==
    ASSUME NEW f \in Seq(Inst), NEW S
    PROVE  SameDevices(f, Close(f, S))
<1>1. \A i \in DOMAIN f : f[i] \in Inst
    OBVIOUS
<1>2. \A i \in DOMAIN f : [f[i] EXCEPT !.open = FALSE] \in Inst
    BY <1>1 DEF Inst
<1>3. Close(f, S) \in Seq(Inst) /\ Len(Close(f, S)) = Len(f)
  <2>1. /\ DOMAIN Close(f, S) = DOMAIN f
        /\ Close(f, S) = [i \in DOMAIN Close(f, S) |-> Close(f, S)[i]]
      BY DEF Close
  <2>2. \A i \in DOMAIN f : Close(f, S)[i] \in Inst
      BY <1>1, <1>2 DEF Close
  <2> QED
      BY <2>1, <2>2, ElementwiseSeq
<1>4. \A i \in DOMAIN f : Close(f, S)[i].freed = f[i].freed /\ Close(f, S)[i].handle = f[i].handle
    BY <1>1 DEF Close, Inst
<1> QED
    BY <1>3, <1>4 DEF SameDevices

LEMMA DestroyFacts ==
    ASSUME NEW f \in Seq(Inst), NEW S
    PROVE  Destroyed(f, Destroy(f, S), S)
<1>1. \A i \in DOMAIN f : f[i] \in Inst
    OBVIOUS
<1>2. \A i \in DOMAIN f : [f[i] EXCEPT !.open = FALSE, !.freed = TRUE] \in Inst
    BY <1>1 DEF Inst
<1>3. Destroy(f, S) \in Seq(Inst) /\ Len(Destroy(f, S)) = Len(f)
  <2>1. /\ DOMAIN Destroy(f, S) = DOMAIN f
        /\ Destroy(f, S) = [i \in DOMAIN Destroy(f, S) |-> Destroy(f, S)[i]]
      BY DEF Destroy
  <2>2. \A i \in DOMAIN f : Destroy(f, S)[i] \in Inst
      BY <1>1, <1>2 DEF Destroy
  <2> QED
      BY <2>1, <2>2, ElementwiseSeq
<1>4. \A i \in DOMAIN f : /\ Destroy(f, S)[i].freed = (f[i].freed \/ i \in S)
                          /\ Destroy(f, S)[i].handle = f[i].handle
    BY <1>1 DEF Destroy, Inst
<1> QED
    BY <1>3, <1>4 DEF Destroyed

LEMMA OpeningFacts ==
    ASSUME NEW f \in Seq(Inst), NEW i \in DOMAIN f, NEW g \in Openings(f, i)
    PROVE  SameDevices(f, g)
<1>1. \A j \in DOMAIN f : f[j] \in Inst
    OBVIOUS
<1>2. Opened(f, i) = [f EXCEPT ![i] = [f[i] EXCEPT !.open = TRUE]]
    BY <1>1 DEF Opened
<1>3. [f[i] EXCEPT !.open = TRUE] \in Inst
    BY <1>1 DEF Inst
<1>4. SameDevices(f, f)
    BY DEF SameDevices
<1>5. Opened(f, i) \in Seq(Inst) /\ Len(Opened(f, i)) = Len(f)
    BY <1>1, <1>2, <1>3
<1>6. \A j \in DOMAIN f : Opened(f, i)[j].freed = f[j].freed /\ Opened(f, i)[j].handle = f[j].handle
    BY <1>1, <1>2, <1>3 DEF Inst
<1> QED
    BY <1>4, <1>5, <1>6 DEF SameDevices, Openings

\* TypeOK in parts, with the ranges it leaves open: scans found devices that
\* were known, and the reconnect count stays below its limit while it runs.
WorldType ==
    /\ owner \in Seq(Units) /\ Len(owner) <= MaxPlugs
    /\ bus \subseteq 1..Len(owner)
    /\ usbq \in Seq([event : {"attach", "detach"}, handle : 1..MaxPlugs])
DeviceType ==
    /\ insts \in Seq(Inst)
    /\ list \subseteq DOMAIN insts
    /\ active \in {None} \cup DOMAIN insts
    /\ delay \in BOOLEAN
FlagType ==
    /\ hotflags \in [attach : BOOLEAN, detach : BOOLEAN, waiting : BOOLEAN,
                     times : 0..Reconnect, handle : 0..MaxPlugs, reopen : BOOLEAN]
    /\ hotflags.waiting => hotflags.times < Reconnect
HotType ==
    /\ hot \in [pc : HotPC, found : SUBSET (1..MaxPlugs), arg : Nat]
    /\ hot.found \subseteq DOMAIN owner
    /\ hot.pc = "reopen" => hot.arg \in DOMAIN insts
CaptureType ==
    /\ col \in [pc : ColPC, dev : {None} \cup DOMAIN insts, error : BOOLEAN]
    /\ session \in [state : {"none", "new", "running", "stopping"}, stop : BOOLEAN]
    /\ collecting \in BOOLEAN /\ byDetach \in BOOLEAN
    /\ events \in Nat
UiType ==
    /\ ui \in [pc : UiPC, op : AllOps \cup {"none"}, arg : Nat, found : SUBSET (1..MaxPlugs)]
    /\ ui.found \subseteq DOMAIN owner
    /\ ui.pc = "open" => ui.arg \in DOMAIN insts

Types == WorldType /\ DeviceType /\ FlagType /\ HotType /\ CaptureType /\ UiType

LEMMA TypedInsts ==
    ASSUME DeviceType
    PROVE  insts \in Seq(Inst) /\ \A j \in DOMAIN insts : insts[j] \in Inst
<1>1. insts \in Seq(Inst)
    BY DEF DeviceType
<1> QED
    BY <1>1

LEMMA ListedFacts ==
    ASSUME DeviceType, NEW h, Listed(h) # {}
    PROVE  /\ First(Listed(h)) \in list
           /\ First(Listed(h)) \in DOMAIN insts
           /\ insts[First(Listed(h))].handle = h
<1>1. Listed(h) \in SUBSET Nat
    BY DEF Listed, DeviceType
<1> QED
    BY <1>1, FirstIn DEF Listed, HandleOf, DeviceType

\* list appended the instances g.
Appended ==
    \E g \in Seq(Inst) :
        /\ insts' = insts \o g
        /\ list' = list \cup ((Len(insts) + 1)..(Len(insts) + Len(g)))
        /\ \A k \in DOMAIN g : ~g[k].freed
        /\ UNCHANGED <<active, delay>>

LEMMA AppendFacts ==
    ASSUME WorldType, NEW found \in SUBSET DOMAIN owner, AppendFound(found)
    PROVE  Appended
<1> DEFINE S == {h \in found : Listed(h) = {}}
<1>1. PICK new \in SetToSeqs(S) :
        /\ insts' = insts \o [k \in DOMAIN new |-> Fresh(new[k])]
        /\ list' = list \cup ((Len(insts) + 1)..(Len(insts) + Len(new)))
        /\ UNCHANGED <<active, delay>>
    BY DEF AppendFound
<1>2. Cardinality(S) \in Nat
  <2>1. IsFiniteSet(DOMAIN owner) /\ S \subseteq DOMAIN owner
      BY FS_Interval DEF WorldType
  <2> QED
      BY <2>1, FS_Subset, FS_CardinalityType
<1>3. new \in [1..Cardinality(S) -> S]
    BY DEF SetToSeqs
<1>4. DOMAIN new = 1..Cardinality(S) /\ Len(new) = Cardinality(S)
    BY <1>2, <1>3
<1>5. \A k \in DOMAIN new : Fresh(new[k]) \in Inst /\ ~Fresh(new[k]).freed
  <2> SUFFICES ASSUME NEW k \in DOMAIN new
               PROVE  Fresh(new[k]) \in Inst /\ ~Fresh(new[k]).freed
      OBVIOUS
  <2>1. new[k] \in DOMAIN owner
      BY <1>3
  <2>2. owner[new[k]] \in Units /\ new[k] \in 1..MaxPlugs
      BY <2>1, ConstantsAssumption DEF WorldType
  <2> QED
      BY <2>2, ConstantsAssumption DEF Fresh, Inst, DemoHandle
<1> DEFINE g == [k \in DOMAIN new |-> Fresh(new[k])]
<1>6. g \in Seq(Inst) /\ Len(g) = Len(new) /\ DOMAIN g = DOMAIN new
  <2> DEFINE n == Cardinality(S)
  <2>1. g \in [1..n -> Inst] /\ DOMAIN g = DOMAIN new
      BY <1>4, <1>5
  <2>2. n \in Nat /\ DOMAIN new = 1..n /\ Len(new) = n
      BY <1>2, <1>4
  <2> HIDE DEF g, n
  <2> QED
      BY <2>1, <2>2
<1> QED
    BY <1>1, <1>5, <1>6 DEF Appended

\* The callback gives a device another libusb handle, and may close it.
LEMMA AttachedFacts ==
    ASSUME DeviceType, FlagType, NEW h \in 1..MaxPlugs, Attached(h)
    PROVE  SameDevices(insts, insts')
<1> DEFINE i == First(Listed(hotflags.handle))
<1>1. insts \in Seq(Inst) /\ \A j \in DOMAIN insts : insts[j] \in Inst
    BY TypedInsts
<1>2. CASE insts' = insts
    BY <1>1, <1>2 DEF SameDevices
<1>3. CASE /\ Listed(hotflags.handle) # {}
           /\ insts' = [insts EXCEPT ![i].handle = h,
                                     ![i].open = (i # active) /\ insts[i].open]
  <2>1. i \in DOMAIN insts /\ insts[i].handle = hotflags.handle
      BY <1>3, ListedFacts
  <2>2. insts[i].handle <= MaxPlugs /\ h \in 1..(DemoHandle + MaxFiles)
      BY <2>1, ConstantsAssumption DEF FlagType, DemoHandle
  <2> DEFINE b == (i # active) /\ insts[i].open
  <2>3. b \in BOOLEAN
      OBVIOUS
  <2> HIDE DEF b
  <2> DEFINE r == [insts[i] EXCEPT !.handle = h, !.open = b]
  <2>4. insts' = [insts EXCEPT ![i] = r]
      BY <1>3, <2>1, <1>1 DEF b
  <2>5. r \in Inst /\ r.freed = insts[i].freed /\ r.handle = h
      BY <1>1, <2>1, <2>2, <2>3 DEF Inst
  <2> HIDE DEF r
  <2>6. insts' \in Seq(Inst) /\ Len(insts') = Len(insts)
      BY <1>1, <2>1, <2>4, <2>5
  <2>7. \A j \in DOMAIN insts : insts'[j] = IF j = i THEN r ELSE insts[j]
      BY <1>1, <2>1, <2>4
  <2> QED
      BY <2>2, <2>5, <2>6, <2>7, <2>1 DEF SameDevices
<1> QED
    BY <1>2, <1>3 DEF Attached

LEMMA TypesGiveTypeOK == Types => TypeOK
<1> SUFFICES ASSUME Types PROVE TypeOK
    OBVIOUS
<1>1. insts \in Seq([handle : 1..(DemoHandle + MaxFiles), unit : Units \cup {"demo", "file"},
                     open : BOOLEAN, freed : BOOLEAN])
    BY Zenon DEF Types, DeviceType, Inst
<1> QED
    BY <1>1 DEF Types, WorldType, DeviceType, FlagType, HotType, CaptureType, UiType, TypeOK

\* A part holds on as long as its variables do; device instances and libusb
\* devices are only ever added.
LEMMA Frames ==
    /\ WorldType /\ UNCHANGED world => WorldType'
    /\ DeviceType /\ UNCHANGED devices => DeviceType'
    /\ FlagType /\ UNCHANGED hotflags => FlagType'
    /\ HotType /\ UNCHANGED hot /\ DOMAIN owner \subseteq DOMAIN owner' /\ DOMAIN insts \subseteq DOMAIN insts'
          => HotType'
    /\ CaptureType /\ UNCHANGED <<capture, events>> /\ DOMAIN insts \subseteq DOMAIN insts'
          => CaptureType'
    /\ UiType /\ UNCHANGED ui /\ DOMAIN owner \subseteq DOMAIN owner' /\ DOMAIN insts \subseteq DOMAIN insts'
          => UiType'
<1>1. WorldType /\ UNCHANGED world => WorldType'
    BY DEF WorldType, world
<1>2. DeviceType /\ UNCHANGED devices => DeviceType'
    BY DEF DeviceType, devices
<1>3. FlagType /\ UNCHANGED hotflags => FlagType'
    BY DEF FlagType
<1>4. HotType /\ UNCHANGED hot /\ DOMAIN owner \subseteq DOMAIN owner' /\ DOMAIN insts \subseteq DOMAIN insts'
          => HotType'
    BY DEF HotType
<1>5. CaptureType /\ UNCHANGED <<capture, events>> /\ DOMAIN insts \subseteq DOMAIN insts'
          => CaptureType'
    BY DEF CaptureType, capture
<1>6. UiType /\ UNCHANGED ui /\ DOMAIN owner \subseteq DOMAIN owner' /\ DOMAIN insts \subseteq DOMAIN insts'
          => UiType'
    BY DEF UiType
<1> QED
    BY <1>1, <1>2, <1>3, <1>4, <1>5, <1>6

-----------------------------------------------------------------------------
(* Type correctness: one lemma for every group of actions.                 *)

\* The devices keep their types, and none of them disappears.
DevicesGrow == DeviceType' /\ DOMAIN insts \subseteq DOMAIN insts'

LEMMA SameGrow ==
    ASSUME DeviceType, SameDevices(insts, insts'),
           list' \subseteq DOMAIN insts, active' \in {None} \cup DOMAIN insts, delay' \in BOOLEAN
    PROVE  DevicesGrow
<1>1. insts \in Seq(Inst)
    BY DEF DeviceType
<1>2. insts' \in Seq(Inst) /\ DOMAIN insts' = DOMAIN insts
    BY <1>1 DEF SameDevices
<1> QED
    BY <1>2 DEF DevicesGrow, DeviceType

LEMMA DestroyedGrow ==
    ASSUME DeviceType, NEW S, Destroyed(insts, insts', S),
           list' \subseteq DOMAIN insts, active' \in {None} \cup DOMAIN insts, delay' \in BOOLEAN
    PROVE  DevicesGrow
<1>1. insts \in Seq(Inst)
    BY DEF DeviceType
<1>2. insts' \in Seq(Inst) /\ DOMAIN insts' = DOMAIN insts
    BY <1>1 DEF Destroyed
<1> QED
    BY <1>2 DEF DevicesGrow, DeviceType

LEMMA AppendedGrow ==
    ASSUME DeviceType, Appended
    PROVE  DevicesGrow
<1>1. insts \in Seq(Inst)
    BY DEF DeviceType
<1>2. PICK g \in Seq(Inst) :
        /\ insts' = insts \o g
        /\ list' = list \cup ((Len(insts) + 1)..(Len(insts) + Len(g)))
        /\ UNCHANGED <<active, delay>>
    BY DEF Appended
<1>3. insts' \in Seq(Inst) /\ Len(insts') = Len(insts) + Len(g)
    BY <1>1, <1>2
<1>4. DOMAIN insts' = 1..(Len(insts) + Len(g)) /\ DOMAIN insts = 1..Len(insts)
    BY <1>1, <1>3
<1>5. Len(insts) \in Nat /\ Len(g) \in Nat
    BY <1>1
<1>6. list' \subseteq DOMAIN insts' /\ DOMAIN insts \subseteq DOMAIN insts'
    BY <1>2, <1>4, <1>5 DEF DeviceType
<1> QED
    BY <1>2, <1>3, <1>6 DEF DevicesGrow, DeviceType

\* Opened devices, as open_device_instance leaves them.
LEMMA OpeningGrow ==
    ASSUME DeviceType, NEW i \in DOMAIN insts, insts' \in Openings(insts, i),
           UNCHANGED <<list, active, delay>>
    PROVE  DevicesGrow /\ SameDevices(insts, insts')
<1>1. SameDevices(insts, insts')
    BY OpeningFacts DEF DeviceType
<1> QED
    BY <1>1, SameGrow DEF DeviceType

\* All parts hold on when only the devices and the thread that changes them do.
LEMMA KeepTypes ==
    ASSUME Types, DevicesGrow, UNCHANGED <<world, hotflags>>,
           HotType', CaptureType', UiType'
    PROVE  Types'
<1>1. WorldType' /\ FlagType'
    BY Frames DEF Types
<1> QED
    BY <1>1 DEF Types, DevicesGrow

LEMMA NoDevices == DeviceType /\ UNCHANGED devices => DevicesGrow
    BY Frames DEF DevicesGrow, devices

LEMMA WorldSteps ==
    ASSUME Types, World
    PROVE  Types'
<1>1. UNCHANGED <<devices, hotflags, hot, capture, events, ui>> /\ WorldType'
      /\ DOMAIN owner \subseteq DOMAIN owner'
  <2>1. CASE \E u \in Units : Plug(u)
    <3>1. PICK u \in Units : Plug(u)
        BY <2>1
    <3>2. /\ owner' \in Seq(Units) /\ Len(owner') = Len(owner) + 1 /\ Len(owner') <= MaxPlugs
          /\ DOMAIN owner \subseteq DOMAIN owner'
        BY <3>1, ConstantsAssumption DEF Plug, Types, WorldType
    <3>3. bus' \subseteq 1..Len(owner')
      <4>1. bus' = bus \cup {Len(owner')}
          BY <3>1 DEF Plug
      <4>2. Len(owner) \in Nat /\ bus \subseteq 1..Len(owner)
          BY DEF Types, WorldType
      <4> DEFINE n == Len(owner)
                 m == Len(owner')
      <4>3. n \in Nat /\ m = n + 1 /\ bus \subseteq 1..n /\ bus' = bus \cup {m}
          BY <3>2, <4>1, <4>2
      <4> HIDE DEF n, m
      <4>4. bus' \subseteq 1..m
          BY <4>3
      <4> QED
          BY <4>4 DEF m
    <3>4. [event |-> "attach", handle |-> Len(owner')] \in [event : {"attach", "detach"}, handle : 1..MaxPlugs]
        BY <3>2, ConstantsAssumption DEF Types, WorldType
    <3>5. usbq' \in Seq([event : {"attach", "detach"}, handle : 1..MaxPlugs])
        BY <3>1, <3>4 DEF Plug, Types, WorldType
    <3> QED
        BY <3>1, <3>2, <3>3, <3>5 DEF Plug, WorldType
  <2>2. CASE \E h \in bus : Unplug(h)
    <3>1. PICK h \in bus : Unplug(h)
        BY <2>2
    <3>2. [event |-> "detach", handle |-> h] \in [event : {"attach", "detach"}, handle : 1..MaxPlugs]
        BY <3>1, ConstantsAssumption DEF Types, WorldType
    <3>3. usbq' \in Seq([event : {"attach", "detach"}, handle : 1..MaxPlugs])
        BY <3>1, <3>2 DEF Unplug, Types, WorldType
    <3>4. owner' = owner /\ bus' \subseteq 1..Len(owner')
        BY <3>1 DEF Unplug, Types, WorldType
    <3> QED
        BY <3>1, <3>3, <3>4 DEF Unplug, Types, WorldType
  <2> QED
      BY <2>1, <2>2 DEF World
<1>2. DevicesGrow
    BY <1>1, NoDevices DEF Types
<1>3. HotType' /\ CaptureType' /\ UiType' /\ FlagType'
    BY <1>1, <1>2, Frames DEF Types, DevicesGrow
<1> QED
    BY <1>1, <1>2, <1>3 DEF Types, DevicesGrow

\* The collect thread and the event threads change the capture only.
CaptureSteps == ColStart \/ ColCheck \/ ColEnd \/ ColClear \/ ColLast \/ ColRunEnd \/ EventDone

LEMMA OnlyCapture == CaptureSteps => UNCHANGED <<world, devices, hotflags, hot, ui>>
    BY DEF CaptureSteps, ColStart, ColCheck, ColEnd, ColClear, ColLast, ColRunEnd, EventDone, capture

LEMMA CaptureTyped ==
    ASSUME Types, CaptureSteps
    PROVE  Types'
<1> USE DEF ColPC, ColAt, ColGoto, NoThread
<1>1. UNCHANGED <<world, devices, hotflags, hot, ui>>
    BY OnlyCapture
<1>2. DevicesGrow /\ insts' = insts /\ DOMAIN owner' = DOMAIN owner
    BY <1>1, NoDevices DEF Types, devices, world
<1>3. CaptureType'
  <2> SUFFICES /\ col' \in [pc : ColPC, dev : {None} \cup DOMAIN insts, error : BOOLEAN]
               /\ session' \in [state : {"none", "new", "running", "stopping"}, stop : BOOLEAN]
               /\ collecting' \in BOOLEAN /\ byDetach' \in BOOLEAN /\ events' \in Nat
      BY <1>2 DEF CaptureType
  <2>0. CaptureType /\ active \in {None} \cup DOMAIN insts
      BY DEF Types, DeviceType
  <2>1. CASE ColStart
      BY <2>0, <2>1 DEF ColStart, CaptureType
  <2>2. CASE ColCheck
      BY <2>0, <2>2 DEF ColCheck, CaptureType
  <2>3. CASE ColEnd
      BY <2>0, <2>3 DEF ColEnd, CaptureType
  <2>4. CASE ColClear
      BY <2>0, <2>4 DEF ColClear, CaptureType
  <2>5. CASE ColLast
      BY <2>0, <2>5 DEF ColLast, CaptureType
  <2>6. CASE ColRunEnd
      BY <2>0, <2>6 DEF ColRunEnd, CaptureType
  <2>7. CASE EventDone
      BY <2>0, <2>7 DEF EventDone, CaptureType, capture
  <2> QED
      BY <2>1, <2>2, <2>3, <2>4, <2>5, <2>6, <2>7 DEF CaptureSteps
<1>4. HotType' /\ UiType'
    BY <1>1, <1>2, Frames DEF Types
<1> QED
    BY <1>1, <1>2, <1>3, <1>4, KeepTypes

\* The callback, in whichever thread it runs.
LEMMA CallbackTyped ==
    ASSUME Types, Callback
    PROVE  /\ Types'
           /\ SameDevices(insts, insts')
<1> DEFINE n == Head(usbq)
<1>1. n.handle \in 1..MaxPlugs /\ usbq' \in Seq([event : {"attach", "detach"}, handle : 1..MaxPlugs])
  <2> DEFINE E == [event : {"attach", "detach"}, handle : 1..MaxPlugs]
  <2>1. usbq \in Seq(E) /\ usbq # <<>> /\ usbq' = Tail(usbq)
      BY DEF Callback, Types, WorldType
  <2>2. \A e \in E : e.handle \in 1..MaxPlugs
      OBVIOUS
  <2> HIDE DEF E
  <2>3. n \in E /\ usbq' \in Seq(E)
      BY <2>1
  <2> QED
      BY <2>2, <2>3 DEF E
<1>2. UNCHANGED <<owner, bus, list, active, delay, hot, col, collecting, events, ui>>
    BY DEF Callback
<1>3. Attached(n.handle) \/ Detached(n.handle)
    BY DEF Callback
<1> HIDE DEF n
<1>4. SameDevices(insts, insts')
  <2>1. CASE Attached(n.handle)
      BY <1>1, <2>1, AttachedFacts DEF Types
  <2>2. CASE Detached(n.handle)
      BY <2>2, TypedInsts DEF Detached, SameDevices, Types
  <2> QED
      BY <1>3, <2>1, <2>2
<1>5. DevicesGrow
    BY <1>2, <1>4, SameGrow DEF Types, DeviceType
<1>6. FlagType'
  <2>1. CASE Attached(n.handle)
    <3> DEFINE back == hotflags.waiting /\ Listed(hotflags.handle) # {}
               first == First(Listed(hotflags.handle))
               a == hotflags.attach \/ ~back
               r == hotflags.reopen \/ (back /\ first = active)
               h == IF hotflags.waiting THEN None ELSE hotflags.handle
    <3>1. hotflags' = [hotflags EXCEPT !.attach = a, !.waiting = FALSE, !.handle = h, !.reopen = r]
        BY <2>1 DEF Attached
    <3>2. a \in BOOLEAN /\ r \in BOOLEAN
        BY DEF Types, FlagType
    <3>3. h \in 0..MaxPlugs
        BY ConstantsAssumption DEF Types, FlagType, None
    <3> HIDE DEF a, r, h
    <3> QED
        BY <3>1, <3>2, <3>3 DEF Types, FlagType
  <2>2. CASE Detached(n.handle)
    <3> DEFINE h == n.handle
    <3>1. hotflags' = [hotflags EXCEPT !.waiting = TRUE, !.times = 0, !.handle = h]
        BY <2>2 DEF Detached
    <3>2. h \in 0..MaxPlugs
        BY <1>1, ConstantsAssumption
    <3>3. 0 \in 0..Reconnect /\ 0 < Reconnect
        BY ConstantsAssumption
    <3> HIDE DEF h
    <3> QED
        BY <3>1, <3>2, <3>3 DEF Types, FlagType
  <2> QED
      BY <1>3, <2>1, <2>2
<1>7. CaptureType'
  <2>1. session' \in [state : {"none", "new", "running", "stopping"}, stop : BOOLEAN] /\ byDetach' \in BOOLEAN
    <3>1. CASE Attached(n.handle)
        BY <3>1 DEF Attached, Types, CaptureType
    <3>2. CASE Detached(n.handle)
      <4> DEFINE s == IF session.state = "running" THEN "stopping" ELSE session.state
      <4>1. \/ byDetach' = TRUE /\ session' = [state |-> s, stop |-> TRUE]
            \/ UNCHANGED <<byDetach, session>>
          BY <3>2 DEF Detached, RequestStop
      <4>2. s \in {"none", "new", "running", "stopping"}
          BY DEF Types, CaptureType
      <4> HIDE DEF s
      <4>3. [state |-> s, stop |-> TRUE] \in [state : {"none", "new", "running", "stopping"}, stop : BOOLEAN]
          BY <4>2
      <4>4. CASE byDetach' = TRUE /\ session' = [state |-> s, stop |-> TRUE]
          BY <4>3, <4>4
      <4>5. CASE UNCHANGED <<byDetach, session>>
          BY <4>5 DEF Types, CaptureType
      <4> QED
          BY <4>1, <4>4, <4>5
    <3> QED
        BY <1>3, <3>1, <3>2
  <2> QED
      BY <1>2, <1>5, <2>1 DEF Types, CaptureType, DevicesGrow
<1>8. WorldType' /\ HotType' /\ UiType'
    BY <1>1, <1>2, <1>5, Frames DEF Types, WorldType, DevicesGrow
<1> QED
    BY <1>4, <1>5, <1>6, <1>7, <1>8 DEF Types, DevicesGrow

\* The hotplug thread on its own.
HotOnly == HotPoll \/ HotPolled \/ HotScan \/ HotDetach \/ HotEnd
HotFlag == HotAttached \/ HotTake \/ HotDetached \/ HotCount \/ HotTrans

LEMMA HotFrame ==
    /\ HotOnly => UNCHANGED <<world, devices, hotflags, capture, events, ui>>
    /\ HotFlag => UNCHANGED <<world, devices, capture, events, ui>>
<1>1. HotOnly => UNCHANGED <<world, devices, hotflags, capture, events, ui>>
    BY DEF HotOnly, HotPoll, HotPolled, HotScan, HotDetach, HotEnd
<1>2. HotFlag => UNCHANGED <<world, devices, capture, events, ui>>
    BY DEF HotFlag, HotAttached, HotTake, HotDetached, HotCount, HotTrans
<1> QED
    BY <1>1, <1>2

LEMMA HotOnlyTyped ==
    ASSUME Types, HotOnly
    PROVE  Types'
<1> USE DEF HotPC, HotAt, HotGoto
<1>1. UNCHANGED <<world, devices, hotflags, capture, events, ui>>
    BY HotFrame
<1>2. DevicesGrow /\ insts' = insts /\ DOMAIN owner' = DOMAIN owner
    BY <1>1, NoDevices DEF Types, devices, world
<1>3. HotType
    BY DEF Types
<1>4. HotType'
  <2> SUFFICES /\ hot' \in [pc : HotPC, found : SUBSET (1..MaxPlugs), arg : Nat]
               /\ hot'.found \subseteq DOMAIN owner
               /\ hot'.pc # "reopen"
      BY <1>2 DEF HotType
  <2>1. CASE HotPoll
      BY <1>3, <2>1 DEF HotPoll, HotType
  <2>2. CASE HotPolled
      BY <1>3, <2>2 DEF HotPolled, HotType
  <2>3. CASE HotScan
    <3>1. bus \in SUBSET (1..MaxPlugs) /\ bus \subseteq DOMAIN owner
        BY ConstantsAssumption DEF Types, WorldType
    <3> QED
        BY <1>3, <2>3, <3>1 DEF HotScan, HotType
  <2>4. CASE HotDetach
    <3>1. hotflags.handle \in Nat
        BY ConstantsAssumption DEF Types, FlagType
    <3> QED
        BY <1>3, <2>4, <3>1 DEF HotDetach, HotType
  <2>5. CASE HotEnd
      BY <1>3, <2>5 DEF HotEnd, HotType
  <2> QED
      BY <2>1, <2>2, <2>3, <2>4, <2>5 DEF HotOnly
<1>5. CaptureType' /\ UiType'
    BY <1>1, <1>2, Frames DEF Types
<1> QED
    BY <1>1, <1>2, <1>4, <1>5, KeepTypes

LEMMA HotFlagTyped ==
    ASSUME Types, HotFlag
    PROVE  Types'
<1> USE DEF HotPC, HotAt, HotGoto
<1>1. UNCHANGED <<world, devices, capture, events, ui>>
    BY HotFrame
<1>2. DevicesGrow /\ insts' = insts /\ DOMAIN owner' = DOMAIN owner
    BY <1>1, NoDevices DEF Types, devices, world
<1>3. HotType /\ FlagType /\ active \in {None} \cup DOMAIN insts
    BY DEF Types, DeviceType
<1>4. HotType'
  <2> SUFFICES /\ hot' \in [pc : HotPC, found : SUBSET (1..MaxPlugs), arg : Nat]
               /\ hot'.found \subseteq DOMAIN owner
               /\ hot'.pc = "reopen" => hot'.arg \in DOMAIN insts
      BY <1>2 DEF HotType
  <2>1. CASE HotAttached
      BY <1>3, <2>1 DEF HotAttached, HotType
  <2>2. CASE HotTake
      BY <1>3, <2>2 DEF HotTake, HotType
  <2>3. CASE HotDetached
      BY <1>3, <2>3 DEF HotDetached, HotType
  <2>4. CASE HotCount
      BY <1>3, <2>4 DEF HotCount, HotType
  <2>5. CASE HotTrans
    <3>1. active # None => active \in DOMAIN insts /\ active \in Nat
      <4>1. insts \in Seq(Inst)
          BY DEF Types, DeviceType
      <4> QED
          BY <1>3, <4>1
    <3> QED
        BY <1>3, <2>5, <3>1 DEF HotTrans, HotType
  <2> QED
      BY <2>1, <2>2, <2>3, <2>4, <2>5 DEF HotFlag
<1>5. FlagType'
  <2>1. CASE HotAttached
      BY <1>3, <2>1 DEF HotAttached, FlagType
  <2>2. CASE HotTake
      BY <1>3, <2>2, ConstantsAssumption DEF HotTake, FlagType, None
  <2>3. CASE HotDetached
      BY <1>3, <2>3 DEF HotDetached, FlagType
  <2>4. CASE HotCount
    <3> DEFINE late == hotflags.times + 1 = Reconnect
               d == hotflags.detach \/ late
               w == ~late
               n == hotflags.times + 1
    <3>1. \/ hotflags' = hotflags
          \/ hotflags.waiting /\ hotflags' = [hotflags EXCEPT !.times = n, !.waiting = w, !.detach = d]
        BY <2>4 DEF HotCount
    <3>2. d \in BOOLEAN /\ w \in BOOLEAN
        BY <1>3 DEF FlagType
    <3>3. hotflags.waiting => n \in 0..Reconnect /\ (w => n < Reconnect)
        BY <1>3, ConstantsAssumption DEF FlagType
    <3> HIDE DEF d, w, n
    <3> QED
        BY <1>3, <3>1, <3>2, <3>3 DEF FlagType
  <2>5. CASE HotTrans
      BY <1>3, <2>5 DEF HotTrans, FlagType
  <2> QED
      BY <2>1, <2>2, <2>3, <2>4, <2>5 DEF HotFlag
<1>6. WorldType' /\ CaptureType' /\ UiType'
    BY <1>1, <1>2, Frames DEF Types
<1> QED
    BY <1>2, <1>4, <1>5, <1>6 DEF Types, DevicesGrow

\* Destroying nothing.
LEMMA DestroyNone ==
    ASSUME NEW f \in Seq(Inst)
    PROVE  Destroyed(f, f, {}) /\ SameDevices(f, f)
<1>1. \A i \in DOMAIN f : f[i] \in Inst
    OBVIOUS
<1>2. \A i \in DOMAIN f : f[i].freed = (f[i].freed \/ i \in {})
    BY <1>1 DEF Inst
<1> QED
    BY <1>2 DEF Destroyed, SameDevices

\* The hotplug thread takes one device off the list; it destroys it unless it
\* is the active one.
Unlists ==
    \/ UNCHANGED devices
    \/ \E i \in list :
          /\ list' = list \ {i} /\ active' = active /\ delay' = (delay \/ i = active)
          /\ Destroyed(insts, insts', IF i = active THEN {} ELSE {i})

LEMMA UnlistFacts ==
    ASSUME DeviceType, HotUnlist
    PROVE  Unlists /\ DevicesGrow
<1>1. CASE UNCHANGED devices
    BY <1>1, NoDevices DEF Unlists
<1>2. CASE ~UNCHANGED devices
  <2> DEFINE i == First(Listed(hot.arg))
  <2>1. /\ Listed(hot.arg) # {}
        /\ list' = list \ {i} /\ delay' = (delay \/ i = active) /\ active' = active
        /\ insts' = IF i = active THEN insts ELSE Destroy(insts, {i})
      BY <1>2 DEF HotUnlist
  <2>2. i \in list /\ i \in DOMAIN insts
      BY <2>1, ListedFacts
  <2> HIDE DEF i
  <2>3. insts \in Seq(Inst)
      BY DEF DeviceType
  <2>4. Destroyed(insts, insts', IF i = active THEN {} ELSE {i})
    <3>1. CASE i = active
        BY <2>1, <2>3, <3>1, DestroyNone
    <3>2. CASE i # active
        BY <2>1, <2>3, <3>2, DestroyFacts
    <3> QED
        BY <3>1, <3>2
  <2>5. delay' \in BOOLEAN
    <3>1. delay \in BOOLEAN
        BY DEF DeviceType
    <3> QED
        BY <2>1, <3>1
  <2>6. list' \subseteq DOMAIN insts /\ active' \in {None} \cup DOMAIN insts
      BY <2>1 DEF DeviceType
  <2>7. DevicesGrow
      BY <2>4, <2>5, <2>6, DestroyedGrow
  <2> QED
      BY <2>1, <2>2, <2>4, <2>7 DEF Unlists
<1> QED
    BY <1>1, <1>2

LEMMA HotDevicesTyped ==
    ASSUME Types, HotAppend \/ HotUnlist \/ HotReopen
    PROVE  Types'
<1> USE DEF HotPC, HotAt, HotGoto
<1>1. UNCHANGED <<world, hotflags, capture, ui>>
    BY DEF HotAppend, HotUnlist, HotReopen
<1>2. HotType /\ DeviceType /\ events \in Nat
    BY DEF Types, CaptureType
<1>3. DevicesGrow
  <2>1. CASE HotAppend
    <3>1. hot.found \in SUBSET DOMAIN owner
        BY <1>2 DEF HotType
    <3> QED
        BY <1>2, <2>1, <3>1, AppendFacts, AppendedGrow DEF HotAppend, Types
  <2>2. CASE HotUnlist
      BY <1>2, <2>2, UnlistFacts
  <2>3. CASE HotReopen
    <3>1. hot.arg \in DOMAIN insts
        BY <1>2, <2>3 DEF HotReopen, HotType
    <3> QED
        BY <1>2, <2>3, <3>1, OpeningGrow DEF HotReopen
  <2> QED
      BY <2>1, <2>2, <2>3
<1>4. hot' \in [pc : HotPC, found : SUBSET (1..MaxPlugs), arg : Nat] /\ hot'.pc # "reopen"
      /\ hot'.found \subseteq hot.found
  <2>1. CASE HotAppend
      BY <1>2, <2>1 DEF HotAppend, HotType
  <2>2. CASE HotUnlist
      BY <1>2, <2>2 DEF HotUnlist, HotType, None
  <2>3. CASE HotReopen
      BY <1>2, <2>3 DEF HotReopen, HotType, None
  <2> QED
      BY <2>1, <2>2, <2>3
<1>5. HotType'
    BY <1>1, <1>2, <1>4 DEF HotType, world
<1>6. events' \in Nat
    BY <1>2 DEF HotAppend, HotUnlist, HotReopen
<1>7. CaptureType'
    BY <1>1, <1>3, <1>6 DEF Types, CaptureType, DevicesGrow, capture
<1>8. UiType'
    BY <1>1, <1>3, Frames DEF Types, DevicesGrow, world
<1> QED
    BY <1>1, <1>3, <1>5, <1>7, <1>8, KeepTypes

LEMMA HotTyped ==
    ASSUME Types, HotStep
    PROVE  Types'
<1>1. CASE HotCallback
    BY <1>1, CallbackTyped DEF HotCallback
<1>2. CASE HotOnly
    BY <1>2, HotOnlyTyped
<1>3. CASE HotFlag
    BY <1>3, HotFlagTyped
<1>4. CASE HotAppend \/ HotUnlist \/ HotReopen
    BY <1>4, HotDevicesTyped
<1> QED
    BY <1>1, <1>2, <1>3, <1>4 DEF HotStep, HotOnly, HotFlag

LEMMA ColTyped ==
    ASSUME Types, ColStep \/ ColRunEnd \/ EventDone
    PROVE  Types'
<1>1. CASE ColCallback
    BY <1>1, CallbackTyped DEF ColCallback
<1>2. CASE CaptureSteps
    BY <1>2, CaptureTyped
<1> QED
    BY <1>1, <1>2 DEF ColStep, CaptureSteps

-----------------------------------------------------------------------------
(* The application thread.                                                 *)

LEMMA ThenSame ==
    ASSUME NEW f \in Seq(Inst), NEW g, NEW h, NEW S,
           Destroyed(f, g, S) \/ (S = {} /\ SameDevices(f, g)), SameDevices(g, h)
    PROVE  Destroyed(f, h, S)
<1>1. \A i \in DOMAIN f : f[i] \in Inst
    OBVIOUS
<1>2. /\ g \in Seq(Inst) /\ Len(g) = Len(f)
      /\ \A i \in DOMAIN f :
            /\ g[i].freed = (f[i].freed \/ i \in S)
            /\ g[i].handle = f[i].handle \/ (g[i].handle <= MaxPlugs /\ f[i].handle <= MaxPlugs)
  <2>1. CASE Destroyed(f, g, S)
      BY <2>1 DEF Destroyed
  <2>2. CASE S = {} /\ SameDevices(f, g)
    <3>1. \A i \in DOMAIN f : f[i].freed = (f[i].freed \/ i \in S)
        BY <1>1, <2>2 DEF Inst
    <3> QED
        BY <2>2, <3>1 DEF SameDevices
  <2> QED
      BY <2>1, <2>2
<1>3. DOMAIN g = DOMAIN f
    BY <1>2
<1> QED
    BY <1>2, <1>3 DEF SameDevices, Destroyed

\* ds_active_device destroys the old device if that was put off, and leaves the
\* old one, none, or a listed one active.
LEMMA ActivateFacts ==
    ASSUME DeviceType, NEW h, Activate(h)
    PROVE  /\ Destroyed(insts, insts', IF delay THEN {active} ELSE {})
           /\ (active' = active /\ ~delay) \/ active' = None \/ active' \in list
           /\ list' = list /\ delay' = FALSE
           /\ DevicesGrow
<1> DEFINE kept == IF delay THEN None ELSE active
           left == IF delay THEN Destroy(insts, {active}) ELSE Close(insts, {active})
           back == IF kept # None THEN kept ELSE First(list)
           S == IF delay THEN {active} ELSE {}
<1>1. insts \in Seq(Inst) /\ delay \in BOOLEAN
    BY DEF DeviceType
<1>2. Destroyed(insts, left, S) \/ (S = {} /\ SameDevices(insts, left))
    BY <1>1, CloseFacts, DestroyFacts
<1>3. left \in Seq(Inst) /\ DOMAIN left = DOMAIN insts
    BY <1>1, <1>2 DEF Destroyed, SameDevices
<1>4. /\ list' = list /\ delay' = FALSE
      /\ \/ Listed(h) = {} /\ insts' = left /\ active' = kept
         \/ /\ Listed(h) # {} /\ CanOpen(left, First(Listed(h)))
            /\ insts' = Opened(left, First(Listed(h))) /\ active' = First(Listed(h))
         \/ Listed(h) # {} /\ insts' \in Openings(left, back) /\ active' = back
    BY DEF Activate
<1>5. kept = None \/ (kept = active /\ ~delay /\ kept \in DOMAIN insts)
    BY DEF DeviceType
<1>6. Listed(h) # {} => /\ First(Listed(h)) \in list /\ First(Listed(h)) \in DOMAIN insts
                        /\ First(list) \in list /\ First(list) \in DOMAIN insts
  <2>1. list \in SUBSET Nat
      BY <1>1 DEF DeviceType
  <2>2. Listed(h) # {} => list # {}
      BY DEF Listed
  <2> QED
      BY <2>1, <2>2, ListedFacts, FirstIn DEF DeviceType
<1> HIDE DEF left, S
<1>7. SameDevices(left, insts') /\ (kept = active' \/ active' \in list)
      /\ active' \in {None} \cup DOMAIN insts
  <2>1. CASE insts' = left /\ active' = kept
      BY <1>3, <1>5, <2>1, DestroyNone
  <2>2. CASE Listed(h) # {} /\ CanOpen(left, First(Listed(h)))
             /\ insts' = Opened(left, First(Listed(h))) /\ active' = First(Listed(h))
    <3>1. insts' \in Openings(left, First(Listed(h)))
        BY <2>2 DEF Openings
    <3> QED
        BY <1>3, <1>6, <2>2, <3>1, OpeningFacts
  <2>3. CASE Listed(h) # {} /\ insts' \in Openings(left, back) /\ active' = back
    <3>1. back \in DOMAIN left
        BY <1>3, <1>5, <1>6, <2>3
    <3>2. SameDevices(left, insts')
        BY <1>3, <2>3, <3>1, OpeningFacts
    <3> QED
        BY <1>3, <1>5, <1>6, <2>3, <3>1, <3>2
  <2> QED
      BY <1>4, <2>1, <2>2, <2>3
<1>8. Destroyed(insts, insts', S)
    BY <1>1, <1>2, <1>7, ThenSame
<1>9. DevicesGrow
    BY <1>4, <1>7, <1>8, DestroyedGrow DEF DeviceType
<1> QED
    BY <1>4, <1>5, <1>7, <1>8, <1>9 DEF S

LEMMA OpenFileFacts ==
    ASSUME DeviceType, NEW h \in FileHandles, OpenFile(h)
    PROVE  Appended /\ DevicesGrow
<1> DEFINE d == [handle |-> h, unit |-> "file", open |-> FALSE, freed |-> FALSE]
<1>1. insts \in Seq(Inst)
    BY DEF DeviceType
<1>2. d \in Inst /\ ~d.freed
    BY ConstantsAssumption DEF Inst, FileHandles, DemoHandle
<1>3. insts' = Append(insts, d) /\ list' = list \cup {Len(insts')} /\ UNCHANGED <<active, delay>>
    BY DEF OpenFile
<1> HIDE DEF d
<1> DEFINE g == <<d>>
<1>4. g \in Seq(Inst) /\ Len(g) = 1 /\ \A k \in DOMAIN g : ~g[k].freed
    BY <1>2
<1>5. insts' = insts \o g /\ Len(insts') = Len(insts) + 1
    BY <1>1, <1>2, <1>3
<1>6. list' = list \cup ((Len(insts) + 1)..(Len(insts) + Len(g)))
  <2>1. Len(insts) \in Nat
      BY <1>1
  <2> QED
      BY <1>3, <1>4, <1>5, <2>1
<1>7. Appended
    BY <1>3, <1>4, <1>5, <1>6 DEF Appended
<1> QED
    BY <1>7, AppendedGrow

\* ds_remove_device destroys the active device if that was put off ...
LEMMA RemoveDeviceFacts ==
    ASSUME DeviceType, NEW h, RemoveDevice(h)
    PROVE  /\ DevicesGrow /\ list' = list
           /\ \/ UNCHANGED devices
              \/ /\ ActiveHandle = h /\ delay /\ active' = None /\ delay' = FALSE
                 /\ Destroyed(insts, insts', {active})
<1>1. insts \in Seq(Inst) /\ list' = list
    BY DEF DeviceType, RemoveDevice
<1>2. CASE UNCHANGED devices
    BY <1>1, <1>2, NoDevices
<1>3. CASE ~UNCHANGED devices
  <2>1. ActiveHandle = h /\ delay /\ insts' = Destroy(insts, {active}) /\ active' = None /\ delay' = FALSE
      BY <1>1, <1>3 DEF RemoveDevice, devices
  <2>2. Destroyed(insts, insts', {active})
      BY <1>1, <2>1, DestroyFacts
  <2>3. DevicesGrow
      BY <1>1, <2>1, <2>2, DestroyedGrow DEF DeviceType
  <2> QED
      BY <1>1, <2>1, <2>2, <2>3
<1> QED
    BY <1>2, <1>3

\* ... and the device it was asked to remove.
LEMMA RemoveListedFacts ==
    ASSUME DeviceType, RemoveListed
    PROVE  /\ DevicesGrow /\ delay' = delay
           /\ \/ UNCHANGED devices
              \/ \E i \in list :
                    /\ HandleOf(i) = ui.arg /\ list' = list \ {i}
                    /\ active' = IF i = active THEN None ELSE active
                    /\ Destroyed(insts, insts', {i})
<1>1. insts \in Seq(Inst)
    BY DEF DeviceType
<1>2. CASE UNCHANGED devices
    BY <1>2, NoDevices DEF devices
<1>3. CASE ~UNCHANGED devices
  <2> DEFINE i == First(Listed(ui.arg))
  <2>1. /\ Listed(ui.arg) # {} /\ delay' = delay
        /\ list' = list \ {i} /\ active' = IF i = active THEN None ELSE active
        /\ insts' = Destroy(insts, {i})
      BY <1>3 DEF RemoveListed
  <2>2. i \in list /\ HandleOf(i) = ui.arg
      BY <2>1, ListedFacts DEF HandleOf
  <2> HIDE DEF i
  <2>3. Destroyed(insts, insts', {i})
      BY <1>1, <2>1, DestroyFacts
  <2>4. DevicesGrow
    <3>1. list' \subseteq DOMAIN insts /\ active' \in {None} \cup DOMAIN insts /\ delay' \in BOOLEAN
        BY <2>1 DEF DeviceType
    <3> QED
        BY <2>3, <3>1, DestroyedGrow
  <2> QED
      BY <2>1, <2>2, <2>3, <2>4
<1> QED
    BY <1>2, <1>3

\* Closing and opening.
LEMMA SameFacts ==
    ASSUME Types, Sleep \/ CloseActive \/ OpenForCollect
    PROVE  SameDevices(insts, insts') /\ UNCHANGED <<list, active, delay>> /\ DevicesGrow
<1>1. insts \in Seq(Inst) /\ DeviceType
    BY DEF DeviceType, Types
<1>2. UNCHANGED <<list, active, delay>>
    BY DEF Sleep, CloseActive, OpenForCollect
<1>3. SameDevices(insts, insts')
  <2>1. CASE Sleep
      BY <1>1, <2>1, CloseFacts DEF Sleep
  <2>2. CASE CloseActive
    <3>1. insts' = insts \/ insts' = Close(insts, {active})
        BY <2>2 DEF CloseActive
    <3> QED
        BY <1>1, <3>1, CloseFacts, DestroyNone
  <2>3. CASE OpenForCollect
    <3>1. ui.arg \in DOMAIN insts /\ insts' \in Openings(insts, ui.arg)
        BY <2>3 DEF OpenForCollect, UiAt, Types, UiType
    <3> QED
        BY <1>1, <3>1, OpeningFacts
  <2> QED
      BY <2>1, <2>2, <2>3
<1> QED
    BY <1>1, <1>2, <1>3, SameGrow DEF DeviceType

LEMMA WakeAppendFacts ==
    ASSUME Types, WakeAppend
    PROVE  Appended /\ DevicesGrow
<1>1. ui.found \in SUBSET DOMAIN owner /\ AppendFound(ui.found)
    BY DEF WakeAppend, Types, UiType
<1>2. Appended
    BY <1>1, AppendFacts DEF Types
<1> QED
    BY <1>2, AppendedGrow DEF Types

LEMMA ExitDestroyFacts ==
    ASSUME DeviceType, ExitDestroy
    PROVE  /\ Destroyed(insts, insts', list \cup (IF delay THEN {active} ELSE {}))
           /\ list' = {} /\ delay' = FALSE /\ active' = IF delay THEN None ELSE active
           /\ DevicesGrow
<1>1. insts \in Seq(Inst)
    BY DEF DeviceType
<1> DEFINE S == list \cup (IF delay THEN {active} ELSE {})
<1>2. /\ insts' = Destroy(insts, S)
      /\ list' = {} /\ delay' = FALSE /\ active' = IF delay THEN None ELSE active
    BY DEF ExitDestroy
<1> HIDE DEF S
<1>3. Destroyed(insts, insts', S)
    BY <1>1, <1>2, DestroyFacts
<1>4. DevicesGrow
    BY <1>2, <1>3, DestroyedGrow DEF DeviceType
<1> QED
    BY <1>2, <1>3, <1>4 DEF S

UiDevices(h) ==
    \/ Activate(h) \/ (h \in FileHandles /\ (OpenFile(h) \/ RemoveDevice(h)))
    \/ RemoveListed \/ Sleep \/ WakeAppend \/ ExitDestroy

UiFields == [pc : UiPC, op : AllOps \cup {"none"}, arg : Nat, found : SUBSET (1..MaxPlugs)]

LEMMA IdleType == Idle \in UiFields /\ Idle.found = {}
    BY DEF Idle, UiFields, UiPC, AllOps, None

LEMMA UiDevicesTyped ==
    ASSUME Types, NEW h, UiDevices(h)
    PROVE  Types'
<1>1. UNCHANGED <<world, hotflags, hot, capture, events>>
    BY DEF UiDevices, Activate, OpenFile, RemoveDevice, RemoveListed, Sleep, WakeAppend, ExitDestroy
<1>2. DevicesGrow
    BY ActivateFacts, OpenFileFacts, RemoveDeviceFacts, RemoveListedFacts, SameFacts,
       WakeAppendFacts, ExitDestroyFacts DEF UiDevices, Types
<1>3. HotType' /\ CaptureType'
    BY <1>1, <1>2, Frames DEF Types, DevicesGrow, world
<1>4. UiType
    BY DEF Types
<1>5. UiType'
  <2>1. CASE UNCHANGED ui
      BY <1>1, <1>2, <1>4, <2>1, Frames DEF DevicesGrow, world
  <2>2. CASE ~UNCHANGED ui
    <3>1. ui' \in UiFields /\ ui'.found \in {{}, ui.found} /\ ui'.pc # "open"
      <4>1. CASE h \in FileHandles /\ RemoveDevice(h)
        <5>1. h \in Nat
            BY <4>1, ConstantsAssumption DEF FileHandles, DemoHandle
        <5>2. ui' = [Idle EXCEPT !.pc = "remove", !.arg = h]
            BY <4>1 DEF RemoveDevice
        <5> QED
            BY <5>1, <5>2, IdleType DEF UiFields, UiPC
      <4>2. CASE RemoveListed \/ WakeAppend
        <5>1. ui' = Idle /\ Idle.pc # "open"
            BY <4>2 DEF RemoveListed, WakeAppend, Idle
        <5> QED
            BY <5>1, IdleType
      <4>3. CASE ExitDestroy
        <5>1. ui' = [ui EXCEPT !.pc = "wait"]
            BY <4>3 DEF ExitDestroy, UiGoto
        <5> QED
            BY <1>4, <5>1 DEF UiType, UiFields, UiPC
      <4> QED
          BY <2>2, <4>1, <4>2, <4>3 DEF UiDevices, Activate, OpenFile, Sleep
    <3> QED
        BY <1>1, <1>4, <3>1 DEF UiType, UiFields, world
  <2> QED
      BY <2>1, <2>2
<1> QED
    BY <1>1, <1>2, <1>3, <1>5, KeepTypes

UiCapture ==
    \/ StartCollect \/ OpenForCollect \/ JoinCollect \/ CloseActive
    \/ \E op \in {"stop", "release", "exit"} : StopCollect(op)

LEMMA UiCaptureTyped ==
    ASSUME Types, UiCapture
    PROVE  Types'
<1>1. UNCHANGED <<world, hotflags, hot, byDetach, events>>
    BY DEF UiCapture, StartCollect, OpenForCollect, JoinCollect, CloseActive, StopCollect, capture
<1>2. DevicesGrow
  <2>1. CASE OpenForCollect \/ CloseActive
      BY <2>1, SameFacts
  <2>2. CASE ~(OpenForCollect \/ CloseActive)
    <3>1. UNCHANGED devices
        BY <2>2 DEF UiCapture, StartCollect, JoinCollect, StopCollect
    <3> QED
        BY <3>1, NoDevices DEF Types
  <2> QED
      BY <2>1, <2>2
<1>3. HotType'
    BY <1>1, <1>2, Frames DEF Types, DevicesGrow, world
<1>4. UiType /\ CaptureType /\ active \in {None} \cup DOMAIN insts /\ insts \in Seq(Inst)
    BY DEF Types, DeviceType
<1>5. /\ col' \in {col, NoThread, [NoThread EXCEPT !.pc = "start"]}
      /\ session' \in [state : {"none", "new", "running", "stopping"}, stop : BOOLEAN]
      /\ collecting' \in BOOLEAN
  <2>1. CASE StartCollect
      BY <1>4, <2>1 DEF StartCollect, CaptureType
  <2>2. CASE OpenForCollect
      BY <1>4, <2>2 DEF OpenForCollect, CaptureType
  <2>3. CASE JoinCollect
      BY <1>4, <2>3 DEF JoinCollect, CaptureType
  <2>4. CASE CloseActive
      BY <1>4, <2>4 DEF CloseActive, CaptureType
  <2>5. ASSUME NEW op \in {"stop", "release", "exit"}, StopCollect(op)
        PROVE  /\ col' = col /\ collecting' = collecting
               /\ session' \in [state : {"none", "new", "running", "stopping"}, stop : BOOLEAN]
    <3> DEFINE s == IF session.state = "running" THEN "stopping" ELSE session.state
    <3>1. session' = session \/ session' = [state |-> s, stop |-> TRUE]
        BY <2>5 DEF StopCollect, RequestStop
    <3>2. s \in {"none", "new", "running", "stopping"}
        BY <1>4 DEF CaptureType
    <3> HIDE DEF s
    <3>3. [state |-> s, stop |-> TRUE] \in [state : {"none", "new", "running", "stopping"}, stop : BOOLEAN]
        BY <3>2
    <3> QED
        BY <1>4, <2>5, <3>1, <3>3 DEF StopCollect, CaptureType
  <2> QED
      BY <1>4, <2>1, <2>2, <2>3, <2>4, <2>5 DEF UiCapture, CaptureType
<1>6. CaptureType'
  <2>1. col' \in [pc : ColPC, dev : {None} \cup DOMAIN insts', error : BOOLEAN]
    <3> DEFINE C == [pc : ColPC, dev : {None} \cup DOMAIN insts', error : BOOLEAN]
    <3>1. col \in C
        BY <1>2, <1>4 DEF DevicesGrow, CaptureType
    <3>2. NoThread \in C /\ [NoThread EXCEPT !.pc = "start"] \in C
        BY DEF NoThread, ColPC
    <3> HIDE DEF C
    <3> QED
        BY <1>5, <3>1, <3>2 DEF C
  <2> QED
      BY <1>1, <1>4, <1>5, <2>1 DEF CaptureType
<1>7. UiType'
  <2> SUFFICES /\ ui' \in UiFields /\ ui'.found \subseteq DOMAIN owner
               /\ ui'.pc = "open" => ui'.arg \in DOMAIN insts
      BY <1>1, <1>2 DEF UiType, UiFields, DevicesGrow, world
  <2>0. ui \in UiFields /\ ui.found \subseteq DOMAIN owner
      BY <1>4 DEF UiType, UiFields
  <2>1. CASE StartCollect
    <3>1. active \in DOMAIN insts /\ active \in Nat /\ ui' = [Idle EXCEPT !.pc = "open", !.arg = active]
        BY <1>4, <2>1 DEF StartCollect
    <3> QED
        BY <3>1, IdleType DEF UiFields, UiPC
  <2>2. CASE OpenForCollect
    <3>1. ui' = Idle /\ Idle.pc # "open"
        BY <2>2 DEF OpenForCollect, Idle
    <3> QED
        BY <3>1, IdleType
  <2>3. CASE JoinCollect
      BY <2>0, <2>3 DEF JoinCollect, UiGoto, UiFields, UiPC
  <2>4. CASE CloseActive
    <3>1. CASE ui' = Idle
      <4>1. Idle.pc # "open"
          BY DEF Idle
      <4> QED
          BY <3>1, <4>1, IdleType
    <3>2. CASE ui' = [ui EXCEPT !.pc = "exit"]
        BY <2>0, <3>2 DEF UiFields, UiPC
    <3> QED
        BY <2>4, <3>1, <3>2 DEF CloseActive
  <2>5. ASSUME NEW op \in {"stop", "release", "exit"}, StopCollect(op)
        PROVE  ui' \in UiFields /\ ui'.found \subseteq DOMAIN owner /\ ui'.pc # "open"
    <3>1. PICK pc \in {"exit", "close", "join"} : ui' = [Idle EXCEPT !.op = op, !.pc = pc]
        BY <2>5 DEF StopCollect
    <3> QED
        BY <2>5, <3>1, IdleType DEF UiFields, UiPC, AllOps
  <2> QED
      BY <2>1, <2>2, <2>3, <2>4, <2>5 DEF UiCapture
<1> QED
    BY <1>1, <1>2, <1>3, <1>6, <1>7, KeepTypes

UiExit == ExitHotplug \/ ExitJoin \/ ExitDone

LEMMA UiOtherTyped ==
    ASSUME Types, Wake \/ UiExit
    PROVE  Types'
<1>1. UNCHANGED <<world, insts, list, active, hot, capture, events>>
    BY DEF Wake, UiExit, ExitHotplug, ExitJoin, ExitDone, devices
<1>2. UiType /\ FlagType /\ DeviceType /\ WorldType
    BY DEF Types
<1>3. delay' \in BOOLEAN /\ DevicesGrow
  <2>1. delay' \in BOOLEAN
      BY <1>2 DEF Wake, UiExit, ExitHotplug, ExitJoin, ExitDone, devices, DeviceType
  <2> QED
      BY <1>1, <1>2, <2>1 DEF DevicesGrow, DeviceType
<1>4. FlagType'
  <2>1. CASE Wake
    <3> DEFINE h == None
    <3>1. hotflags' = [hotflags EXCEPT !.handle = h, !.detach = FALSE] /\ h \in 0..MaxPlugs
        BY <2>1, ConstantsAssumption DEF Wake, None
    <3> HIDE DEF h
    <3> QED
        BY <1>2, <3>1 DEF FlagType
  <2>2. CASE UiExit
      BY <1>2, <2>2, Frames DEF UiExit, ExitHotplug, ExitJoin, ExitDone
  <2> QED
      BY <2>1, <2>2
<1>5. UiType'
  <2> SUFFICES /\ ui' \in UiFields /\ ui'.found \subseteq DOMAIN owner /\ ui'.pc # "open"
      BY <1>1, <1>3 DEF UiType, UiFields, DevicesGrow, world
  <2>1. CASE Wake
    <3>1. bus \in SUBSET (1..MaxPlugs) /\ bus \subseteq DOMAIN owner
        BY <1>2, ConstantsAssumption DEF WorldType
    <3>2. ui' = [Idle EXCEPT !.pc = "append", !.found = bus]
        BY <2>1 DEF Wake
    <3> QED
        BY <3>1, <3>2, IdleType DEF UiFields, UiPC
  <2>2. CASE UiExit
    <3>1. PICK pc \in {"joinHot", "destroy", "gone"} : ui' = [ui EXCEPT !.pc = pc]
        BY <2>2 DEF UiExit, ExitHotplug, ExitJoin, ExitDone, UiGoto
    <3> QED
        BY <1>2, <3>1 DEF UiType, UiFields, UiPC
  <2> QED
      BY <2>1, <2>2
<1>6. HotType' /\ CaptureType' /\ WorldType'
    BY <1>1, <1>3, Frames DEF Types, DevicesGrow, world
<1> QED
    BY <1>3, <1>4, <1>5, <1>6 DEF Types, DevicesGrow

LEMMA UiSplit ==
    UiCalls \/ UiStep => UiCapture \/ Wake \/ UiExit \/ UiCallback \/ \E h : UiDevices(h)
    BY DEF UiCalls, UiStep, UiCapture, UiExit, UiDevices

LEMMA TypesInit == Init => Types
<1> SUFFICES ASSUME Init PROVE Types
    OBVIOUS
<1>1. PICK n \in 0..MaxPlugs :
          /\ owner \in {o \in [1..n -> Units] : IsInjective(o)}
          /\ bus = 1..n
          /\ insts = <<[handle |-> DemoHandle, unit |-> "demo", open |-> FALSE, freed |-> FALSE]>>
                     \o [i \in 1..n |-> Fresh(i)]
          /\ list = 1..(n + 1)
          /\ hotflags = [attach |-> n > 0, detach |-> FALSE, waiting |-> FALSE,
                         times |-> 0, handle |-> None, reopen |-> FALSE]
    BY DEF Init
<1>2. n \in Nat /\ n <= MaxPlugs
    BY ConstantsAssumption
<1>3. owner \in Seq(Units) /\ Len(owner) = n /\ DOMAIN owner = 1..n
    BY <1>1, <1>2
<1>4. WorldType
    BY <1>1, <1>2, <1>3 DEF Init, WorldType
<1>5. insts \in Seq(Inst) /\ Len(insts) = n + 1
  <2> DEFINE d == [handle |-> DemoHandle, unit |-> "demo", open |-> FALSE, freed |-> FALSE]
             g == [i \in 1..n |-> Fresh(i)]
  <2>1. d \in Inst
      BY ConstantsAssumption DEF Inst, DemoHandle
  <2>2. \A i \in 1..n : Fresh(i) \in Inst
      BY <1>1, <1>2, <1>3, ConstantsAssumption DEF Fresh, Inst, DemoHandle
  <2>3. g \in [1..n -> Inst]
      BY <2>2
  <2>4. insts = <<d>> \o g
      BY <1>1
  <2> HIDE DEF d, g
  <2>5. g \in Seq(Inst) /\ Len(g) = n
      BY <1>2, <2>3
  <2> QED
      BY <2>1, <2>4, <2>5
<1>6. DeviceType
  <2>1. list = 1..(n + 1) /\ DOMAIN insts = 1..(n + 1)
      BY <1>1, <1>2, <1>5
  <2> QED
      BY <1>5, <2>1 DEF Init, DeviceType
<1>7. FlagType
  <2>1. (n > 0) \in BOOLEAN
      OBVIOUS
  <2> DEFINE b == n > 0
  <2>2. hotflags = [attach |-> b, detach |-> FALSE, waiting |-> FALSE,
                    times |-> 0, handle |-> None, reopen |-> FALSE]
      BY <1>1
  <2>3. b \in BOOLEAN /\ 0 \in 0..Reconnect /\ None \in 0..MaxPlugs
      BY ConstantsAssumption DEF None
  <2> HIDE DEF b
  <2> QED
      BY <2>2, <2>3 DEF FlagType
<1>8. HotType /\ CaptureType
    BY DEF Init, HotType, CaptureType, HotPC, ColPC, NoThread, None
<1>9. UiType
    BY IdleType DEF Init, UiType, UiFields, Idle
<1> QED
    BY <1>4, <1>6, <1>7, <1>8, <1>9 DEF Types

LEMMA TypesNext == Types /\ [Next]_vars => Types'
<1> SUFFICES ASSUME Types, [Next]_vars PROVE Types'
    OBVIOUS
<1>1. CASE World
    BY <1>1, WorldSteps
<1>2. CASE UiCalls \/ UiStep
  <2>1. CASE UiCallback
      BY <2>1, CallbackTyped DEF UiCallback
  <2> QED
      BY <1>2, <2>1, UiSplit, UiCaptureTyped, UiOtherTyped, UiDevicesTyped
<1>3. CASE HotStep
    BY <1>3, HotTyped
<1>4. CASE ColStep \/ ColRunEnd \/ EventDone
    BY <1>4, ColTyped
<1>5. CASE UNCHANGED vars
  <2>1. UNCHANGED <<world, devices, hotflags, hot, capture, events, ui>>
      BY <1>5 DEF vars
  <2>2. DOMAIN owner' = DOMAIN owner /\ DOMAIN insts' = DOMAIN insts
      BY <2>1 DEF world, devices
  <2> QED
      BY <2>1, <2>2, Frames DEF Types
<1> QED
    BY <1>1, <1>2, <1>3, <1>4, <1>5 DEF Next

\* Every variable stays in its type.
THEOREM TypeCorrect == Spec => []TypeOK
<1>1. Types => TypeOK
    BY TypesGiveTypeOK
<1> QED
    BY <1>1, TypesInit, TypesNext, PTL DEF Spec

-----------------------------------------------------------------------------
(* The devices in use.                                                     *)

\* The collect thread counts as collecting, knows the active device only, and is
\* gone when the application closes or destroys devices.
Threads ==
    /\ collecting => col.pc \in {"start", "check", "run", "end", "clear", "last"}
    /\ col.pc \in {"start", "check", "run", "end", "clear", "last"} => collecting
    /\ col.dev # None => collecting /\ col.dev = active
    /\ collecting => active # None
    /\ ui.pc = "open" => ui.arg = active /\ active # None /\ ~collecting
    /\ ui.pc \in {"close", "exit", "joinHot", "destroy", "wait", "gone"} => ~collecting

\* ds_remove_device goes on with a virtual device that is not being captured.
Removing ==
    ui.pc = "remove" => ui.arg \in FileHandles /\ (collecting => ActiveHandle # ui.arg)

Devices == InUseIsLive /\ DelayIsForActive

Safe == Threads /\ Removing /\ Devices

ActiveIsDevice == active # None => active \in DOMAIN insts

LEMMA DeviceFacts ==
    ASSUME DeviceType
    PROVE  /\ insts \in Seq(Inst) /\ list \subseteq DOMAIN insts /\ ActiveIsDevice
           /\ \A i \in DOMAIN insts : insts[i].freed \in BOOLEAN /\ insts[i].handle \in Nat
           /\ delay \in BOOLEAN /\ None \notin list
<1>1. insts \in Seq(Inst) /\ \A j \in DOMAIN insts : insts[j] \in Inst
    BY TypedInsts
<1>2. \A i \in DOMAIN insts : insts[i].freed \in BOOLEAN /\ insts[i].handle \in Nat
    BY <1>1, ConstantsAssumption DEF Inst, DemoHandle
<1>3. None \notin DOMAIN insts
    BY <1>1 DEF None
<1> QED
    BY <1>1, <1>2, <1>3 DEF DeviceType, ActiveIsDevice

\* Opening and closing devices, appending them, and replugging, do no harm.
LEMMA SameSafe ==
    ASSUME DeviceType, Devices, SameDevices(insts, insts'), UNCHANGED <<list, active, delay>>,
           Exiting => Exiting'
    PROVE  Devices'
<1>1. \A i \in DOMAIN insts : insts'[i].freed = insts[i].freed
    BY DEF SameDevices
<1>2. InUseIsLive'
    BY <1>1, DeviceFacts DEF Devices, InUseIsLive, ActiveIsDevice
<1>3. DelayIsForActive'
    BY DEF Devices, DelayIsForActive
<1> QED
    BY <1>2, <1>3 DEF Devices

LEMMA AppendedSafe ==
    ASSUME DeviceType, Devices, Appended, Exiting => Exiting'
    PROVE  Devices'
<1>1. PICK g \in Seq(Inst) :
        /\ insts' = insts \o g
        /\ list' = list \cup ((Len(insts) + 1)..(Len(insts) + Len(g)))
        /\ \A k \in DOMAIN g : ~g[k].freed
        /\ UNCHANGED <<active, delay>>
    BY DEF Appended
<1>2. insts \in Seq(Inst) /\ Len(insts) \in Nat /\ DOMAIN insts = 1..Len(insts)
    BY DeviceFacts
<1>3. \A i \in DOMAIN insts : insts'[i] = insts[i]
    BY <1>1, <1>2
<1>4. \A i \in (Len(insts) + 1)..(Len(insts) + Len(g)) : ~insts'[i].freed /\ i \notin DOMAIN insts
  <2> SUFFICES ASSUME NEW i \in (Len(insts) + 1)..(Len(insts) + Len(g))
               PROVE  ~insts'[i].freed /\ i \notin DOMAIN insts
      OBVIOUS
  <2>1. insts'[i] = g[i - Len(insts)] /\ i - Len(insts) \in DOMAIN g
      BY <1>1, <1>2
  <2> QED
      BY <1>1, <1>2, <2>1
<1>5. InUseIsLive'
    BY <1>1, <1>3, <1>4, DeviceFacts DEF Devices, InUseIsLive, ActiveIsDevice
<1>6. DelayIsForActive'
    BY <1>1, <1>4, DeviceFacts DEF Devices, DelayIsForActive, ActiveIsDevice
<1> QED
    BY <1>5, <1>6 DEF Devices

LEMMA UnlistsSafe ==
    ASSUME DeviceType, Devices, Unlists, Exiting => Exiting'
    PROVE  Devices' /\ active' = active
<1>1. CASE UNCHANGED devices
    BY <1>1, DeviceFacts, DestroyNone, SameSafe DEF devices
<1>2. ASSUME NEW i \in list,
             list' = list \ {i}, active' = active, delay' = (delay \/ i = active),
             Destroyed(insts, insts', IF i = active THEN {} ELSE {i})
      PROVE  Devices' /\ active' = active
  <2>1. \A j \in DOMAIN insts : j # i => insts'[j].freed = insts[j].freed
      BY <1>2, DeviceFacts DEF Destroyed
  <2>2. i = active => insts'[active].freed = insts[active].freed
      BY <1>2, DeviceFacts DEF Destroyed
  <2>3. InUseIsLive'
      BY <1>2, <2>1, <2>2, DeviceFacts DEF Devices, InUseIsLive, ActiveIsDevice
  <2>4. DelayIsForActive'
      BY <1>2, DeviceFacts DEF Devices, DelayIsForActive
  <2> QED
      BY <1>2, <2>3, <2>4 DEF Devices
<1> QED
    BY <1>1, <1>2 DEF Unlists

LEMMA ThreadsFrame ==
    Threads /\ UNCHANGED <<col, collecting, active, ui>> => Threads'
    BY DEF Threads

LEMMA RemovingFrame ==
    ASSUME DeviceType, Threads, Removing, UNCHANGED <<collecting, active, ui>>,
           DOMAIN insts \subseteq DOMAIN insts',
           \A i \in DOMAIN insts : \/ insts'[i].handle = insts[i].handle
                                   \/ insts'[i].handle <= MaxPlugs
    PROVE  Removing'
<1>1. active # None => active \in DOMAIN insts
    BY DeviceFacts DEF ActiveIsDevice
<1>2. \A h \in FileHandles : ~(h <= MaxPlugs)
    BY ConstantsAssumption DEF FileHandles, DemoHandle
<1>3. FileHandles' = FileHandles
    BY DEF FileHandles, DemoHandle
<1> QED
    BY <1>1, <1>2, <1>3 DEF Removing, Threads, ActiveHandle, HandleOf

LEMMA QuietSafe ==
    ASSUME Types, Safe, UNCHANGED <<devices, col, collecting, ui>>
    PROVE  Safe'
<1>1. SameDevices(insts, insts') /\ UNCHANGED <<insts, list, active, delay>> /\ DOMAIN insts \subseteq DOMAIN insts'
    BY DeviceFacts, DestroyNone DEF Types, devices
<1>2. Devices'
    BY <1>1, SameSafe DEF Types, Safe, Exiting
<1>3. Threads' /\ Removing'
    BY <1>1, ThreadsFrame, RemovingFrame DEF Types, Safe
<1> QED
    BY <1>2, <1>3 DEF Safe

\* The callback and a reopening.
LEMMA ReopenedSafe ==
    ASSUME Types, Safe, SameDevices(insts, insts'),
           UNCHANGED <<list, active, delay, col, collecting, ui>>
    PROVE  Safe'
<1>1. Devices'
    BY SameSafe DEF Types, Safe, Exiting
<1>2. DOMAIN insts \subseteq DOMAIN insts'
    BY DeviceFacts DEF SameDevices, Types
<1>3. Threads' /\ Removing'
    BY <1>2, ThreadsFrame, RemovingFrame DEF Types, Safe, SameDevices
<1> QED
    BY <1>1, <1>3 DEF Safe

LEMMA HotDevicesSafe ==
    ASSUME Types, Safe, HotAppend \/ HotUnlist \/ HotReopen
    PROVE  Safe'
<1>1. UNCHANGED <<capture, ui>> /\ (Exiting => Exiting')
    BY DEF HotAppend, HotUnlist, HotReopen, Exiting
<1>2. UNCHANGED <<col, collecting>>
    BY <1>1 DEF capture
<1>3. CASE HotAppend
  <2>1. Appended
      BY <1>3, AppendFacts DEF HotAppend, Types, HotType
  <2>2. Devices' /\ DevicesGrow /\ active' = active
      BY <1>1, <2>1, AppendedSafe, AppendedGrow DEF Types, Safe, Appended
  <2>3. \A i \in DOMAIN insts : insts'[i].handle = insts[i].handle
      BY <2>1, DeviceFacts DEF Appended, Types
  <2>4. Threads' /\ Removing'
      BY <1>1, <1>2, <2>2, <2>3, ThreadsFrame, RemovingFrame DEF Types, Safe, DevicesGrow
  <2> QED
      BY <2>2, <2>4 DEF Safe
<1>4. CASE HotUnlist
  <2>1. Unlists /\ DevicesGrow
      BY <1>4, UnlistFacts DEF Types
  <2>2. Devices' /\ active' = active
      BY <1>1, <2>1, UnlistsSafe DEF Types, Safe
  <2>3. \A i \in DOMAIN insts : insts'[i].handle = insts[i].handle \/ insts'[i].handle <= MaxPlugs
    <3>1. CASE UNCHANGED devices
        BY <3>1 DEF devices
    <3>2. CASE ~UNCHANGED devices
        BY <2>1, <3>2 DEF Unlists, Destroyed
    <3> QED
        BY <3>1, <3>2
  <2>4. Threads' /\ Removing'
      BY <1>1, <1>2, <2>1, <2>2, <2>3, ThreadsFrame, RemovingFrame DEF Types, Safe, DevicesGrow
  <2> QED
      BY <2>2, <2>4 DEF Safe
<1>5. CASE HotReopen
  <2>1. hot.arg \in DOMAIN insts /\ insts' \in Openings(insts, hot.arg) /\ UNCHANGED <<list, active, delay>>
      BY <1>5 DEF HotReopen, HotAt, Types, HotType
  <2>2. SameDevices(insts, insts')
      BY <2>1, OpeningGrow DEF Types
  <2> QED
      BY <1>1, <1>2, <2>1, <2>2, ReopenedSafe
<1> QED
    BY <1>3, <1>4, <1>5

\* The collect thread.
LEMMA CaptureSafe ==
    ASSUME Types, Safe, CaptureSteps
    PROVE  Safe'
<1>1. UNCHANGED <<world, devices, hotflags, hot, ui>>
    BY OnlyCapture
<1>2. SameDevices(insts, insts') /\ UNCHANGED <<insts, list, active, delay>> /\ DOMAIN insts \subseteq DOMAIN insts'
    BY <1>1, DeviceFacts, DestroyNone DEF Types, devices
<1>3. Devices'
    BY <1>1, <1>2, SameSafe DEF Types, Safe, Exiting
<1>4. Threads'
  <2> USE DEF ColAt, ColGoto, NoThread, None
  <2>0. Threads /\ col \in [pc : ColPC, dev : {None} \cup DOMAIN insts, error : BOOLEAN]
      BY DEF Safe, Types, CaptureType
  <2>1. CASE ColStart
      BY <1>1, <1>2, <2>0, <2>1 DEF ColStart, Threads
  <2>2. CASE ColCheck
      BY <1>1, <1>2, <2>0, <2>2 DEF ColCheck, Threads
  <2>3. CASE ColEnd
      BY <1>1, <1>2, <2>0, <2>3 DEF ColEnd, Threads
  <2>4. CASE ColClear
      BY <1>1, <1>2, <2>0, <2>4 DEF ColClear, Threads
  <2>5. CASE ColLast
      BY <1>1, <1>2, <2>0, <2>5 DEF ColLast, Threads
  <2>6. CASE ColRunEnd
      BY <1>1, <1>2, <2>0, <2>6 DEF ColRunEnd, Threads
  <2>7. CASE EventDone
      BY <1>1, <1>2, <2>0, <2>7 DEF EventDone, Threads, capture
  <2> QED
      BY <2>1, <2>2, <2>3, <2>4, <2>5, <2>6, <2>7 DEF CaptureSteps
<1>5. collecting' => collecting
    BY DEF CaptureSteps, ColStart, ColCheck, ColEnd, ColClear, ColLast, ColRunEnd, EventDone, capture
<1>6. Removing'
    BY <1>1, <1>2, <1>5 DEF Safe, Removing, FileHandles, DemoHandle, ActiveHandle, HandleOf
<1> QED
    BY <1>3, <1>4, <1>6 DEF Safe

LEMMA ActivateSafe ==
    ASSUME Types, Safe, NEW h, Activate(h)
    PROVE  Safe'
<1>1. /\ ~collecting /\ UiAt("idle") /\ UNCHANGED <<col, collecting, ui>>
    BY DEF Activate, MayCall, capture
<1>2. /\ Destroyed(insts, insts', IF delay THEN {active} ELSE {})
      /\ (active' = active /\ ~delay) \/ active' = None \/ active' \in list
      /\ list' = list /\ delay' = FALSE
    BY ActivateFacts DEF Types
<1>3. InUseIsLive /\ DelayIsForActive
    BY DEF Safe, Devices
<1>4. \A i \in DOMAIN insts : (delay => i # active) => insts'[i].freed = insts[i].freed
    BY <1>2, DeviceFacts DEF Destroyed, Types
<1>5. InUseIsLive'
  <2>1. \A i \in list' : ~insts'[i].freed
      BY <1>2, <1>3, <1>4, DeviceFacts DEF InUseIsLive, DelayIsForActive, Types
  <2>2. ~Exiting
      BY <1>1 DEF Exiting, UiAt
  <2>3. active' # None => ~insts'[active'].freed
    <3>1. CASE active' \in list
        BY <1>2, <2>1, <3>1
    <3>2. CASE active' = active /\ ~delay
        BY <1>3, <1>4, <2>2, <3>2, DeviceFacts DEF InUseIsLive, ActiveIsDevice, Types
    <3> QED
        BY <1>2, <3>1, <3>2
  <2> QED
      BY <2>1, <2>3 DEF InUseIsLive
<1>6. DelayIsForActive'
    BY <1>2 DEF DelayIsForActive
<1>7. Threads' /\ Removing'
    BY <1>1 DEF Safe, Threads, Removing, UiAt
<1> QED
    BY <1>5, <1>6, <1>7 DEF Safe, Devices

LEMMA RemoveDeviceSafe ==
    ASSUME Types, Safe, NEW h \in FileHandles, RemoveDevice(h)
    PROVE  Safe'
<1>1. /\ ~(ActiveHandle = h /\ collecting) /\ UiAt("idle") /\ UNCHANGED <<col, collecting>>
      /\ ui'.pc = "remove" /\ ui'.arg = h
    BY DEF RemoveDevice, MayCall, capture, Idle
<1>2. list' = list
    BY RemoveDeviceFacts DEF Types
<1>3. ~Exiting /\ ~Exiting' /\ FileHandles' = FileHandles
    BY <1>1 DEF Exiting, UiAt, FileHandles, DemoHandle
<1>4. CASE UNCHANGED devices
  <2>1. Devices'
      BY <1>3, <1>4, DeviceFacts, DestroyNone, SameSafe DEF devices, Types, Safe
  <2>2. Threads' /\ Removing'
      BY <1>1, <1>3, <1>4 DEF Safe, Threads, Removing, devices, ActiveHandle, HandleOf
  <2> QED
      BY <2>1, <2>2 DEF Safe
<1>5. CASE /\ ActiveHandle = h /\ delay /\ active' = None /\ delay' = FALSE
           /\ Destroyed(insts, insts', {active})
  <2>1. ~collecting
      BY <1>1, <1>5
  <2>2. active \notin list
      BY <1>5 DEF Safe, Devices, DelayIsForActive
  <2>3. \A i \in list : ~insts'[i].freed
      BY <1>5, <2>2, DeviceFacts DEF Destroyed, Types, Safe, Devices, InUseIsLive
  <2>4. Devices'
      BY <1>2, <1>5, <2>3 DEF Devices, InUseIsLive, DelayIsForActive
  <2>5. Threads' /\ Removing'
      BY <1>1, <1>3, <2>1 DEF Safe, Threads, Removing
  <2> QED
      BY <2>4, <2>5 DEF Safe
<1> QED
    BY <1>4, <1>5, RemoveDeviceFacts DEF Types

LEMMA RemoveListedSafe ==
    ASSUME Types, Safe, RemoveListed
    PROVE  Safe'
<1>1. UiAt("remove") /\ UNCHANGED <<col, collecting>> /\ ui' = Idle /\ Idle.pc = "idle"
    BY DEF RemoveListed, capture, Idle
<1>2. ~Exiting /\ ~Exiting'
    BY <1>1 DEF Exiting, UiAt
<1>3. Removing'
    BY <1>1 DEF Removing
<1>4. CASE UNCHANGED devices
  <2>1. Devices'
      BY <1>2, <1>4, DeviceFacts, DestroyNone, SameSafe DEF devices, Types, Safe
  <2>2. Threads'
      BY <1>1, <1>4 DEF Safe, Threads, devices
  <2> QED
      BY <1>3, <2>1, <2>2 DEF Safe
<1>5. ASSUME NEW i \in list,
             HandleOf(i) = ui.arg, list' = list \ {i}, delay' = delay,
             active' = IF i = active THEN None ELSE active,
             Destroyed(insts, insts', {i})
      PROVE  Safe'
  <2>1. collecting => i # active
      BY <1>1, <1>5 DEF Safe, Removing, Threads, UiAt, ActiveHandle
  <2>2. delay => i # active
      BY <1>5 DEF Safe, Devices, DelayIsForActive
  <2>3. \A j \in DOMAIN insts : j # i => insts'[j].freed = insts[j].freed
      BY <1>5, DeviceFacts DEF Destroyed, Types
  <2>4. InUseIsLive'
      BY <1>2, <1>5, <2>3, DeviceFacts DEF Safe, Devices, InUseIsLive, ActiveIsDevice, Types
  <2>5. DelayIsForActive'
      BY <1>5, <2>2 DEF Safe, Devices, DelayIsForActive
  <2>6. Threads'
      BY <1>1, <1>5, <2>1 DEF Safe, Threads
  <2> QED
      BY <1>3, <2>4, <2>5, <2>6 DEF Safe, Devices
<1>6. /\ delay' = delay
      /\ \/ UNCHANGED devices
         \/ \E i \in list :
               /\ HandleOf(i) = ui.arg /\ list' = list \ {i}
               /\ active' = IF i = active THEN None ELSE active
               /\ Destroyed(insts, insts', {i})
    BY RemoveListedFacts DEF Types
<1> QED
    BY <1>4, <1>5, <1>6

\* Session files and what the computer found when it woke up.
LEMMA ListingSafe ==
    ASSUME Types, Safe, WakeAppend \/ \E h \in FileHandles : OpenFile(h)
    PROVE  Safe'
<1>1. Appended /\ active' = active
    BY WakeAppendFacts, OpenFileFacts DEF Types, Appended
<1>2. UNCHANGED <<col, collecting>> /\ ui.pc \in {"idle", "append"} /\ ui'.pc = "idle"
  <2>1. CASE WakeAppend
      BY <2>1 DEF WakeAppend, UiAt, capture, Idle
  <2>2. ASSUME NEW h \in FileHandles, OpenFile(h)
        PROVE  UNCHANGED <<col, collecting>> /\ ui.pc = "idle" /\ ui' = ui
      BY <2>2 DEF OpenFile, MayCall, UiAt, capture
  <2> QED
      BY <2>1, <2>2
<1>3. Devices'
    BY <1>1, <1>2, AppendedSafe DEF Types, Safe, Exiting
<1>4. Threads' /\ Removing'
    BY <1>1, <1>2 DEF Safe, Threads, Removing
<1> QED
    BY <1>3, <1>4 DEF Safe

\* ds_lib_exit destroys them all.
LEMMA ExitDestroySafe ==
    ASSUME Types, Safe, ExitDestroy
    PROVE  Safe'
<1>1. /\ UiAt("destroy") /\ UNCHANGED <<col, collecting>> /\ ui'.pc = "wait"
    BY DEF ExitDestroy, UiGoto, capture, Types, UiType
<1>2. ~collecting
    BY <1>1 DEF Safe, Threads, UiAt
<1>3. list' = {} /\ delay' = FALSE
    BY ExitDestroyFacts DEF Types
<1>4. Devices'
    BY <1>1, <1>3 DEF Devices, InUseIsLive, DelayIsForActive, Exiting
<1>5. Threads' /\ Removing'
    BY <1>1, <1>2 DEF Safe, Threads, Removing
<1> QED
    BY <1>4, <1>5 DEF Safe

\* Starting, stopping and joining captures.
LEMMA UiCaptureSafe ==
    ASSUME Types, Safe, UiCapture
    PROVE  Safe'
<1> USE DEF UiAt, UiGoto, ColAt, NoThread, Idle, None
<1>1. SameDevices(insts, insts') /\ UNCHANGED <<list, active, delay>>
  <2>1. CASE OpenForCollect \/ CloseActive
      BY <2>1, SameFacts
  <2>2. CASE ~(OpenForCollect \/ CloseActive)
    <3>1. UNCHANGED devices
        BY <2>2 DEF UiCapture, StartCollect, JoinCollect, StopCollect
    <3> QED
        BY <3>1, DeviceFacts, DestroyNone DEF Types, devices
  <2> QED
      BY <2>1, <2>2
<1>2. Threads /\ ui \in UiFields /\ (ui.pc = "open" => ui.arg = active /\ active # None)
    BY DEF Safe, Threads, Types, UiType, UiFields
<1>3. Threads' /\ ui'.pc # "remove" /\ ~Exiting
  <2>1. CASE StartCollect
      BY <1>1, <1>2, <2>1 DEF StartCollect, MayCall, Threads, Exiting
  <2>2. CASE OpenForCollect
      BY <1>1, <1>2, <2>2 DEF OpenForCollect, Threads, Exiting
  <2>3. CASE JoinCollect
      BY <1>1, <1>2, <2>3 DEF JoinCollect, Threads, Exiting, UiFields
  <2>4. CASE CloseActive
      BY <1>1, <1>2, <2>4 DEF CloseActive, Threads, Exiting, UiFields
  <2>5. ASSUME NEW op \in {"stop", "release", "exit"}, StopCollect(op)
        PROVE  Threads' /\ ui'.pc # "remove" /\ ~Exiting
    <3>1. ui'.pc = IF op = "exit" /\ active = None THEN "exit" ELSE IF ColAt("none") THEN "close" ELSE "join"
        BY <2>5 DEF StopCollect
    <3>2. UNCHANGED <<col, collecting>> /\ ui.pc = "idle"
        BY <2>5 DEF StopCollect, MayCall
    <3> QED
        BY <1>1, <1>2, <3>1, <3>2 DEF Threads, Exiting
  <2> QED
      BY <2>1, <2>2, <2>3, <2>4, <2>5 DEF UiCapture
<1>4. Devices'
    BY <1>1, <1>3, SameSafe DEF Types, Safe
<1>5. Removing'
    BY <1>3 DEF Removing
<1> QED
    BY <1>3, <1>4, <1>5 DEF Safe

LEMMA UiOtherSafe ==
    ASSUME Types, Safe, Wake \/ UiExit \/ Sleep
    PROVE  Safe'
<1> USE DEF UiAt, UiGoto
<1>1. SameDevices(insts, insts') /\ UNCHANGED <<list, active, col, collecting>>
    BY SameFacts, DeviceFacts, DestroyNone
       DEF Types, Wake, UiExit, ExitHotplug, ExitJoin, ExitDone, Sleep, devices, capture
<1>2. CASE Wake
  <2>1. ui.pc = "idle" /\ ui'.pc = "append" /\ delay' = FALSE /\ insts' = insts
      BY <1>2 DEF Wake, MayCall, Idle
  <2>2. Devices'
      BY <1>1, <2>1 DEF Safe, Devices, InUseIsLive, DelayIsForActive, Exiting
  <2>3. Threads' /\ Removing'
      BY <1>1, <2>1 DEF Safe, Threads, Removing
  <2> QED
      BY <2>2, <2>3 DEF Safe
<1>3. CASE UiExit
  <2>1. UNCHANGED <<delay, insts>> /\ ui.pc \in {"exit", "joinHot", "wait"}
        /\ ui'.pc \in {"joinHot", "destroy", "gone"}
      BY <1>3 DEF UiExit, ExitHotplug, ExitJoin, ExitDone, devices, Types, UiType
  <2>2. Devices'
      BY <1>1, <2>1, SameSafe DEF Types, Safe, Exiting
  <2>3. Threads' /\ Removing'
      BY <1>1, <2>1 DEF Safe, Threads, Removing
  <2> QED
      BY <2>2, <2>3 DEF Safe
<1>4. CASE Sleep
    BY <1>1, <1>4, ReopenedSafe DEF Sleep
<1> QED
    BY <1>2, <1>3, <1>4

LEMMA SafeInit == Init => Safe
<1> SUFFICES ASSUME Init PROVE Safe
    OBVIOUS
<1>1. Types
    BY TypesInit
<1>2. Threads /\ Removing /\ DelayIsForActive
    BY DEF Init, Threads, Removing, DelayIsForActive, NoThread, Idle, None
<1>3. \A i \in DOMAIN insts : ~insts[i].freed
    BY DEF Init, Fresh
<1>4. InUseIsLive
    BY <1>1, <1>3, DeviceFacts DEF InUseIsLive, Init, Types
<1> QED
    BY <1>2, <1>4 DEF Safe, Devices

LEMMA SafeNext == Types /\ Safe /\ [Next]_vars => Safe'
<1> SUFFICES ASSUME Types, Safe, [Next]_vars PROVE Safe'
    OBVIOUS
<1>1. CASE World
  <2>1. UNCHANGED <<devices, capture, ui>>
      BY <1>1 DEF World, Plug, Unplug
  <2> QED
      BY <2>1, QuietSafe DEF capture
<1>2. CASE UiCalls \/ UiStep
  <2>1. CASE UiCallback
      BY <2>1, CallbackTyped, ReopenedSafe DEF UiCallback, Callback
  <2> QED
      BY <1>2, <2>1, ActivateSafe, RemoveDeviceSafe, RemoveListedSafe, ListingSafe, ExitDestroySafe,
         UiCaptureSafe, UiOtherSafe DEF UiCalls, UiStep, UiCapture, UiExit
<1>3. CASE HotStep
  <2>1. CASE HotCallback
      BY <2>1, CallbackTyped, ReopenedSafe DEF HotCallback, Callback
  <2>2. CASE HotOnly \/ HotFlag
      BY <2>2, HotFrame, QuietSafe DEF capture
  <2>3. CASE HotAppend \/ HotUnlist \/ HotReopen
      BY <2>3, HotDevicesSafe
  <2> QED
      BY <1>3, <2>1, <2>2, <2>3 DEF HotStep, HotOnly, HotFlag
<1>4. CASE ColStep \/ ColRunEnd \/ EventDone
  <2>1. CASE ColCallback
      BY <2>1, CallbackTyped, ReopenedSafe DEF ColCallback, Callback
  <2>2. CASE CaptureSteps
      BY <2>2, CaptureSafe
  <2> QED
      BY <1>4, <2>1, <2>2 DEF ColStep, CaptureSteps
<1>5. CASE UNCHANGED vars
    BY <1>5, QuietSafe DEF vars, capture
<1> QED
    BY <1>1, <1>2, <1>3, <1>4, <1>5 DEF Next

LEMMA SafeInvariant == Spec => [](Types /\ Safe)
<1> QED
    BY TypesInit, TypesNext, SafeInit, SafeNext, PTL DEF Spec

\* The device list and the active device never refer to a destroyed instance.
THEOREM InUseCorrect == Spec => []InUseIsLive
<1>1. Types /\ Safe => InUseIsLive
    BY DEF Safe, Devices
<1> QED
    BY <1>1, SafeInvariant, PTL

\* A destruction is put off for the active device only, which is off the list.
THEOREM DelayCorrect == Spec => []DelayIsForActive
<1>1. Types /\ Safe => DelayIsForActive
    BY DEF Safe, Devices
<1> QED
    BY <1>1, SafeInvariant, PTL

\* The device that is captured stays the active one and alive.
THEOREM CaptureCorrect == Spec => []CaptureKeepsDevice
<1>1. Types /\ Safe => CaptureKeepsDevice
    BY DEF Safe, Devices, Threads, InUseIsLive, Exiting, CaptureKeepsDevice
<1> QED
    BY <1>1, SafeInvariant, PTL

-----------------------------------------------------------------------------
(* Nothing is lost while the computer does not sleep: ds_reload_device_list *)
(* forgets a destruction that was put off.                                 *)

LEMMA KeptSame ==
    ASSUME DeviceType, NoInstanceLost, SameDevices(insts, insts'),
           UNCHANGED <<list, active, delay>>
    PROVE  NoInstanceLost'
<1>1. DOMAIN insts' = DOMAIN insts /\ \A i \in DOMAIN insts : insts'[i].freed = insts[i].freed
    BY DeviceFacts DEF SameDevices
<1> QED
    BY <1>1 DEF NoInstanceLost

LEMMA KeptAppended ==
    ASSUME DeviceType, NoInstanceLost, Appended
    PROVE  NoInstanceLost'
<1>1. PICK g \in Seq(Inst) :
        /\ insts' = insts \o g
        /\ list' = list \cup ((Len(insts) + 1)..(Len(insts) + Len(g)))
        /\ UNCHANGED <<active, delay>>
    BY DEF Appended
<1>2. insts \in Seq(Inst) /\ Len(insts) \in Nat /\ DOMAIN insts = 1..Len(insts)
    BY DeviceFacts
<1>3. \A i \in DOMAIN insts : insts'[i] = insts[i]
    BY <1>1, <1>2
<1>4. \A i \in DOMAIN insts' : i \in DOMAIN insts \/ i \in (Len(insts) + 1)..(Len(insts) + Len(g))
  <2>1. DOMAIN insts' = 1..(Len(insts) + Len(g)) /\ Len(g) \in Nat
      BY <1>1, <1>2
  <2> QED
      BY <1>2, <2>1
<1> QED
    BY <1>1, <1>3, <1>4 DEF NoInstanceLost

\* What leaves the list is destroyed, or its destruction is put off.
LEMMA KeptDestroyed ==
    ASSUME DeviceType, NoInstanceLost, NEW S, Destroyed(insts, insts', S),
           \A i \in DOMAIN insts :
              i \in list \/ (delay /\ i = active) => i \in S \/ i \in list' \/ (delay' /\ i = active')
    PROVE  NoInstanceLost'
<1>1. DOMAIN insts' = DOMAIN insts
      /\ \A i \in DOMAIN insts : insts'[i].freed = (insts[i].freed \/ i \in S)
    BY DeviceFacts DEF Destroyed
<1> QED
    BY <1>1 DEF NoInstanceLost

LEMMA KeptByUi ==
    ASSUME Types, Safe, NoInstanceLost, UiCalls \/ UiStep, ~Wake
    PROVE  NoInstanceLost'
<1> USE DEF Types
<1>1. ASSUME NEW h, Activate(h)
      PROVE  NoInstanceLost'
  <2>1. Destroyed(insts, insts', IF delay THEN {active} ELSE {}) /\ list' = list
      BY <1>1, ActivateFacts
  <2> QED
      BY <2>1, KeptDestroyed
<1>2. ASSUME NEW h, RemoveDevice(h)
      PROVE  NoInstanceLost'
  <2>1. CASE UNCHANGED devices
      BY <2>1, DeviceFacts, DestroyNone, KeptSame DEF devices
  <2>2. CASE Destroyed(insts, insts', {active})
      BY <1>2, <2>2, RemoveDeviceFacts, KeptDestroyed
  <2> QED
      BY <1>2, <2>1, <2>2, RemoveDeviceFacts
<1>3. CASE RemoveListed
  <2>1. CASE UNCHANGED devices
      BY <2>1, DeviceFacts, DestroyNone, KeptSame DEF devices
  <2>2. ASSUME NEW i \in list, Destroyed(insts, insts', {i}), list' = list \ {i}, delay' = delay,
               active' = IF i = active THEN None ELSE active
        PROVE  NoInstanceLost'
    <3>1. delay => i # active
        BY DEF Safe, Devices, DelayIsForActive
    <3> QED
        BY <2>2, <3>1, KeptDestroyed
  <2> QED
      BY <1>3, <2>1, <2>2, RemoveListedFacts
<1>4. CASE ExitDestroy
    BY <1>4, ExitDestroyFacts, KeptDestroyed
<1>5. CASE WakeAppend \/ \E h \in FileHandles : OpenFile(h)
    BY <1>5, WakeAppendFacts, OpenFileFacts, KeptAppended
<1>6. CASE Sleep \/ CloseActive \/ OpenForCollect
    BY <1>6, SameFacts, KeptSame
<1>7. ASSUME UNCHANGED devices
      PROVE  NoInstanceLost'
    BY <1>7, DeviceFacts, DestroyNone, KeptSame DEF devices
<1>8. StartCollect \/ (\E op \in {"stop", "release", "exit"} : StopCollect(op)) \/ JoinCollect
      \/ ExitHotplug \/ ExitJoin \/ ExitDone => UNCHANGED devices
    BY DEF StartCollect, StopCollect, JoinCollect, ExitHotplug, ExitJoin, ExitDone
<1>9. CASE UiCallback
    BY <1>9, CallbackTyped, KeptSame DEF UiCallback, Callback
<1> QED
    BY <1>1, <1>2, <1>3, <1>4, <1>5, <1>6, <1>7, <1>8, <1>9 DEF UiCalls, UiStep

LEMMA KeptNext ==
    ASSUME "power" \notin UserOps, Types, Safe, NoInstanceLost, [Next]_vars
    PROVE  NoInstanceLost'
<1> USE DEF Types
<1>1. ASSUME UNCHANGED devices
      PROVE  NoInstanceLost'
    BY <1>1, DeviceFacts, DestroyNone, KeptSame DEF devices
<1>2. CASE World
    BY <1>1, <1>2 DEF World, Plug, Unplug
<1>3. CASE UiCalls \/ UiStep
  <2>1. ~Wake
      BY DEF Wake, MayCall
  <2> QED
      BY <1>3, <2>1, KeptByUi
<1>4. CASE HotCallback \/ ColCallback
    BY <1>4, CallbackTyped, KeptSame DEF HotCallback, ColCallback, Callback
<1>5. CASE HotOnly \/ HotFlag
    BY <1>1, <1>5, HotFrame
<1>6. CASE HotAppend
    BY <1>6, AppendFacts, KeptAppended DEF HotAppend, HotType
<1>7. CASE HotUnlist
  <2>1. Unlists
      BY <1>7, UnlistFacts
  <2>2. ASSUME NEW i \in list,
               list' = list \ {i}, active' = active, delay' = (delay \/ i = active),
               Destroyed(insts, insts', IF i = active THEN {} ELSE {i})
        PROVE  NoInstanceLost'
      BY <2>2, KeptDestroyed
  <2> QED
      BY <1>1, <2>1, <2>2 DEF Unlists
<1>8. CASE HotReopen
  <2>1. hot.arg \in DOMAIN insts /\ insts' \in Openings(insts, hot.arg) /\ UNCHANGED <<list, active, delay>>
      BY <1>8 DEF HotReopen, HotAt, HotType
  <2> QED
      BY <2>1, OpeningGrow, KeptSame
<1>9. CASE CaptureSteps
    BY <1>1, <1>9, OnlyCapture
<1>10. CASE UNCHANGED vars
    BY <1>1, <1>10 DEF vars
<1> QED
    BY <1>2, <1>3, <1>4, <1>5, <1>6, <1>7, <1>8, <1>9, <1>10
       DEF Next, HotStep, ColStep, HotOnly, HotFlag, CaptureSteps

LEMMA KeptInit == Init => NoInstanceLost
<1> SUFFICES ASSUME Init PROVE NoInstanceLost
    OBVIOUS
<1>1. PICK n \in 0..MaxPlugs :
        /\ insts = <<[handle |-> DemoHandle, unit |-> "demo", open |-> FALSE, freed |-> FALSE]>>
                   \o [i \in 1..n |-> Fresh(i)]
        /\ list = 1..(n + 1)
    BY DEF Init
<1>2. Len(insts) = n + 1 /\ n \in Nat
    BY <1>1, ConstantsAssumption
<1>3. DOMAIN insts = 1..(n + 1)
    BY <1>2, TypesInit, DeviceFacts DEF Types
<1> QED
    BY <1>1, <1>3 DEF NoInstanceLost

\* Unless the computer sleeps, no device instance is lost: it stays listed until
\* it is destroyed or its destruction is put off.
THEOREM NoInstanceLostCorrect ==
    ASSUME "power" \notin UserOps
    PROVE  Spec => []NoInstanceLost
<1>1. Types /\ Safe /\ NoInstanceLost /\ [Next]_vars => NoInstanceLost'
    BY KeptNext
<1> QED
    BY <1>1, KeptInit, SafeInvariant, PTL DEF Spec

-----------------------------------------------------------------------------
(* ds_lib_exit.                                                            *)

\* The hotplug thread has ended before the devices are destroyed, nothing is
\* listed afterwards, and the event threads are waited for last.
Ending ==
    /\ ui.pc \in {"destroy", "wait", "gone"} => hot.pc = "ended"
    /\ ui.pc \in {"wait", "gone"} => list = {} /\ ~delay
    /\ ui.pc = "gone" => events = 0

\* A step that leaves the application thread alone.
LEMMA EndingFrame ==
    ASSUME Ending, UNCHANGED ui, UNCHANGED hot \/ hot.pc # "ended",
           hot.pc = "ended" => UNCHANGED <<list, delay>>,
           ui.pc = "gone" => events' = 0
    PROVE  Ending'
    BY DEF Ending

LEMMA EndingByUi ==
    ASSUME Types, Safe, Ending, UiCalls \/ UiStep
    PROVE  Ending'
<1> USE DEF UiAt, UiGoto, MayCall
<1>1. ui \in UiFields /\ UNCHANGED <<hot, events>>
    BY DEF Types, UiType, UiFields, UiCalls, UiStep, Activate, OpenFile, RemoveDevice,
           StartCollect, Sleep, Wake, StopCollect, RemoveListed, OpenForCollect, JoinCollect,
           CloseActive, WakeAppend, ExitHotplug, ExitJoin, ExitDestroy, ExitDone, UiCallback, Callback
<1>2. CASE UiCalls
  <2>1. ui'.pc \in {"idle", "remove", "open", "append", "exit", "join", "close"} \/ UiCallback
    <3>1. CASE (\E i \in DOMAIN insts : Activate(HandleOf(i))) \/ (\E h \in FileHandles : OpenFile(h)) \/ Sleep
        BY <3>1 DEF Activate, OpenFile, Sleep
    <3>2. CASE \E h \in FileHandles : RemoveDevice(h)
        BY <3>2 DEF RemoveDevice, Idle
    <3>3. CASE StartCollect \/ Wake
        BY <3>3 DEF StartCollect, Wake, Idle
    <3>4. ASSUME NEW op \in {"stop", "release", "exit"}, StopCollect(op)
          PROVE  ui'.pc \in {"exit", "join", "close"}
        BY <3>4 DEF StopCollect, Idle
    <3> QED
        BY <1>2, <3>1, <3>2, <3>3, <3>4 DEF UiCalls
  <2>2. CASE UiCallback
      BY <2>2, EndingFrame DEF UiCallback, Callback, Ending
  <2> QED
      BY <2>1, <2>2 DEF Ending
<1>3. CASE RemoveListed \/ OpenForCollect \/ JoinCollect \/ CloseActive \/ WakeAppend \/ ExitHotplug
  <2>1. ui'.pc \in {"idle", "close", "exit", "joinHot"}
      BY <1>1, <1>3 DEF RemoveListed, OpenForCollect, JoinCollect, CloseActive, WakeAppend,
                        ExitHotplug, Idle, UiFields
  <2> QED
      BY <2>1 DEF Ending
<1>4. CASE ExitJoin
    BY <1>1, <1>4 DEF ExitJoin, HotAt, Ending, UiFields
<1>5. CASE ExitDestroy
  <2>1. list' = {} /\ delay' = FALSE
      BY <1>5, ExitDestroyFacts DEF Types
  <2> QED
      BY <1>1, <1>5, <2>1 DEF ExitDestroy, Ending, UiFields
<1>6. CASE ExitDone
    BY <1>1, <1>6 DEF ExitDone, Ending, UiFields, devices
<1> QED
    BY <1>2, <1>3, <1>4, <1>5, <1>6 DEF UiStep

LEMMA EndingNext ==
    ASSUME Types, Safe, Ending, [Next]_vars
    PROVE  Ending'
<1>1. CASE World \/ UNCHANGED vars
  <2>1. UNCHANGED <<devices, hot, events, ui>>
      BY <1>1 DEF World, Plug, Unplug, vars
  <2> QED
      BY <2>1, EndingFrame DEF devices, Ending
<1>2. CASE UiCalls \/ UiStep
    BY <1>2, EndingByUi
<1>3. CASE HotStep
  <2>1. hot.pc # "ended" /\ UNCHANGED ui
      BY <1>3 DEF HotStep, HotAt, HotPoll, HotCallback, Callback, HotPolled, HotScan, HotAppend,
                  HotAttached, HotDetach, HotTake, HotUnlist, HotDetached, HotCount, HotTrans,
                  HotReopen, HotEnd
  <2> QED
      BY <2>1, EndingFrame DEF Ending
<1>4. CASE ColCallback
    BY <1>4, EndingFrame DEF ColCallback, Callback, Ending
<1>5. CASE CaptureSteps
  <2>1. UNCHANGED <<devices, hot, ui>>
      BY <1>5, OnlyCapture
  <2>2. ui.pc = "gone" => events' = 0
    <3> SUFFICES ASSUME ui.pc = "gone" PROVE events' = 0
        OBVIOUS
    <3>1. events = 0 /\ ~(events > 0)
        BY DEF Ending
    <3>2. col.pc \notin {"start", "check", "run", "end", "clear", "last"}
        BY DEF Safe, Threads
    <3> QED
        BY <1>5, <3>1, <3>2 DEF CaptureSteps, ColAt, ColStart, ColCheck, ColEnd, ColClear, ColLast,
                               ColRunEnd, EventDone
  <2> QED
      BY <2>1, <2>2, EndingFrame DEF devices
<1> QED
    BY <1>1, <1>2, <1>3, <1>4, <1>5 DEF Next, ColStep, CaptureSteps

LEMMA EndingInit == Init => Ending
    BY DEF Init, Idle, Ending

\* When ds_lib_exit returns no thread is left and, unless the computer slept,
\* every device is destroyed.
THEOREM ExitCorrect ==
    ASSUME "power" \notin UserOps
    PROVE  Spec => []ExitLeavesNothing
<1>1. Types /\ Safe /\ Ending /\ NoInstanceLost => ExitLeavesNothing
  <2> SUFFICES ASSUME Types, Safe, Ending, NoInstanceLost, UiAt("gone")
               PROVE  /\ HotAt("ended") /\ col.pc \in {"none", "exited"} /\ ~collecting /\ events = 0
                      /\ \A i \in DOMAIN insts : insts[i].freed
      BY DEF ExitLeavesNothing
  <2>1. HotAt("ended") /\ events = 0 /\ list = {} /\ ~delay
      BY DEF Ending, UiAt, HotAt
  <2>2. ~collecting /\ col.pc \in {"none", "exited"}
      BY DEF Safe, Threads, UiAt, Types, CaptureType, ColPC
  <2> QED
      BY <2>1, <2>2 DEF NoInstanceLost
<1>2. Spec => [](Types /\ Safe /\ Ending)
    BY EndingInit, EndingNext, SafeInvariant, PTL DEF Spec
<1> QED
    BY <1>1, <1>2, NoInstanceLostCorrect, PTL

-----------------------------------------------------------------------------
(* What is open, and what joins the list.                                  *)

\* g has the devices of f, with their handles.
SameHandles(f, g) == DOMAIN g = DOMAIN f /\ \A i \in DOMAIN f : g[i].handle = f[i].handle

LEMMA CloseOpens ==
    ASSUME NEW f \in Seq(Inst), NEW S
    PROVE  /\ SameHandles(f, Close(f, S))
           /\ \A i \in DOMAIN f : Close(f, S)[i].open => f[i].open /\ i \notin S
<1>1. \A i \in DOMAIN f : f[i] \in Inst
    OBVIOUS
<1> QED
    BY <1>1 DEF Close, Inst, SameHandles

LEMMA DestroyOpens ==
    ASSUME NEW f \in Seq(Inst), NEW S
    PROVE  /\ SameHandles(f, Destroy(f, S))
           /\ \A i \in DOMAIN f : Destroy(f, S)[i].open => f[i].open /\ i \notin S
<1>1. \A i \in DOMAIN f : f[i] \in Inst
    OBVIOUS
<1> QED
    BY <1>1 DEF Destroy, Inst, SameHandles

LEMMA OpeningOpens ==
    ASSUME NEW f \in Seq(Inst), NEW i \in DOMAIN f, NEW g \in Openings(f, i)
    PROVE  /\ SameHandles(f, g)
           /\ \A j \in DOMAIN f : g[j].open => j = i \/ f[j].open
<1>1. \A j \in DOMAIN f : f[j] \in Inst
    OBVIOUS
<1>2. g = f \/ g = [f EXCEPT ![i] = [f[i] EXCEPT !.open = TRUE]]
    BY <1>1 DEF Openings, Opened
<1>3. CASE g = f
    BY <1>3 DEF SameHandles
<1>4. CASE g = [f EXCEPT ![i] = [f[i] EXCEPT !.open = TRUE]]
  <2> DEFINE x == [f[i] EXCEPT !.open = TRUE]
  <2>1. x.handle = f[i].handle
      BY <1>1 DEF Inst
  <2>2. g = [f EXCEPT ![i] = x]
      BY <1>4, Zenon
  <2> HIDE DEF x
  <2>3. DOMAIN g = DOMAIN f /\ g[i] = x /\ \A j \in DOMAIN f : j # i => g[j] = f[j]
      BY <2>2
  <2> QED
      BY <2>1, <2>3, Zenon DEF SameHandles
<1> QED
    BY <1>2, <1>3, <1>4, Zenon

\* Devices are opened, closed and destroyed, and leave the list.  The old active
\* device is closed, and only the new one may be opened.
Switches ==
    /\ SameHandles(insts, insts') /\ list' \subseteq list
    /\ \A i \in DOMAIN insts :
          insts'[i].open => i = active' \/ (insts[i].open /\ (active' = active \/ i # active))

\* Devices that are not open join the list, each with a handle of its own.
Joined ==
    \E g \in Seq(Inst) :
        /\ insts' = insts \o g
        /\ list' = list \cup ((Len(insts) + 1)..(Len(insts) + Len(g)))
        /\ active' = active
        /\ \A k \in DOMAIN g : ~g[k].open /\ \A i \in list : HandleOf(i) # g[k].handle
        /\ \A k, l \in DOMAIN g : g[k].handle = g[l].handle => k = l

LEMMA AppendJoins ==
    ASSUME WorldType, NEW found \in SUBSET DOMAIN owner, AppendFound(found)
    PROVE  Joined
<1> DEFINE S == {h \in found : Listed(h) = {}}
           n == Cardinality(S)
<1>1. PICK new \in SetToSeqs(S) :
        /\ insts' = insts \o [k \in DOMAIN new |-> Fresh(new[k])]
        /\ list' = list \cup ((Len(insts) + 1)..(Len(insts) + Len(new)))
        /\ UNCHANGED <<active, delay>>
    BY DEF AppendFound
<1>2. n \in Nat
  <2>1. IsFiniteSet(DOMAIN owner) /\ S \subseteq DOMAIN owner
      BY FS_Interval DEF WorldType
  <2> QED
      BY <2>1, FS_Subset, FS_CardinalityType
<1>3. new \in [1..n -> S] /\ \A k, l \in DOMAIN new : new[k] = new[l] => k = l
    BY DEF SetToSeqs, IsInjective
<1>4. DOMAIN new = 1..n /\ Len(new) = n
    BY <1>2, <1>3
<1> DEFINE g == [k \in DOMAIN new |-> Fresh(new[k])]
<1>5. \A k \in DOMAIN new : g[k] = Fresh(new[k]) /\ Fresh(new[k]) \in Inst
  <2> SUFFICES ASSUME NEW k \in DOMAIN new
               PROVE  Fresh(new[k]) \in Inst
      OBVIOUS
  <2>1. new[k] \in DOMAIN owner
      BY <1>3
  <2>2. owner[new[k]] \in Units /\ new[k] \in 1..MaxPlugs
      BY <2>1, ConstantsAssumption DEF WorldType
  <2> QED
      BY <2>2, ConstantsAssumption DEF Fresh, Inst, DemoHandle
<1>6. g \in Seq(Inst) /\ Len(g) = Len(new) /\ DOMAIN g = DOMAIN new
  <2>1. g \in [1..n -> Inst] /\ DOMAIN g = DOMAIN new
      BY <1>4, <1>5
  <2> HIDE DEF g, n
  <2> QED
      BY <1>2, <1>4, <2>1
<1>7. \A k \in DOMAIN new : /\ g[k].handle = new[k] /\ ~g[k].open
                            /\ \A i \in list : HandleOf(i) # new[k]
    BY <1>3, <1>5 DEF Fresh, Listed
<1>8. /\ insts' = insts \o g /\ active' = active
      /\ list' = list \cup ((Len(insts) + 1)..(Len(insts) + Len(g)))
    BY <1>1, <1>6
<1> HIDE DEF g, S, n
<1>9. ASSUME NEW k \in DOMAIN g, NEW l \in DOMAIN g, g[k].handle = g[l].handle
      PROVE  k = l
  <2>1. DOMAIN g = DOMAIN new /\ g[k].handle = new[k] /\ g[l].handle = new[l]
      BY <1>6, <1>7, Zenon
  <2> QED
      BY <1>3, <1>9, <2>1, Zenon
<1>10. \A k \in DOMAIN g : ~g[k].open /\ \A i \in list : HandleOf(i) # g[k].handle
    BY <1>6, <1>7, Zenon
<1> QED
    BY <1>6, <1>8, <1>9, <1>10, Zenon DEF Joined

LEMMA OpenFileJoins ==
    ASSUME DeviceType, NEW h \in FileHandles, OpenFile(h)
    PROVE  Joined
<1> DEFINE d == [handle |-> h, unit |-> "file", open |-> FALSE, freed |-> FALSE]
<1>1. insts \in Seq(Inst) /\ list \subseteq DOMAIN insts
    BY DEF DeviceType
<1>2. d \in Inst /\ ~d.open /\ d.handle = h
    BY ConstantsAssumption DEF Inst, FileHandles, DemoHandle
<1>3. /\ insts' = Append(insts, d) /\ list' = list \cup {Len(insts')} /\ UNCHANGED <<active, delay>>
      /\ \A i \in DOMAIN insts : HandleOf(i) # h
    BY DEF OpenFile
<1> HIDE DEF d
<1> DEFINE g == <<d>>
<1>4. g \in Seq(Inst) /\ Len(g) = 1 /\ DOMAIN g = {1} /\ g[1] = d
    BY <1>2
<1>5. insts' = insts \o g /\ Len(insts') = Len(insts) + 1 /\ Len(insts) \in Nat
    BY <1>1, <1>2, <1>3
<1>6. list' = list \cup ((Len(insts) + 1)..(Len(insts) + Len(g)))
    BY <1>3, <1>4, <1>5
<1> HIDE DEF g
<1> QED
    BY <1>1, <1>2, <1>3, <1>4, <1>5, <1>6 DEF Joined

LEMMA ActivateSwitches ==
    ASSUME DeviceType, NEW h, Activate(h)
    PROVE  Switches
<1> DEFINE kept == IF delay THEN None ELSE active
           left == IF delay THEN Destroy(insts, {active}) ELSE Close(insts, {active})
           back == IF kept # None THEN kept ELSE First(list)
<1>1. insts \in Seq(Inst) /\ active \in {None} \cup DOMAIN insts /\ list \in SUBSET Nat
      /\ list \subseteq DOMAIN insts
    BY DEF DeviceType
<1>2. /\ SameHandles(insts, left)
      /\ \A i \in DOMAIN insts : left[i].open => insts[i].open /\ i # active
    BY <1>1, CloseOpens, DestroyOpens
<1>3. left \in Seq(Inst)
    BY <1>1, CloseFacts, DestroyFacts DEF SameDevices, Destroyed
<1>4. /\ list' = list
      /\ \/ Listed(h) = {} /\ insts' = left /\ active' = kept
         \/ /\ Listed(h) # {} /\ CanOpen(left, First(Listed(h)))
            /\ insts' = Opened(left, First(Listed(h))) /\ active' = First(Listed(h))
         \/ Listed(h) # {} /\ insts' \in Openings(left, back) /\ active' = back
    BY DEF Activate
<1>5. Listed(h) # {} => First(Listed(h)) \in DOMAIN insts /\ First(list) \in DOMAIN insts
  <2>1. Listed(h) # {} => list # {}
      BY DEF Listed
  <2> QED
      BY <1>1, <2>1, ListedFacts, FirstIn
<1>6. kept = None \/ kept \in DOMAIN insts
    BY <1>1
<1> HIDE DEF left, kept
<1>7. CASE insts' = left
    BY <1>2, <1>4, <1>7 DEF Switches
<1>8. ASSUME active' \in DOMAIN insts, insts' \in Openings(left, active')
      PROVE  Switches
  <2>1. active' \in DOMAIN left
      BY <1>2, <1>8 DEF SameHandles
  <2>2. SameHandles(left, insts') /\ \A j \in DOMAIN left : insts'[j].open => j = active' \/ left[j].open
      BY <1>3, <1>8, <2>1, OpeningOpens
  <2> QED
      BY <1>2, <1>4, <2>2 DEF Switches, SameHandles
<1>9. Listed(h) # {} /\ CanOpen(left, First(Listed(h))) /\ insts' = Opened(left, First(Listed(h)))
      => insts' \in Openings(left, First(Listed(h)))
    BY DEF Openings
<1> QED
    BY <1>4, <1>5, <1>6, <1>7, <1>8, <1>9

LEMMA RemoveSwitches ==
    ASSUME DeviceType, RemoveListed \/ (\E h \in FileHandles : RemoveDevice(h)) \/ ExitDestroy
    PROVE  Switches
<1>1. insts \in Seq(Inst)
    BY DEF DeviceType
<1>2. ASSUME UNCHANGED devices
      PROVE  Switches
    BY <1>2 DEF devices, Switches, SameHandles
<1>3. ASSUME NEW S, insts' = Destroy(insts, S), list' \subseteq list,
             active' = active \/ active \in S
      PROVE  Switches
    BY <1>1, <1>3, DestroyOpens DEF Switches
<1>4. CASE RemoveListed
  <2>1. CASE Listed(ui.arg) # {} /\ ~UNCHANGED devices
      BY <1>3, <1>4, <2>1 DEF RemoveListed
  <2> QED
      BY <1>2, <1>4, <2>1 DEF RemoveListed
<1>5. CASE \E h \in FileHandles : RemoveDevice(h)
    BY <1>2, <1>3, <1>5 DEF RemoveDevice, devices
<1>6. CASE ExitDestroy
    BY <1>3, <1>6 DEF ExitDestroy
<1> QED
    BY <1>4, <1>5, <1>6

\* ds_start_collect opens the device that is still the active one.
LEMMA SameSwitches ==
    ASSUME Types, Safe, Sleep \/ CloseActive \/ OpenForCollect
    PROVE  Switches
<1>1. insts \in Seq(Inst) /\ UNCHANGED <<list, active>>
    BY DEF Types, DeviceType, Sleep, CloseActive, OpenForCollect
<1>2. ASSUME NEW S, insts' = Close(insts, S)
      PROVE  Switches
    BY <1>1, <1>2, CloseOpens DEF Switches
<1>3. CASE insts' = insts
    BY <1>1, <1>3 DEF Switches, SameHandles
<1>4. CASE OpenForCollect
  <2>1. /\ ui.arg \in DOMAIN insts /\ insts' \in Openings(insts, ui.arg)
        /\ ui.arg = active
      BY <1>4 DEF OpenForCollect, UiAt, Types, UiType, Safe, Threads
  <2> QED
      BY <1>1, <2>1, OpeningOpens DEF Switches
<1> QED
    BY <1>2, <1>3, <1>4 DEF Sleep, CloseActive

LEMMA UnlistSwitches ==
    ASSUME DeviceType, HotUnlist
    PROVE  Switches
<1>1. insts \in Seq(Inst)
    BY DEF DeviceType
<1>2. CASE insts' = insts
    BY <1>2 DEF HotUnlist, devices, Switches, SameHandles
<1>3. ASSUME NEW S, insts' = Destroy(insts, S)
      PROVE  Switches
  <2>1. list' \subseteq list /\ active' = active
      BY DEF HotUnlist, devices
  <2> QED
      BY <1>1, <1>3, <2>1, DestroyOpens DEF Switches
<1> QED
    BY <1>2, <1>3 DEF HotUnlist, devices

LEMMA SwitchesNext ==
    ASSUME Types, Safe, [Next]_vars
    PROVE  Switches \/ Joined \/ Callback \/ HotReopen
<1> USE DEF Types
<1>1. ASSUME UNCHANGED <<insts, list, active>>
      PROVE  Switches
    BY <1>1 DEF Switches, SameHandles
<1>2. CASE World
    BY <1>1, <1>2 DEF World, Plug, Unplug, devices
<1>3. CASE UiCalls \/ UiStep
  <2>1. CASE \E i \in DOMAIN insts : Activate(HandleOf(i))
      BY <2>1, ActivateSwitches
  <2>2. CASE RemoveListed \/ (\E h \in FileHandles : RemoveDevice(h)) \/ ExitDestroy
      BY <2>2, RemoveSwitches
  <2>3. CASE Sleep \/ CloseActive \/ OpenForCollect
      BY <2>3, SameSwitches
  <2>4. CASE WakeAppend
      BY <2>4, AppendJoins DEF WakeAppend, UiType
  <2>5. CASE \E h \in FileHandles : OpenFile(h)
      BY <2>5, OpenFileJoins
  <2>6. StartCollect \/ (\E op \in {"stop", "release", "exit"} : StopCollect(op)) \/ JoinCollect
        \/ Wake \/ ExitHotplug \/ ExitJoin \/ ExitDone => UNCHANGED <<insts, list, active>>
      BY DEF StartCollect, StopCollect, JoinCollect, Wake, ExitHotplug, ExitJoin, ExitDone, devices
  <2>7. UiCallback => Callback
      BY DEF UiCallback
  <2> QED
      BY <1>1, <1>3, <2>1, <2>2, <2>3, <2>4, <2>5, <2>6, <2>7 DEF UiCalls, UiStep
<1>4. HotCallback \/ ColCallback => Callback
    BY DEF HotCallback, ColCallback
<1>5. CASE HotOnly \/ HotFlag
    BY <1>1, <1>5, HotFrame DEF devices
<1>6. CASE HotAppend
    BY <1>6, AppendJoins DEF HotAppend, HotType
<1>7. CASE HotUnlist
    BY <1>7, UnlistSwitches
<1>8. CASE CaptureSteps
    BY <1>1, <1>8, OnlyCapture DEF devices
<1>9. CASE UNCHANGED vars
    BY <1>1, <1>9 DEF vars, devices
<1> QED
    BY <1>2, <1>3, <1>4, <1>5, <1>6, <1>7, <1>8, <1>9
       DEF Next, HotStep, ColStep, HotOnly, HotFlag, CaptureSteps

\* An instrument that comes back is closed if it is the active one, and otherwise
\* stays as it was.
LEMMA CallbackOpens ==
    ASSUME Types, Callback
    PROVE  /\ DOMAIN insts' = DOMAIN insts /\ active' = active
           /\ \A j \in DOMAIN insts : insts'[j].open => insts[j].open
<1>1. insts \in Seq(Inst) /\ \A j \in DOMAIN insts : insts[j] \in Inst
    BY TypedInsts DEF Types
<1>2. active' = active
    BY DEF Callback
<1>3. CASE UNCHANGED insts
    BY <1>2, <1>3
<1>4. ASSUME NEW i \in DOMAIN insts, NEW h,
             insts' = [insts EXCEPT ![i].handle = h, ![i].open = (i # active) /\ insts[i].open]
      PROVE  DOMAIN insts' = DOMAIN insts /\ \A j \in DOMAIN insts : insts'[j].open => insts[j].open
  <2> DEFINE o == (i # active) /\ insts[i].open
             x == [insts[i] EXCEPT !.handle = h, !.open = o]
  <2>1. insts' = [insts EXCEPT ![i] = x]
      BY <1>4, Zenon
  <2>2. x.open = o
      BY <1>1 DEF Inst
  <2>3. o => insts[i].open
      OBVIOUS
  <2> HIDE DEF o, x
  <2>4. DOMAIN insts' = DOMAIN insts /\ insts'[i] = x /\ \A j \in DOMAIN insts : j # i => insts'[j] = insts[j]
      BY <1>1, <2>1
  <2> QED
      BY <2>2, <2>3, <2>4, Zenon
<1>5. ASSUME NEW h, Attached(h), ~UNCHANGED insts
      PROVE  Listed(hotflags.handle) # {}
             /\ insts' = [insts EXCEPT ![First(Listed(hotflags.handle))].handle = h,
                                       ![First(Listed(hotflags.handle))].open =
                                           (First(Listed(hotflags.handle)) # active)
                                           /\ insts[First(Listed(hotflags.handle))].open]
    BY <1>5 DEF Attached
<1>6. \A h : Detached(h) => UNCHANGED insts
    BY DEF Detached
<1>7. Attached(Head(usbq).handle) \/ Detached(Head(usbq).handle)
    BY DEF Callback
<1>8. Listed(hotflags.handle) # {} => First(Listed(hotflags.handle)) \in DOMAIN insts
    BY ListedFacts DEF Types
<1> QED
    BY <1>2, <1>3, <1>4, <1>5, <1>6, <1>7, <1>8

\* The only device that may be open besides is one that was so before, and not the
\* active one either.
NoNewStray ==
    \A i \in DOMAIN insts' :
        insts'[i].open /\ i # active' => i \in DOMAIN insts /\ insts[i].open /\ i # active

LEMMA StraysNext ==
    ASSUME Types, Safe, [Next]_vars
    PROVE  OpenedActive
<1>1. CASE Switches
  <2>1. NoNewStray
      BY <1>1 DEF Switches, SameHandles, NoNewStray
  <2> QED
      BY <2>1 DEF OpenedActive, NoNewStray
<1>2. CASE Joined
  <2>1. PICK g \in Seq(Inst) : insts' = insts \o g /\ active' = active /\ \A k \in DOMAIN g : ~g[k].open
      BY <1>2 DEF Joined
  <2> DEFINE n == Len(insts)
  <2>2. insts \in Seq(Inst) /\ n \in Nat /\ DOMAIN insts = 1..n /\ Len(g) \in Nat /\ DOMAIN g = 1..Len(g)
      BY <2>1, DeviceFacts DEF Types
  <2>3. DOMAIN insts' = 1..(n + Len(g)) /\ \A i \in DOMAIN insts : insts'[i] = insts[i]
      BY <2>1, <2>2
  <2>4. \A i \in (n + 1)..(n + Len(g)) : i - n \in DOMAIN g /\ insts'[i] = g[i - n]
      BY <2>1, <2>2
  <2>5. \A i \in DOMAIN insts' : i \in DOMAIN insts \/ i \in (n + 1)..(n + Len(g))
      BY <2>2, <2>3
  <2>6. NoNewStray
      BY <2>1, <2>3, <2>4, <2>5 DEF NoNewStray
  <2> QED
      BY <2>6 DEF OpenedActive, NoNewStray
<1>3. CASE Callback
  <2>1. NoNewStray
      BY <1>3, CallbackOpens DEF NoNewStray
  <2> QED
      BY <2>1 DEF OpenedActive, NoNewStray
<1>4. CASE HotReopen
    BY <1>4 DEF OpenedActive
<1> QED
    BY <1>1, <1>2, <1>3, <1>4, SwitchesNext

\* Whatever the application calls and however the instruments come and go, only the
\* hotplug thread's reopening of the device that was active when it looked leaves a
\* device open that is not the active one: every call closes the active device
\* before another takes its place.
THEOREM OnlyReopenStraysCorrect == Spec => OnlyReopenStrays
<1>1. Types /\ Safe /\ [Next]_vars => [OpenedActive]_vars
    BY StraysNext
<1> QED
    BY <1>1, SafeInvariant, PTL DEF Spec, OnlyReopenStrays

-----------------------------------------------------------------------------
(* While no instrument comes back before the one that left is given up.    *)

\* A detach notification is on its way.
Leaving == \E k \in DOMAIN usbq : usbq[k].event = "detach"

\* No instrument is plugged in while one that left may still be awaited: the hotplug
\* thread has seen it leave and has given it up.
PluggedWhenQuiet == owner' # owner => ~hotflags.waiting /\ ~Leaving

\* So no arrival is taken for the return of the instrument that left.
NoReturn ==
    /\ \A j, k \in DOMAIN usbq :
          j < k /\ usbq[j].event = "detach" => usbq[k].event = "detach"
    /\ hotflags.waiting => \A k \in DOMAIN usbq : usbq[k].event = "detach"
    /\ ~hotflags.reopen
    /\ ~HotAt("reopen")

Notice == [event : {"attach", "detach"}, handle : 1..MaxPlugs]

\* Notifications queue up in the order in which instruments leave and arrive.
LEMMA NoReturnWorld ==
    ASSUME WorldType, NoReturn, World, PluggedWhenQuiet
    PROVE  NoReturn'
<1>1. usbq \in Seq(Notice) /\ Len(usbq) \in Nat /\ DOMAIN usbq = 1..Len(usbq)
    BY DEF WorldType, Notice
<1>2. UNCHANGED <<hotflags, hot>>
    BY DEF World, Plug, Unplug
<1>3. ASSUME NEW n \in Notice, usbq' = Append(usbq, n),
             n.event = "attach" => ~hotflags.waiting /\ ~Leaving
      PROVE  NoReturn'
  <2>1. /\ DOMAIN usbq' = 1..(Len(usbq) + 1)
        /\ usbq'[Len(usbq) + 1] = n
        /\ \A k \in DOMAIN usbq : usbq'[k] = usbq[k]
      BY <1>1, <1>3
  <2>2. n.event \in {"attach", "detach"}
      BY DEF Notice
  <2>3. \A j, k \in DOMAIN usbq' :
           j < k /\ usbq'[j].event = "detach" => usbq'[k].event = "detach"
    <3> SUFFICES ASSUME NEW j \in DOMAIN usbq', NEW k \in DOMAIN usbq',
                        j < k, usbq'[j].event = "detach"
                 PROVE  usbq'[k].event = "detach"
        OBVIOUS
    <3>1. CASE k \in DOMAIN usbq
        BY <1>1, <2>1, <3>1 DEF NoReturn
    <3>2. CASE k = Len(usbq) + 1
      <4>1. j \in DOMAIN usbq
          BY <1>1, <2>1, <3>2
      <4> QED
          BY <1>3, <2>1, <2>2, <3>2, <4>1 DEF Leaving
    <3> QED
        BY <1>1, <2>1, <3>1, <3>2
  <2>4. hotflags.waiting => \A k \in DOMAIN usbq' : usbq'[k].event = "detach"
      BY <1>1, <1>3, <2>1, <2>2 DEF NoReturn
  <2> QED
      BY <1>2, <2>3, <2>4 DEF NoReturn, HotAt
<1>4. CASE \E u \in Units : Plug(u)
  <2>1. PICK u \in Units : Plug(u)
      BY <1>4
  <2> DEFINE n == [event |-> "attach", handle |-> Len(owner')]
  <2>2. n \in Notice /\ usbq' = Append(usbq, n) /\ owner' # owner
      BY <2>1, ConstantsAssumption DEF Plug, WorldType, Notice
  <2> QED
      BY <1>3, <2>2 DEF PluggedWhenQuiet
<1>5. CASE \E h \in bus : Unplug(h)
  <2>1. PICK h \in bus : Unplug(h)
      BY <1>5
  <2> DEFINE n == [event |-> "detach", handle |-> h]
  <2>2. n \in Notice /\ usbq' = Append(usbq, n) /\ n.event = "detach"
      BY <2>1, ConstantsAssumption DEF Unplug, WorldType, Notice
  <2> QED
      BY <1>3, <2>2
<1> QED
    BY <1>4, <1>5 DEF World

\* The callback sees an arrival only while no return is awaited: it leaves the
\* devices alone.
LEMMA NoReturnCallback ==
    ASSUME WorldType, FlagType, NoReturn, Callback
    PROVE  NoReturn' /\ UNCHANGED devices
<1>1. /\ usbq \in Seq(Notice) /\ usbq # <<>> /\ usbq' = Tail(usbq)
      /\ UNCHANGED <<hot, list, active, delay>>
    BY DEF Callback, WorldType, Notice
<1>2. /\ Len(usbq) \in Nat \ {0} /\ DOMAIN usbq = 1..Len(usbq) /\ Head(usbq) = usbq[1]
      /\ DOMAIN usbq' = 1..(Len(usbq) - 1)
      /\ \A k \in DOMAIN usbq' : usbq'[k] = usbq[k + 1]
    BY <1>1
<1>3. \A j, k \in DOMAIN usbq' :
         j < k /\ usbq'[j].event = "detach" => usbq'[k].event = "detach"
  <2> SUFFICES ASSUME NEW j \in DOMAIN usbq', NEW k \in DOMAIN usbq',
                      j < k, usbq'[j].event = "detach"
               PROVE  usbq'[k].event = "detach"
      OBVIOUS
  <2>1. j + 1 \in DOMAIN usbq /\ k + 1 \in DOMAIN usbq /\ j + 1 < k + 1
      BY <1>2
  <2> QED
      BY <1>2, <2>1 DEF NoReturn
<1>4. \A k \in DOMAIN usbq' : k + 1 \in DOMAIN usbq /\ 1 < k + 1
    BY <1>2
<1>5. CASE usbq[1].event = "attach"
  <2>1. ~hotflags.waiting
      BY <1>2, <1>5 DEF NoReturn
  <2>2. Attached(usbq[1].handle)
      BY <1>2, <1>5 DEF Callback
  <2>3. UNCHANGED insts /\ ~hotflags'.waiting /\ hotflags'.reopen = hotflags.reopen
      BY <2>1, <2>2 DEF Attached, FlagType
  <2> QED
      BY <1>1, <1>3, <2>3 DEF NoReturn, HotAt, devices
<1>6. CASE usbq[1].event = "detach"
  <2>1. Detached(usbq[1].handle)
      BY <1>2, <1>6 DEF Callback
  <2>2. UNCHANGED insts /\ hotflags'.reopen = hotflags.reopen
      BY <2>1 DEF Detached, FlagType
  <2>3. \A k \in DOMAIN usbq' : usbq'[k].event = "detach"
      BY <1>2, <1>4, <1>6 DEF NoReturn
  <2> QED
      BY <1>1, <1>3, <2>2, <2>3 DEF NoReturn, HotAt, devices
<1>7. usbq[1] \in Notice
    BY <1>1, <1>2
<1> QED
    BY <1>5, <1>6, <1>7 DEF Notice

\* The other steps of the hotplug thread.
LEMMA NoReturnHot ==
    ASSUME FlagType, HotType, NoReturn, HotStep, ~HotCallback
    PROVE  NoReturn' /\ ~HotReopen
<1> USE DEF NoReturn, HotAt, HotGoto, HotType, FlagType, world
<1>1. CASE HotOnly
    BY <1>1 DEF HotOnly, HotPoll, HotPolled, HotScan, HotDetach, HotEnd, HotReopen
<1>2. CASE HotAttached \/ HotTake \/ HotDetached
    BY <1>2 DEF HotAttached, HotTake, HotDetached, HotReopen
<1>3. CASE HotCount
    BY <1>3 DEF HotCount, HotReopen
<1>4. CASE HotTrans
    BY <1>4 DEF HotTrans, HotReopen
<1>5. CASE HotAppend \/ HotUnlist
    BY <1>5 DEF HotAppend, HotUnlist, HotReopen
<1>6. ~HotReopen
    BY DEF HotReopen
<1> QED
    BY <1>1, <1>2, <1>3, <1>4, <1>5, <1>6 DEF HotStep, HotOnly

LEMMA NoReturnNext ==
    ASSUME Types, NoReturn, [Next]_vars, [PluggedWhenQuiet]_vars
    PROVE  NoReturn'
<1> USE DEF Types
<1>1. ASSUME UNCHANGED <<usbq, hotflags, hot>>
      PROVE  NoReturn'
    BY <1>1 DEF NoReturn, HotAt
<1>2. CASE World
  <2>1. CASE PluggedWhenQuiet
      BY <1>2, <2>1, NoReturnWorld
  <2>2. CASE UNCHANGED vars
      BY <1>1, <2>2 DEF vars, world
  <2> QED
      BY <2>1, <2>2
<1>3. CASE UiCalls \/ UiStep
  <2>1. CASE Wake
      BY <2>1 DEF Wake, world, NoReturn, HotAt, FlagType
  <2>2. CASE UiCallback
      BY <2>2, NoReturnCallback DEF UiCallback
  <2>3. CASE ~Wake /\ ~UiCallback
      BY <1>1, <1>3, <2>3 DEF UiCalls, UiStep, Activate, OpenFile, RemoveDevice, StartCollect,
         Sleep, StopCollect, RemoveListed, OpenForCollect, JoinCollect, CloseActive, WakeAppend,
         ExitHotplug, ExitJoin, ExitDestroy, ExitDone, world
  <2> QED
      BY <2>1, <2>2, <2>3
<1>4. CASE HotStep
  <2>1. CASE HotCallback
      BY <2>1, NoReturnCallback DEF HotCallback
  <2> QED
      BY <1>4, <2>1, NoReturnHot
<1>5. CASE ColCallback
    BY <1>5, NoReturnCallback DEF ColCallback
<1>6. CASE CaptureSteps
    BY <1>1, <1>6, OnlyCapture DEF world
<1>7. CASE UNCHANGED vars
    BY <1>1, <1>7 DEF vars, world
<1> QED
    BY <1>2, <1>3, <1>4, <1>5, <1>6, <1>7 DEF Next, ColStep, CaptureSteps

LEMMA NoReturnInit == Init => NoReturn
BY DEF Init, NoReturn, HotAt

LEMMA DistinctSwitched ==
    ASSUME DeviceType, HandlesDistinct, Switches
    PROVE  HandlesDistinct'
<1>1. list \subseteq DOMAIN insts
    BY DEF DeviceType
<1> QED
    BY <1>1 DEF Switches, SameHandles, HandlesDistinct, HandleOf

LEMMA DistinctJoined ==
    ASSUME DeviceType, HandlesDistinct, Joined
    PROVE  HandlesDistinct'
<1>1. PICK g \in Seq(Inst) :
        /\ insts' = insts \o g
        /\ list' = list \cup ((Len(insts) + 1)..(Len(insts) + Len(g)))
        /\ active' = active
        /\ \A k \in DOMAIN g : ~g[k].open /\ \A i \in list : HandleOf(i) # g[k].handle
        /\ \A k, l \in DOMAIN g : g[k].handle = g[l].handle => k = l
    BY DEF Joined
<1> DEFINE n == Len(insts)
<1>2. /\ insts \in Seq(Inst) /\ n \in Nat /\ DOMAIN insts = 1..n /\ Len(g) \in Nat
      /\ list \subseteq DOMAIN insts
    BY DeviceFacts
<1>3. DOMAIN g = 1..Len(g) /\ DOMAIN insts' = 1..(n + Len(g))
    BY <1>1, <1>2
<1>4. \A i \in DOMAIN insts : insts'[i] = insts[i]
    BY <1>1, <1>2
<1>5. \A i \in (n + 1)..(n + Len(g)) : i - n \in DOMAIN g /\ insts'[i] = g[i - n]
    BY <1>1, <1>2, <1>3
<1>6. ASSUME NEW i \in list', NEW j \in list', insts'[i].handle = insts'[j].handle
      PROVE  i = j
  <2>1. \A k \in list' : k \in list \/ k \in (n + 1)..(n + Len(g))
      BY <1>1
  <2>2. CASE i \in list /\ j \in list
      BY <1>2, <1>4, <1>6, <2>2 DEF HandlesDistinct, HandleOf
  <2>3. CASE i \in (n + 1)..(n + Len(g)) /\ j \in (n + 1)..(n + Len(g))
    <3>1. i - n = j - n
        BY <1>1, <1>5, <1>6, <2>3
    <3> QED
        BY <1>2, <2>3, <3>1
  <2>4. ASSUME NEW k \in list, NEW l \in (n + 1)..(n + Len(g)), insts'[k].handle = insts'[l].handle
        PROVE  FALSE
      BY <1>1, <1>2, <1>4, <1>5, <2>4 DEF HandleOf
  <2> QED
      BY <1>6, <2>1, <2>2, <2>3, <2>4
<1> QED
    BY <1>6 DEF HandlesDistinct, HandleOf

LEMMA DistinctNext ==
    ASSUME Types, Safe, NoReturn, HandlesDistinct, [Next]_vars
    PROVE  HandlesDistinct'
<1>1. CASE Switches
    BY <1>1, DistinctSwitched DEF Types
<1>2. CASE Joined
    BY <1>2, DistinctJoined DEF Types
<1>3. CASE Callback
  <2>1. UNCHANGED devices
      BY <1>3, NoReturnCallback DEF Types
  <2> QED
      BY <2>1 DEF devices, HandlesDistinct, HandleOf
<1>4. ~HotReopen
    BY DEF HotReopen, NoReturn
<1> QED
    BY <1>1, <1>2, <1>3, <1>4, SwitchesNext

LEMMA DistinctInit == Init => HandlesDistinct
<1> SUFFICES ASSUME Init PROVE HandlesDistinct
    OBVIOUS
<1>1. PICK n \in 0..MaxPlugs :
        /\ insts = <<[handle |-> DemoHandle, unit |-> "demo", open |-> FALSE, freed |-> FALSE]>>
                   \o [i \in 1..n |-> Fresh(i)]
        /\ list = 1..(n + 1)
    BY DEF Init
<1> DEFINE f == [i \in 1..n |-> Fresh(i)]
           demo == [handle |-> DemoHandle, unit |-> "demo", open |-> FALSE, freed |-> FALSE]
<1>2. n \in Nat /\ Len(insts) = n + 1 /\ DemoHandle \notin 1..n
    BY <1>1, ConstantsAssumption DEF DemoHandle
<1>3. DOMAIN insts = 1..(n + 1)
    BY <1>2, TypesInit, DeviceFacts DEF Types
<1>4. insts[1] = demo /\ \A i \in 2..(n + 1) : insts[i] = Fresh(i - 1)
    BY <1>1, <1>2
<1>5. \A i \in 1..(n + 1) : i = 1 \/ i \in 2..(n + 1)
    BY <1>2
<1>6. /\ ~insts[1].open /\ insts[1].handle = DemoHandle
      /\ \A i \in 2..(n + 1) : ~insts[i].open /\ insts[i].handle = i - 1
  <2>1. \A k : Fresh(k).handle = k /\ ~Fresh(k).open
      BY DEF Fresh
  <2>2. ~insts[1].open /\ insts[1].handle = DemoHandle
      BY <1>4
  <2> QED
      BY <1>4, <2>1, <2>2
<1> QED
    BY <1>1, <1>2, <1>5, <1>6, SMTT(30) DEF HandlesDistinct, HandleOf

\* As long as no instrument is plugged in while the return of another is awaited,
\* no libusb device is listed twice: the scans of the hotplug thread and of
\* ds_reload_device_list look up what they found.
THEOREM HandlesDistinctCorrect == Spec /\ [][PluggedWhenQuiet]_vars => []HandlesDistinct
<1>1. Types /\ Safe /\ NoReturn /\ HandlesDistinct /\ [Next]_vars /\ [PluggedWhenQuiet]_vars
      => NoReturn' /\ HandlesDistinct'
    BY NoReturnNext, DistinctNext
<1> QED
    BY <1>1, NoReturnInit, DistinctInit, SafeInvariant, PTL DEF Spec
=============================================================================
