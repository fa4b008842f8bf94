------------------------- MODULE MemoryWindowsProofs -------------------------
(***************************************************************************)
(* Proofs about MemoryWindows, for any number of windows and any values    *)
(* written to their registers.                                             *)
(***************************************************************************)
EXTENDS MemoryWindows, WellFoundedInduction, TLAPS

\* The registers, without the map; a window is mapped only while it is active.
ConfigsTyped ==
  /\ config \in [Windows -> Config]
  /\ mapped \in [Windows -> Config]
  /\ device \in [Windows -> Phys \cup {Unmapped}]
  /\ \A w \in Windows : IsMapped(w) => mapped[w].active

\* A window has a base address of its own before it is active.
OwnBase == \A w \in Windows : config[w].active => config[w].base \in Bases[w]

RegInv == ConfigsTyped /\ NoStaleConfig /\ OwnBase

\* What a write of a register must be for the invariant: a write that does not
\* count as a change leaves a mapped window as it was mapped.
GoodWrite(w, c, changed) ==
  /\ c \in Config /\ changed \in BOOLEAN
  /\ c.active => c.base \in Bases[w]
  /\ IsMapped(w) /\ c.active /\ ~changed => c = mapped[w]

-----------------------------------------------------------------------------
\* handleRegWrite preserves the invariant, whichever way it goes.
LEMMA HandleKeepsInv ==
  ASSUME RegInv, NEW w \in Windows, NEW c, NEW changed,
         GoodWrite(w, c, changed), HandleRegWrite(w, c, changed)
  PROVE  RegInv'
<1> DEFINE idle == [c EXCEPT !.active = FALSE]
<1>1. idle \in Config /\ ~idle.active /\ DefaultConfig \in Config
  BY DEF GoodWrite, Config, DefaultConfig, Modes
<1> HIDE DEF idle
<1>2. CASE Disable(w, c, changed)
  <2>1. /\ config' = [config EXCEPT ![w] = idle]
        /\ mapped' = [mapped EXCEPT ![w] = DefaultConfig]
        /\ device' = [device EXCEPT ![w] = Unmapped]
    BY <1>2 DEF Disable, idle
  <2> QED
    BY <1>1, <2>1 DEF RegInv, ConfigsTyped, NoStaleConfig, OwnBase, IsMapped
<1>3. CASE Enable(w, c)
  <2>1. /\ config' = [config EXCEPT ![w] = c]
        /\ mapped' = [mapped EXCEPT ![w] = c]
        /\ device' = [device EXCEPT ![w] = DeviceAt(c.target)]
        /\ DeviceAt(c.target) \in Phys /\ c.active
    BY <1>3 DEF Enable, CanMap
  <2> QED
    BY <2>1 DEF RegInv, ConfigsTyped, NoStaleConfig, OwnBase, IsMapped, GoodWrite
<1>4. CASE Store(w, c, changed)
  <2>1. /\ config' = [config EXCEPT ![w] = c]
        /\ UNCHANGED <<mapped, device>>
        /\ IsMapped(w) => c.active /\ ~changed
    BY <1>4 DEF Store
  <2> QED
    BY <2>1 DEF RegInv, ConfigsTyped, NoStaleConfig, OwnBase, IsMapped, GoodWrite
<1> QED
  BY <1>2, <1>3, <1>4 DEF HandleRegWrite

\* A write to one of the registers of a window.
RegWrite(w) ==
  \/ \E v \in Bases[w] : WriteBase(w, v)
  \/ \E v \in Nat : WriteTarget(w, v)
  \/ \E v \in Nat : WriteScale(w, v)
  \/ \E active \in BOOLEAN, mode \in Modes, size \in Nat :
       WriteMode(w, active, mode, size)

\* It is such a write: each register counts exactly the differences it can
\* make.
LEMMA RegWriteIsGood ==
  ASSUME RegInv, NEW w \in Windows, RegWrite(w)
  PROVE  \E c \in Config, changed \in BOOLEAN :
           GoodWrite(w, c, changed) /\ HandleRegWrite(w, c, changed)
<1> USE WindowsAssumption
<1>1. ASSUME NEW v \in Bases[w], WriteBase(w, v)
      PROVE  \E c \in Config, changed \in BOOLEAN :
               GoodWrite(w, c, changed) /\ HandleRegWrite(w, c, changed)
  <2> DEFINE c == [config[w] EXCEPT !.base = v]
             changed == v # mapped[w].base
  <2>1. v \in Nat
    OBVIOUS
  <2>2. GoodWrite(w, c, changed)
    BY <2>1 DEF GoodWrite, RegInv, ConfigsTyped, NoStaleConfig, OwnBase, Config
  <2>3. HandleRegWrite(w, c, changed)
    BY <1>1 DEF WriteBase
  <2> HIDE DEF c, changed
  <2> QED
    BY <2>2, <2>3 DEF GoodWrite
<1>2. ASSUME NEW v \in Nat, WriteTarget(w, v)
      PROVE  \E c \in Config, changed \in BOOLEAN :
               GoodWrite(w, c, changed) /\ HandleRegWrite(w, c, changed)
  <2> DEFINE c == [config[w] EXCEPT !.target = v]
             changed == v # mapped[w].target
  <2>1. v \in Nat
    OBVIOUS
  <2>2. GoodWrite(w, c, changed)
    BY <2>1 DEF GoodWrite, RegInv, ConfigsTyped, NoStaleConfig, OwnBase, Config
  <2>3. HandleRegWrite(w, c, changed)
    BY <1>2 DEF WriteTarget
  <2> HIDE DEF c, changed
  <2> QED
    BY <2>2, <2>3 DEF GoodWrite
<1>3. ASSUME NEW v \in Nat, WriteScale(w, v)
      PROVE  \E c \in Config, changed \in BOOLEAN :
               GoodWrite(w, c, changed) /\ HandleRegWrite(w, c, changed)
  <2> DEFINE c == [config[w] EXCEPT !.scale = v]
             changed == v # mapped[w].scale
  <2>1. v \in Nat
    OBVIOUS
  <2>2. GoodWrite(w, c, changed)
    BY <2>1 DEF GoodWrite, RegInv, ConfigsTyped, NoStaleConfig, OwnBase, Config
  <2>3. HandleRegWrite(w, c, changed)
    BY <1>3 DEF WriteScale
  <2> HIDE DEF c, changed
  <2> QED
    BY <2>2, <2>3 DEF GoodWrite
<1>4. ASSUME NEW active \in BOOLEAN, NEW mode \in Modes,
             NEW size \in Nat, WriteMode(w, active, mode, size)
      PROVE  \E c \in Config, changed \in BOOLEAN :
               GoodWrite(w, c, changed) /\ HandleRegWrite(w, c, changed)
  <2> DEFINE c == [config[w] EXCEPT !.active = active, !.mode = mode, !.size = size]
             changed == mode # mapped[w].mode \/ size # mapped[w].size
  <2>1. size \in Nat /\ (active => config[w].base \in Bases[w])
    BY <1>4 DEF WriteMode
  <2>2. /\ c \in Config /\ c.active = active /\ c.base = config[w].base
        /\ c.mode = mode /\ c.size = size
        /\ c.target = config[w].target /\ c.scale = config[w].scale
    BY <2>1 DEF RegInv, ConfigsTyped, Config
  <2>3. ASSUME IsMapped(w), active, ~changed
        PROVE  c = mapped[w]
    <3>1. /\ mapped[w] \in Config /\ mapped[w].active = TRUE /\ config[w] = mapped[w]
          /\ mode = mapped[w].mode /\ size = mapped[w].size
      BY <2>3 DEF RegInv, ConfigsTyped, NoStaleConfig, Config
    <3> QED
      BY <2>2, <2>3, <3>1 DEF Config
  <2>4. GoodWrite(w, c, changed)
    BY <2>1, <2>2, <2>3 DEF GoodWrite
  <2>5. HandleRegWrite(w, c, changed)
    BY <1>4 DEF WriteMode
  <2> HIDE DEF c, changed
  <2> QED
    BY <2>4, <2>5 DEF GoodWrite
<1> QED
  BY <1>1, <1>2, <1>3, <1>4 DEF RegWrite

LEMMA NextIsGoodWrite ==
  ASSUME RegInv, Next
  PROVE  \E w \in Windows : \E c \in Config, changed \in BOOLEAN :
           GoodWrite(w, c, changed) /\ HandleRegWrite(w, c, changed)
<1>1. \E w \in Windows : RegWrite(w)
  BY WindowsAssumption DEF Next, RegWrite
<1> QED
  BY <1>1, RegWriteIsGood

\* The invariant holds throughout.
LEMMA RegInvHolds == Spec => []RegInv
<1>1. Init => RegInv
  BY DEF Init, RegInv, ConfigsTyped, NoStaleConfig, OwnBase, IsMapped, Config,
         DefaultConfig, Modes
<1>2. RegInv /\ [Next]_vars => RegInv'
  <2>1. CASE RegInv /\ Next
    BY <2>1, NextIsGoodWrite, HandleKeepsInv
  <2>2. CASE RegInv /\ UNCHANGED vars
    BY <2>2 DEF vars, RegInv, ConfigsTyped, NoStaleConfig, OwnBase, IsMapped
  <2> QED
    BY <2>1, <2>2
<1> QED
  BY <1>1, <1>2, PTL DEF Spec

\* NoStaleConfig: no sequence of register writes makes a mapped window work
\* with settings other than those in its registers.
THEOREM WindowsAreNeverStale == Spec => []NoStaleConfig
<1>1. RegInv => NoStaleConfig
  BY DEF RegInv
<1> QED
  BY <1>1, RegInvHolds, PTL

-----------------------------------------------------------------------------
\* No window is based where a physical device is.
OwnAddresses == \A w \in Windows, p \in Phys : PhysBase[p] \notin Bases[w]

\* PhysStays, when windows keep clear of the physical devices' base addresses.
\* The run MCMemoryWindowsShared shows that they must.
THEOREM PhysicalDevicesStay == OwnAddresses => (Spec => []PhysStays)
<1> SUFFICES ASSUME OwnAddresses PROVE Spec => []PhysStays
  OBVIOUS
<1>1. Init => PhysStays
  BY WindowsAssumption DEF Init, PhysStays
<1>2. PhysStays /\ RegInv /\ [Next]_vars => PhysStays'
  <2>1. ASSUME PhysStays, RegInv, Next
        PROVE  PhysStays'
    <3>1. PICK w \in Windows, c \in Config, changed \in BOOLEAN :
            GoodWrite(w, c, changed) /\ HandleRegWrite(w, c, changed)
      BY <2>1, NextIsGoodWrite
    <3>2. CASE Disable(w, c, changed)
      <4>1. mapped[w].base \in Bases[w]
        BY <2>1, <3>2 DEF Disable, RegInv, ConfigsTyped, NoStaleConfig, OwnBase
      <4> QED
        BY <2>1, <3>2, <4>1 DEF Disable, Remove, PhysStays, OwnAddresses
    <3>3. CASE Enable(w, c)
      <4>1. c.base \in Bases[w]
        BY <3>1, <3>3 DEF Enable, GoodWrite
      <4> QED
        BY <2>1, <3>3, <4>1 DEF Enable, Add, PhysStays, OwnAddresses
    <3>4. CASE Store(w, c, changed)
      BY <2>1, <3>4 DEF Store, PhysStays
    <3> QED
      BY <3>1, <3>2, <3>3, <3>4 DEF HandleRegWrite
  <2>2. CASE PhysStays /\ UNCHANGED vars
    BY <2>2 DEF vars, PhysStays
  <2> QED
    BY <2>1, <2>2
<1> QED
  BY <1>1, <1>2, RegInvHolds, PTL DEF Spec


-----------------------------------------------------------------------------
(* The map and the windows.  Whether a window lands in the map depends on  *)
(* the sizes of its neighbours: enableWindow ignores the answer of         *)
(* add_device, which refuses a base inside another device.                 *)

\* An active window has one of the sizes that are written.
Sized == \A w \in Windows : config[w].active => config[w].size \in Sizes

\* What the map holds: the physical devices and the mapped windows, each at
\* its base address.
MapHolds ==
  /\ DOMAIN devices \subseteq Nat
  /\ \A b \in DOMAIN devices :
       \/ devices[b] \in Phys /\ b = PhysBase[devices[b]]
       \/ /\ devices[b] \in Windows /\ IsMapped(devices[b])
          /\ b = mapped[devices[b]].base
  /\ \A p \in Phys : PhysBase[p] \in DOMAIN devices /\ devices[PhysBase[p]] = p
  /\ \A w \in Windows : IsMapped(w) => /\ mapped[w].base \in DOMAIN devices
                                       /\ devices[mapped[w].base] = w

\* The offset of a mapped window is that of its target in the device.
OffsetsAgree ==
  /\ offset \in [Windows -> Nat]
  /\ \A w \in Windows :
       IsMapped(w) => mapped[w].target = PhysBase[device[w]] + offset[w]

MapInv == RegInv /\ Sized /\ MapHolds /\ OffsetsAgree

\* Max of the community modules, of a set of naturals with an upper bound.
LEMMA MaxOfBounded ==
  ASSUME NEW S \in SUBSET Nat, S # {}, NEW n \in Nat, \A x \in S : x <= n
  PROVE  Max(S) \in S /\ \A y \in S : y <= Max(S)
<1> DEFINE T == {n - x : x \in S}
           R == {ss \in Nat \X Nat : ss[1] < ss[2]}
<1>1. IsWellFoundedOn(R, Nat)
  BY NatLessThanWellFounded DEF OpToRel
<1>2. T \in SUBSET Nat /\ T # {}
  <2>1. \A x \in S : n - x \in Nat
    OBVIOUS
  <2>2. PICK x \in S : TRUE
    OBVIOUS
  <2>3. n - x \in T
    OBVIOUS
  <2> QED
    BY <2>1, <2>3
<1> HIDE DEF R
<1>3. PICK t \in T : \A u \in T : ~(<<u, t>> \in R)
  BY <1>1, <1>2, WFMin
<1> USE DEF R
<1>4. \A u \in T : t <= u
  <2> HIDE DEF T
  <2> TAKE u \in T
  <2>1. u \in Nat /\ t \in Nat
    BY <1>2
  <2>2. u < t => <<u, t>> \in R
    BY <2>1
  <2> QED
    BY <1>3, <2>1, <2>2
<1>5. \E x \in S : \A y \in S : x >= y
  <2>1. PICK x \in S : t = n - x
    OBVIOUS
  <2>2. \A y \in S : n - x <= n - y
    BY <1>4, <2>1
  <2> QED
    BY <2>2
<1> HIDE DEF T
<1>6. Max(S) \in S /\ \A y \in S : Max(S) >= y
  BY <1>5, Zenon DEF Max
<1> QED
  BY <1>6

\* find_device finds the nearest base at or below the address.
LEMMA NearestBase ==
  ASSUME DOMAIN devices \subseteq Nat, NEW addr \in Nat, Found(addr)
  PROVE  /\ BaseOf(addr) \in DOMAIN devices /\ BaseOf(addr) <= addr
         /\ \A b \in DOMAIN devices : b <= addr => b <= BaseOf(addr)
<1> DEFINE S == BasesBelow(addr)
<1>1. S \in SUBSET Nat /\ S # {} /\ \A x \in S : x <= addr
  BY DEF BasesBelow, Found
<1> HIDE DEF S
<1>2. Max(S) \in S /\ \A y \in S : y <= Max(S)
  BY <1>1, MaxOfBounded
<1> QED
  BY <1>2 DEF S, BaseOf, BasesBelow

\* A window that is not mapped finds its base address free.
LEMMA OwnBaseIsFree ==
  ASSUME OwnRanges, MapInv, NEW w \in Windows, ~IsMapped(w),
         NEW base \in Bases[w], NEW s \in Sizes
  PROVE  base \notin DOMAIN devices /\ CanAdd(base)
<1> USE WindowsAssumption
<1>1. base \in Nat
  OBVIOUS
<1>2. ASSUME NEW b \in DOMAIN devices, b <= base
      PROVE  base - b >= SizeOf(devices[b]) /\ base # b
  <2>1. CASE devices[b] \in Phys
    BY <1>1, <1>2, <2>1 DEF MapInv, MapHolds, OwnRanges, SizeOf
  <2>2. CASE devices[b] \in Windows
    <3> DEFINE v == devices[b]
    <3>1. v \in Windows /\ v \notin Phys /\ IsMapped(v) /\ v # w
          /\ b = mapped[v].base
      BY <2>2 DEF MapInv, MapHolds
    <3>2. mapped[v].base \in Bases[v] /\ mapped[v].size \in Sizes
      BY <3>1 DEF MapInv, RegInv, ConfigsTyped, NoStaleConfig, OwnBase, Sized
    <3>3. b + mapped[v].size <= base /\ mapped[v].size \in Nat \ {0}
      <4> HIDE DEF v
      <4>1. \A a \in Bases[v], n \in Sizes : a + n <= base \/ base < a
        BY <3>1 DEF OwnRanges
      <4>2. b + mapped[v].size <= base \/ base < b
        BY <3>1, <3>2, <4>1
      <4>3. mapped[v].size \in Nat \ {0} /\ b \in Nat
        BY <3>1, <3>2
      <4> QED
        BY <1>1, <1>2, <4>2, <4>3
    <3>4. SizeOf(v) = mapped[v].size
      BY <3>1 DEF SizeOf
    <3> QED
      BY <1>1, <3>1, <3>2, <3>3, <3>4
  <2> QED
    BY <2>1, <2>2 DEF MapInv, MapHolds
<1>3. base \notin DOMAIN devices
  BY <1>1, <1>2
<1>4. ASSUME Found(base)
      PROVE  base - BaseOf(base) >= SizeOf(DeviceAt(base))
  BY <1>1, <1>2, <1>4, NearestBase DEF DeviceAt, MapInv, MapHolds
<1> QED
  BY <1>3, <1>4 DEF CanAdd

\* An active window has a size that was written to its MODE register.
LEMMA HandleKeepsSized ==
  ASSUME Sized, ConfigsTyped, NEW w \in Windows, NEW c \in Config, NEW changed,
         c.active => c.size \in Sizes, HandleRegWrite(w, c, changed)
  PROVE  Sized'
<1> DEFINE idle == [c EXCEPT !.active = FALSE]
<1>1. ~idle.active
  BY DEF Config
<1> HIDE DEF idle
<1>2. \/ config' = [config EXCEPT ![w] = idle]
      \/ config' = [config EXCEPT ![w] = c]
  BY DEF HandleRegWrite, Disable, Enable, Store, idle
<1> QED
  BY <1>1, <1>2 DEF Sized, ConfigsTyped

LEMMA NextKeepsSized ==
  ASSUME RegInv, Sized, Next
  PROVE  Sized'
<1> USE WindowsAssumption
<1>1. PICK w \in Windows :
        \/ \E v \in Bases[w] : WriteBase(w, v)
        \/ \E v \in Targets : WriteTarget(w, v)
        \/ \E v \in Scales : WriteScale(w, v)
        \/ \E active \in BOOLEAN, mode \in Modes, size \in Sizes :
             WriteMode(w, active, mode, size)
  BY Zenon DEF Next
<1>2. config[w] \in Config /\ ConfigsTyped
      /\ (config[w].active => config[w].size \in Sizes)
  BY DEF RegInv, ConfigsTyped, Sized
<1>3. ASSUME NEW v \in Bases[w], WriteBase(w, v)
      PROVE  Sized'
  <2> DEFINE c == [config[w] EXCEPT !.base = v]
  <2>1. c \in Config /\ (c.active => c.size \in Sizes)
    BY <1>2 DEF Config
  <2> QED
    BY <1>2, <1>3, <2>1, HandleKeepsSized DEF WriteBase
<1>4. ASSUME NEW v \in Targets, WriteTarget(w, v)
      PROVE  Sized'
  <2> DEFINE c == [config[w] EXCEPT !.target = v]
  <2>1. c \in Config /\ (c.active => c.size \in Sizes)
    BY <1>2 DEF Config
  <2> QED
    BY <1>2, <1>4, <2>1, HandleKeepsSized DEF WriteTarget
<1>5. ASSUME NEW v \in Scales, WriteScale(w, v)
      PROVE  Sized'
  <2> DEFINE c == [config[w] EXCEPT !.scale = v]
  <2>1. c \in Config /\ (c.active => c.size \in Sizes)
    BY <1>2 DEF Config
  <2> QED
    BY <1>2, <1>5, <2>1, HandleKeepsSized DEF WriteScale
<1>6. ASSUME NEW active \in BOOLEAN, NEW mode \in Modes, NEW size \in Sizes,
             WriteMode(w, active, mode, size)
      PROVE  Sized'
  <2> DEFINE c == [config[w] EXCEPT !.active = active, !.mode = mode, !.size = size]
  <2>1. c \in Config /\ (c.active => c.size \in Sizes)
    BY <1>2 DEF Config
  <2> QED
    BY <1>2, <1>6, <2>1, HandleKeepsSized DEF WriteMode
<1> QED
  BY <1>1, <1>3, <1>4, <1>5, <1>6

\* Removing a window from the map leaves the rest of it.
LEMMA DisableKeepsMap ==
  ASSUME OwnRanges, MapInv, NEW w \in Windows, NEW c, NEW changed,
         Disable(w, c, changed)
  PROVE  MapHolds' /\ OffsetsAgree'
<1> USE WindowsAssumption
<1> DEFINE base == mapped[w].base
<1>1. /\ devices' = [b \in DOMAIN devices \ {base} |-> devices[b]]
      /\ mapped' = [mapped EXCEPT ![w] = DefaultConfig]
      /\ device' = [device EXCEPT ![w] = Unmapped]
      /\ offset' = [offset EXCEPT ![w] = 0]
      /\ IsMapped(w)
  BY DEF Disable, Remove
<1>2. /\ ConfigsTyped /\ MapHolds /\ OffsetsAgree
      /\ base \in DOMAIN devices /\ devices[base] = w
  BY <1>1 DEF MapInv, RegInv, MapHolds
<1>3. /\ ~IsMapped(w)'
      /\ \A v \in Windows \ {w} :
           IsMapped(v)' = IsMapped(v) /\ mapped'[v] = mapped[v]
  BY <1>1, <1>2 DEF IsMapped, ConfigsTyped
<1> HIDE DEF base
<1>4. DOMAIN devices' = DOMAIN devices \ {base}
      /\ \A b \in DOMAIN devices' : devices'[b] = devices[b]
  BY <1>1
<1>5. MapHolds'
  <2>1. DOMAIN devices' \subseteq Nat
    BY <1>2, <1>4 DEF MapHolds
  <2>2. ASSUME NEW b \in DOMAIN devices'
        PROVE  \/ devices'[b] \in Phys /\ b = PhysBase[devices'[b]]
               \/ /\ devices'[b] \in Windows /\ device'[devices'[b]] # Unmapped
                  /\ b = mapped'[devices'[b]].base
    <3>1. b \in DOMAIN devices /\ b # base /\ devices'[b] = devices[b]
      BY <1>4
    <3>2. devices[b] # w
      BY <1>2, <3>1 DEF MapHolds, base
    <3> QED
      BY <1>2, <1>3, <3>1, <3>2 DEF MapHolds, IsMapped
  <2>3. ASSUME NEW p \in Phys
        PROVE  PhysBase[p] \in DOMAIN devices' /\ devices'[PhysBase[p]] = p
    BY <1>2, <1>4 DEF MapHolds
  <2>4. ASSUME NEW v \in Windows, IsMapped(v)'
        PROVE  mapped'[v].base \in DOMAIN devices' /\ devices'[mapped'[v].base] = v
    BY <1>2, <1>3, <1>4, <2>4 DEF MapHolds
  <2> QED
    BY <2>1, <2>2, <2>3, <2>4 DEF MapHolds, IsMapped
<1>6. OffsetsAgree'
  <2>1. ASSUME NEW v \in Windows, IsMapped(v)'
        PROVE  mapped'[v].target = PhysBase[device'[v]] + offset'[v]
    <3>1. v # w /\ IsMapped(v) /\ mapped'[v] = mapped[v] /\ device'[v] = device[v]
      BY <1>1, <1>2, <1>3, <2>1 DEF ConfigsTyped
    <3>2. offset'[v] = offset[v]
      BY <1>1, <1>2, <3>1 DEF OffsetsAgree
    <3> QED
      BY <1>2, <3>1, <3>2 DEF OffsetsAgree
  <2>2. offset' \in [Windows -> Nat]
    BY <1>1, <1>2 DEF OffsetsAgree
  <2> QED
    BY <2>1, <2>2 DEF OffsetsAgree
<1> QED
  BY <1>5, <1>6

\* The target of a window lies in the physical device at the nearest base.
LEMMA TargetIsPhysical ==
  ASSUME MapHolds, NEW c \in Config, CanMap(c)
  PROVE  /\ DeviceAt(c.target) \in Phys
         /\ c.target - BaseOf(c.target) \in Nat
         /\ BaseOf(c.target) = PhysBase[DeviceAt(c.target)]
<1>1. c.target \in Nat /\ Found(c.target) /\ DeviceAt(c.target) \in Phys
  BY DEF CanMap, Config
<1>2. BaseOf(c.target) \in DOMAIN devices /\ BaseOf(c.target) <= c.target
  BY <1>1, NearestBase DEF MapHolds
<1>3. BaseOf(c.target) \in Nat
  BY <1>2 DEF MapHolds
<1>4. BaseOf(c.target) = PhysBase[DeviceAt(c.target)]
  BY <1>1, <1>2, WindowsAssumption DEF MapHolds, DeviceAt
<1> QED
  BY <1>1, <1>2, <1>3, <1>4

\* A window that is mapped enters the map, at an address that was free.
LEMMA EnableKeepsMap ==
  ASSUME OwnRanges, MapInv, Sized', NEW w \in Windows, NEW c, NEW changed,
         GoodWrite(w, c, changed), Enable(w, c)
  PROVE  MapHolds' /\ OffsetsAgree'
<1> USE WindowsAssumption
<1>1. /\ config' = [config EXCEPT ![w] = c]
      /\ mapped' = [mapped EXCEPT ![w] = c]
      /\ device' = [device EXCEPT ![w] = DeviceAt(c.target)]
      /\ offset' = [offset EXCEPT ![w] = c.target - BaseOf(c.target)]
      /\ devices' = IF CanAdd(c.base) THEN Add(c.base, w) ELSE devices
      /\ ~IsMapped(w) /\ c.active /\ CanMap(c)
  BY DEF Enable
<1>2. /\ ConfigsTyped /\ MapHolds /\ OffsetsAgree
      /\ c \in Config /\ c.base \in Bases[w]
  BY <1>1 DEF MapInv, RegInv, GoodWrite
<1>3. c.size \in Sizes
  BY <1>1, <1>2 DEF Sized, ConfigsTyped
<1>4. c.base \notin DOMAIN devices /\ CanAdd(c.base)
  BY <1>1, <1>2, <1>3, OwnBaseIsFree
<1> DEFINE base == c.base
           target == c.target
           p == DeviceAt(target)
<1>5. p \in Phys /\ target - BaseOf(target) \in Nat /\ BaseOf(target) = PhysBase[p]
  BY <1>1, <1>2, TargetIsPhysical
<1>6. /\ device'[w] = p /\ mapped'[w] = c
      /\ device'[w] # Unmapped
      /\ \A v \in Windows \ {w} : device'[v] = device[v] /\ mapped'[v] = mapped[v]
  BY <1>1, <1>2, <1>5 DEF ConfigsTyped
<1>7. /\ DOMAIN devices' = DOMAIN devices \cup {base}
      /\ devices'[base] = w
      /\ \A b \in DOMAIN devices : devices'[b] = devices[b]
  BY <1>1, <1>4 DEF Add
<1>8. base \in Nat /\ base \notin DOMAIN devices
  BY <1>2, <1>4
<1>9. mapped'[w].base = base /\ mapped'[w].target = target
  BY <1>6
<1> HIDE DEF base, p, target
<1>10. MapHolds'
  <2>1. DOMAIN devices' \subseteq Nat
    BY <1>2, <1>7, <1>8 DEF MapHolds
  <2>2. ASSUME NEW b \in DOMAIN devices'
        PROVE  \/ devices'[b] \in Phys /\ b = PhysBase[devices'[b]]
               \/ /\ devices'[b] \in Windows /\ device'[devices'[b]] # Unmapped
                  /\ b = mapped'[devices'[b]].base
    <3>1. CASE b = base
      BY <1>6, <1>7, <1>9, <3>1
    <3>2. CASE b \in DOMAIN devices
      <4>1. devices'[b] = devices[b]
        BY <1>7, <3>2
      <4>2. devices[b] # w
        BY <1>1, <1>2, <3>2 DEF MapHolds
      <4> QED
        BY <1>2, <1>6, <3>2, <4>1, <4>2 DEF MapHolds, IsMapped
    <3> QED
      BY <1>7, <3>1, <3>2
  <2>3. ASSUME NEW q \in Phys
        PROVE  PhysBase[q] \in DOMAIN devices' /\ devices'[PhysBase[q]] = q
    BY <1>2, <1>7 DEF MapHolds
  <2>4. ASSUME NEW v \in Windows, device'[v] # Unmapped
        PROVE  mapped'[v].base \in DOMAIN devices' /\ devices'[mapped'[v].base] = v
    <3>1. CASE v = w
      BY <1>7, <1>9, <3>1
    <3>2. CASE v # w
      BY <1>2, <1>6, <1>7, <2>4, <3>2 DEF MapHolds, IsMapped
    <3> QED
      BY <3>1, <3>2
  <2> QED
    BY <2>1, <2>2, <2>3, <2>4 DEF MapHolds, IsMapped
<1>11. OffsetsAgree'
  <2>1. ASSUME NEW v \in Windows, device'[v] # Unmapped
        PROVE  mapped'[v].target = PhysBase[device'[v]] + offset'[v]
    <3>1. CASE v = w
      <4>1. offset'[w] = target - BaseOf(target)
        BY <1>1, <1>2 DEF target, OffsetsAgree
      <4>2. target \in Nat /\ PhysBase[p] \in Nat
        BY <1>2, <1>5 DEF Config, target
      <4> QED
        BY <1>5, <1>6, <1>9, <3>1, <4>1, <4>2
    <3>2. CASE v # w
      <4>1. offset'[v] = offset[v] /\ device'[v] = device[v] /\ mapped'[v] = mapped[v]
        BY <1>1, <1>2, <1>6, <3>2 DEF OffsetsAgree
      <4> QED
        BY <1>2, <2>1, <4>1 DEF OffsetsAgree, IsMapped
    <3> QED
      BY <3>1, <3>2
  <2>2. offset' \in [Windows -> Nat]
    <3>1. target - BaseOf(target) \in Nat
      BY <1>5
    <3> QED
      BY <1>1, <1>2, <3>1 DEF OffsetsAgree, target
  <2> QED
    BY <2>1, <2>2 DEF OffsetsAgree, IsMapped
<1> QED
  BY <1>10, <1>11

\* The invariant, for windows with ranges of their own.
LEMMA MapInvHolds == OwnRanges => (Spec => []MapInv)
<1> SUFFICES ASSUME OwnRanges PROVE Spec => []MapInv
  OBVIOUS
<1>1. Init => Sized /\ MapHolds /\ OffsetsAgree
  <2> SUFFICES ASSUME Init PROVE Sized /\ MapHolds /\ OffsetsAgree
    OBVIOUS
  <2>1. \A w \in Windows : ~IsMapped(w) /\ ~config[w].active
    BY DEF Init, IsMapped, DefaultConfig
  <2>2. \A p \in Phys : devices[PhysBase[p]] = p /\ PhysBase[p] \in DOMAIN devices
    BY WindowsAssumption DEF Init
  <2>3. DOMAIN devices = {PhysBase[p] : p \in Phys}
    BY DEF Init
  <2>4. MapHolds
    <3> HIDE DEF Init
    <3> QED
      BY <2>1, <2>2, <2>3, WindowsAssumption DEF MapHolds
  <2>5. OffsetsAgree
    BY <2>1 DEF Init, OffsetsAgree
  <2> QED
    BY <2>1, <2>4, <2>5 DEF Sized
<1>2. ASSUME RegInv, RegInv', Sized /\ MapHolds /\ OffsetsAgree, [Next]_vars
      PROVE  (Sized /\ MapHolds /\ OffsetsAgree)'
  <2>1. CASE Next
    <3>1. PICK w \in Windows, c \in Config, changed \in BOOLEAN :
            GoodWrite(w, c, changed) /\ HandleRegWrite(w, c, changed)
      BY <1>2, <2>1, NextIsGoodWrite
    <3>2. MapInv /\ Sized'
      BY <1>2, <2>1, NextKeepsSized DEF MapInv
    <3>3. CASE Disable(w, c, changed)
      BY <3>2, <3>3, DisableKeepsMap
    <3>4. CASE Enable(w, c)
      BY <3>1, <3>2, <3>4, EnableKeepsMap
    <3>5. CASE Store(w, c, changed)
      <4>1. UNCHANGED <<devices, mapped, device, offset>>
        BY <3>5 DEF Store
      <4> QED
        BY <1>2, <3>2, <4>1 DEF MapHolds, OffsetsAgree, IsMapped
    <3> QED
      BY <3>1, <3>2, <3>3, <3>4, <3>5 DEF HandleRegWrite
  <2>2. CASE UNCHANGED vars
    BY <1>2, <2>2 DEF vars, Sized, MapHolds, OffsetsAgree, IsMapped
  <2> QED
    BY <1>2, <2>1, <2>2
<1>3. RegInv /\ Sized /\ MapHolds /\ OffsetsAgree <=> MapInv
  BY DEF MapInv
<1> QED
  BY <1>1, <1>2, <1>3, RegInvHolds, PTL DEF Spec

\* MapAgrees: a window is in the map exactly while it is mapped, at its base
\* address and once, although enableWindow does not look at add_device's
\* answer: windows with ranges of their own are never refused.
THEOREM WindowsAreInTheMap == OwnRanges => (Spec => []MapAgrees)
<1>1. MapInv => MapAgrees
  <2> SUFFICES ASSUME MapInv, NEW w \in Windows
               PROVE  {b \in DOMAIN devices : devices[b] = w} =
                        IF IsMapped(w) THEN {mapped[w].base} ELSE {}
    BY DEF MapAgrees
  <2> QED
    BY WindowsAssumption DEF MapInv, MapHolds
<1> QED
  BY <1>1, MapInvHolds, PTL

\* The address in the map that an access to a window stands for.
Goal(w, unit, off) ==
  mapped[w].target + off
  + (IF mapped[w].mode = "perHart" THEN unit * mapped[w].scale ELSE 0)

\* Translates: an access to any address of a mapped window ends up in the
\* target, moved by SCALE for each hart in per-hart mode, whatever else is
\* mapped: the nearest base below the address is the window's.
THEOREM WindowsTranslate == OwnRanges => (Spec => []Translates)
<1> SUFFICES ASSUME OwnRanges PROVE Spec => []Translates
  OBVIOUS
<1>1. ASSUME MapInv, NEW w \in Windows, NEW unit \in Harts \cup OtherUnits,
             NEW off \in 0 .. mapped[w].size - 1, IsMapped(w),
             device[w] \notin IODevices,
             mapped[w].mode = "perHart" => unit \in Harts,
             Goal(w, unit, off) - PhysBase[device[w]] < PhysSize[device[w]]
      PROVE  Reach(mapped[w].base + off, 1, unit) =
               <<device[w], Goal(w, unit, off) - PhysBase[device[w]]>>
  <2> USE WindowsAssumption
  <2> DEFINE base == mapped[w].base
             size == mapped[w].size
             p == device[w]
             shift == IF mapped[w].mode = "perHart" THEN unit * mapped[w].scale ELSE 0
  <2>1. /\ base \in Nat /\ size \in Sizes /\ base \in Bases[w]
        /\ size \in Nat \ {0} /\ off \in Nat /\ off < size /\ p \in Phys
    BY <1>1 DEF MapInv, RegInv, ConfigsTyped, NoStaleConfig, OwnBase, Sized, Config,
                IsMapped
  <2>2. shift \in Nat
    <3>1. mapped[w].scale \in Nat
      BY <1>1 DEF MapInv, RegInv, ConfigsTyped, Config
    <3>2. mapped[w].mode = "perHart" => unit * mapped[w].scale \in Nat
      BY <1>1, <3>1
    <3> QED
      BY <3>2
  <2>3. /\ mapped[w].target = PhysBase[p] + offset[w] /\ offset[w] \in Nat
        /\ PhysBase[p] \in Nat /\ PhysSize[p] \in Nat
    BY <1>1, <2>1 DEF MapInv, OffsetsAgree
  <2>4. base \in DOMAIN devices /\ devices[base] = w /\ DOMAIN devices \subseteq Nat
    BY <1>1 DEF MapInv, MapHolds
  <2>5. ASSUME NEW b \in DOMAIN devices, b <= base + off
        PROVE  b <= base
    <3>1. CASE devices[b] \in Phys
      <4>1. b = PhysBase[devices[b]]
        BY <1>1, <3>1 DEF MapInv, MapHolds
      <4>2. base + size <= b \/ b + PhysSize[devices[b]] <= base
        BY <2>1, <3>1, <4>1 DEF OwnRanges
      <4> QED
        BY <2>1, <2>4, <2>5, <3>1, <4>2
    <3>2. CASE devices[b] \in Windows
      <4>1. IsMapped(devices[b]) /\ b = mapped[devices[b]].base
        BY <1>1, <3>2 DEF MapInv, MapHolds
      <4>2. CASE devices[b] = w
        BY <2>1, <4>1, <4>2
      <4>3. CASE devices[b] # w
        <5> DEFINE v == devices[b]
        <5>1. v \in Windows /\ b \in Bases[v]
          BY <1>1, <3>2, <4>1
             DEF MapInv, RegInv, ConfigsTyped, NoStaleConfig, OwnBase
        <5> HIDE DEF v
        <5>2. \A a \in Bases[w], s \in Sizes : a + s <= b \/ b < a
          BY <4>3, <5>1 DEF OwnRanges, v
        <5>3. base + size <= b \/ b < base
          BY <2>1, <5>2
        <5> QED
          BY <2>1, <2>4, <2>5, <5>3
      <4> QED
        BY <4>2, <4>3
    <3> QED
      BY <1>1, <3>1, <3>2 DEF MapInv, MapHolds
  <2>6. Goal(w, unit, off) = mapped[w].target + off + shift
    BY DEF Goal
  <2> HIDE DEF base, size, p, shift
  <2> DEFINE addr == base + off
  <2>7. Found(addr) /\ BaseOf(addr) = base
    <3>1. addr \in Nat /\ base <= addr
      BY <2>1
    <3>2. \A b \in DOMAIN devices : b <= addr => b <= base
      BY <2>5
    <3> HIDE DEF addr
    <3>3. Found(addr)
      BY <2>4, <3>1 DEF Found, BasesBelow
    <3>4. /\ BaseOf(addr) \in DOMAIN devices
          /\ BaseOf(addr) <= addr /\ base <= BaseOf(addr)
      BY <2>4, <3>1, <3>3, NearestBase
    <3> QED
      BY <2>1, <2>4, <3>2, <3>3, <3>4
  <2>8. addr - BaseOf(addr) = off
    <3>1. addr - base = off
      BY <2>1
    <3> HIDE DEF addr
    <3> QED
      BY <2>7, <3>1
  <2> HIDE DEF addr
  <2>9. Reach(addr, 1, unit) = WindowReach(w, off, 1, unit)
    <3>1. DeviceAt(addr) = w /\ w \notin Phys
      BY <2>4, <2>7 DEF DeviceAt
    <3> QED
      BY <2>7, <2>8, <3>1, Zenon DEF Reach
  <2>10. WindowReach(w, off, 1, unit) = PhysReach(p, offset[w] + off + shift, 1)
    BY <1>1 DEF WindowReach, Redirected, p, shift
  <2>11. (mapped[w].target + off + shift) - PhysBase[p] = offset[w] + off + shift
    BY <2>1, <2>2, <2>3
  <2>12. offset[w] + off + shift + 1 <= PhysSize[p]
    <3>1. (mapped[w].target + off + shift) - PhysBase[p] < PhysSize[p]
      BY <1>1, <2>6 DEF p
    <3> QED
      BY <2>1, <2>2, <2>3, <2>11, <3>1
  <2>13. PhysReach(p, offset[w] + off + shift, 1) = <<p, offset[w] + off + shift>>
    BY <2>12 DEF PhysReach
  <2>14. Reach(addr, 1, unit) = <<p, (mapped[w].target + off + shift) - PhysBase[p]>>
    BY <2>9, <2>10, <2>11, <2>13
  <2> QED
    <3>1. Goal(w, unit, off) - PhysBase[p]
            = (mapped[w].target + off + shift) - PhysBase[p]
      BY <2>6
    <3>2. Reach(addr, 1, unit) = <<p, Goal(w, unit, off) - PhysBase[p]>>
      BY <2>14, <3>1
    <3> QED
      BY <3>2, Zenon DEF addr, base, p
<1>2. ASSUME MapInv
      PROVE  Translates
  BY <1>1, <1>2, Zenon DEF Translates, Goal
<1> QED
  BY <1>2, MapInvHolds, PTL

=============================================================================
