---------------------------- MODULE MemoryWindows ----------------------------
(***************************************************************************)
(* The memory map of a RefSi device and its memory windows.  The memory    *)
(* controller maps base addresses to devices and finds the device of an    *)
(* address by looking for the nearest base below it.  A window is a device *)
(* that redirects accesses to another one; command buffers program it by   *)
(* writing its BASE, TARGET, SCALE and MODE registers, in any order and    *)
(* any number of times.                                                    *)
(*                                                                         *)
(* Addresses are small naturals and a scale is the factor it encodes.      *)
(***************************************************************************)
EXTENDS Integers, FiniteSets, FiniteSetsExt

CONSTANTS
  Windows,     \* RefSiMemoryController::windows (eight in the code)
  Phys,        \* the devices mapped when the controller is created
  IODevices,   \* those of Phys without memory contents (DMA, counters)
  PhysBase,    \* base address of each device of Phys
  PhysSize,    \* size of each device of Phys
  Harts,       \* hart numbers: units that per-hart windows tell apart
  OtherUnits,  \* units that are not harts (cmp, external)
  Bases,       \* Bases[w]: values written to window w's BASE register
  Targets,     \* values written to TARGET registers
  Scales,      \* values written to SCALE registers
  Sizes,       \* values of the SIZE field of MODE registers
  Unmapped     \* mapped_device is null

Modes == {"shared", "perHart", "reserved"}

ASSUME WindowsAssumption ==
  /\ IODevices \subseteq Phys
  /\ Windows \cap Phys = {}
  /\ Unmapped \notin Phys \cup Windows
  /\ PhysBase \in [Phys -> Nat] /\ PhysSize \in [Phys -> Nat \ {0}]
  /\ \A p, q \in Phys : PhysBase[p] = PhysBase[q] => p = q
  /\ Harts \subseteq Nat /\ Harts \cap OtherUnits = {}
  /\ Bases \in [Windows -> SUBSET Nat]
  /\ Targets \subseteq Nat /\ Scales \subseteq Nat /\ Sizes \subseteq Nat \ {0}

VARIABLES
  devices,   \* the map: base address -> device
  config,    \* per window: the configuration the registers describe
  mapped,    \* per window: mapped_config, the snapshot taken when mapping
  device,    \* per window: mapped_device
  offset     \* per window: mapped_offset

vars == <<devices, config, mapped, device, offset>>

Config == [active : BOOLEAN, mode : Modes, base : Nat, target : Nat,
           size : Nat, scale : Nat]

DefaultConfig == [active |-> FALSE, mode |-> "shared", base |-> 0,
                  target |-> 0, size |-> 0, scale |-> 0]

Init ==
  /\ devices = [b \in {PhysBase[p] : p \in Phys} |->
                  CHOOSE p \in Phys : PhysBase[p] = b]
  /\ config = [w \in Windows |-> DefaultConfig]
  /\ mapped = [w \in Windows |-> DefaultConfig]
  /\ device = [w \in Windows |-> Unmapped]
  /\ offset = [w \in Windows |-> 0]

TypeOK ==
  /\ DOMAIN devices \subseteq Nat
  /\ \A b \in DOMAIN devices : devices[b] \in Phys \cup Windows
  /\ config \in [Windows -> Config]
  /\ mapped \in [Windows -> Config]
  /\ device \in [Windows -> Phys \cup {Unmapped}]
  /\ offset \in [Windows -> Nat]

-----------------------------------------------------------------------------
(* The memory controller                                                   *)

IsMapped(w) == device[w] # Unmapped

SizeOf(d) == IF d \in Phys THEN PhysSize[d]
             ELSE IF IsMapped(d) THEN mapped[d].size ELSE config[d].size

BasesBelow(addr) == {b \in DOMAIN devices : b <= addr}

\* find_device: "price-is-right" search; the size of the device plays no part.
Found(addr) == BasesBelow(addr) # {}
BaseOf(addr) == Max(BasesBelow(addr))
DeviceAt(addr) == devices[BaseOf(addr)]

\* add_device refuses a base address that lies inside a mapped device.
CanAdd(base) == Found(base) => base - BaseOf(base) >= SizeOf(DeviceAt(base))

Add(base, d) == [b \in DOMAIN devices \cup {base} |->
                   IF b = base THEN d ELSE devices[b]]

\* remove_device removes whatever is mapped at that base address.
Remove(base) == [b \in DOMAIN devices \ {base} |-> devices[b]]

-----------------------------------------------------------------------------
(* Window registers: handleRegWrite, where c is the configuration after    *)
(* the register has been written and changed says whether the field that   *)
(* was written now differs from the snapshot.                              *)

\* enableWindow refuses a target outside the map, a target that is another
\* window, and the reserved modes.
CanMap(c) ==
  /\ Found(c.target)
  /\ DeviceAt(c.target) \in Phys
  /\ c.mode # "reserved"

\* Faulty Disable, for the checks of the properties: it looks the window up
\* by its new base address.
DisableByNewBase(w, c, changed) ==
  /\ IsMapped(w)
  /\ ~c.active \/ changed
  /\ devices' = Remove(c.base)
  /\ config' = [config EXCEPT ![w] = [c EXCEPT !.active = FALSE]]
  /\ mapped' = [mapped EXCEPT ![w] = DefaultConfig]
  /\ device' = [device EXCEPT ![w] = Unmapped]
  /\ offset' = [offset EXCEPT ![w] = 0]

\* Faulty Disable: it removes the target of the window.
DisableTarget(w, c, changed) ==
  /\ IsMapped(w)
  /\ ~c.active \/ changed
  /\ devices' = Remove(BaseOf(mapped[w].target))
  /\ config' = [config EXCEPT ![w] = [c EXCEPT !.active = FALSE]]
  /\ mapped' = [mapped EXCEPT ![w] = DefaultConfig]
  /\ device' = [device EXCEPT ![w] = Unmapped]
  /\ offset' = [offset EXCEPT ![w] = 0]

\* Cleared ACTIVE bit, or mapped window whose settings change: the window is
\* disabled, and the change of settings leaves it disabled.
Disable(w, c, changed) ==
  /\ IsMapped(w)
  /\ ~c.active \/ changed
  /\ devices' = Remove(mapped[w].base)
  /\ config' = [config EXCEPT ![w] = [c EXCEPT !.active = FALSE]]
  /\ mapped' = [mapped EXCEPT ![w] = DefaultConfig]
  /\ device' = [device EXCEPT ![w] = Unmapped]
  /\ offset' = [offset EXCEPT ![w] = 0]

\* enableWindow; it ignores add_device's answer.
Enable(w, c) ==
  /\ ~IsMapped(w)
  /\ c.active
  /\ CanMap(c)
  /\ config' = [config EXCEPT ![w] = c]
  /\ mapped' = [mapped EXCEPT ![w] = c]
  /\ device' = [device EXCEPT ![w] = DeviceAt(c.target)]
  /\ offset' = [offset EXCEPT ![w] = c.target - BaseOf(c.target)]
  /\ devices' = IF CanAdd(c.base) THEN Add(c.base, w) ELSE devices

\* Nothing to enable or disable, or enableWindow fails: the register keeps
\* its new value.
Store(w, c, changed) ==
  /\ IF IsMapped(w) THEN c.active /\ ~changed
                    ELSE c.active => ~CanMap(c)
  /\ config' = [config EXCEPT ![w] = c]
  /\ UNCHANGED <<devices, mapped, device, offset>>

\* Faulty HandleRegWrite: a change of settings does not remap the window.
HandleActiveBit(w, c, changed) ==
  Disable(w, c, FALSE) \/ Enable(w, c) \/ Store(w, c, FALSE)

HandleRegWrite(w, c, changed) ==
  Disable(w, c, changed) \/ Enable(w, c) \/ Store(w, c, changed)

WriteBase(w, v) ==
  HandleRegWrite(w, [config[w] EXCEPT !.base = v], v # mapped[w].base)

WriteTarget(w, v) ==
  HandleRegWrite(w, [config[w] EXCEPT !.target = v], v # mapped[w].target)

WriteScale(w, v) ==
  HandleRegWrite(w, [config[w] EXCEPT !.scale = v], v # mapped[w].scale)

\* The MODE register holds the ACTIVE bit, the mode and the size.  A client
\* has written a BASE of its own before it sets ACTIVE.
WriteMode(w, active, mode, size) ==
  /\ active => config[w].base \in Bases[w]
  /\ HandleRegWrite(w,
       [config[w] EXCEPT !.active = active, !.mode = mode, !.size = size],
       mode # mapped[w].mode \/ size # mapped[w].size)

Next ==
  \E w \in Windows :
    \/ \E v \in Bases[w] : WriteBase(w, v)
    \/ \E v \in Targets : WriteTarget(w, v)
    \/ \E v \in Scales : WriteScale(w, v)
    \/ \E active \in BOOLEAN, mode \in Modes, size \in Sizes :
         WriteMode(w, active, mode, size)

Spec == Init /\ [][Next]_vars

-----------------------------------------------------------------------------
(* Accesses.  Reach is the place an access of len bytes by a unit ends up  *)
(* in: a physical device and an offset in it, or Nowhere when it fails.    *)

Nowhere == <<Unmapped, 0>>

PhysReach(p, off, len) == IF off + len <= PhysSize[p] THEN <<p, off>> ELSE Nowhere

\* Faulty Redirected: the unit plays no part.
RedirectedTogether(w, off, unit) == offset[w] + off

\* getEffectiveAddress: a per-hart window moves by SCALE per hart.
Redirected(w, off, unit) ==
  offset[w] + off + (IF mapped[w].mode = "perHart" THEN unit * mapped[w].scale
                                                   ELSE 0)

\* Memory is reached through addr_to_mem, which does not look at the size of
\* the window; an I/O device through load and store, which refuse an access
\* that touches the window's last byte.
WindowReach(w, off, len, unit) ==
  IF \/ ~IsMapped(w)
     \/ mapped[w].mode = "perHart" /\ unit \notin Harts
     \/ device[w] \in IODevices /\ off + len >= config[w].size
  THEN Nowhere
  ELSE PhysReach(device[w], Redirected(w, off, unit), len)

Reach(addr, len, unit) ==
  IF ~Found(addr) THEN Nowhere
  ELSE IF DeviceAt(addr) \in Phys
       THEN PhysReach(DeviceAt(addr), addr - BaseOf(addr), len)
       ELSE WindowReach(DeviceAt(addr), addr - BaseOf(addr), len, unit)

-----------------------------------------------------------------------------
(* Properties                                                              *)

\* A mapped window works with the settings its registers describe: a change
\* of any register unmaps it, so accesses may check config.size while they
\* translate with the snapshot.
NoStaleConfig == \A w \in Windows : IsMapped(w) => config[w] = mapped[w]

\* What MapAgrees and Translates ask of the clients: the ranges that windows
\* may cover keep clear of the physical devices and of those of other windows.
OwnRanges ==
  \A w \in Windows : \A b \in Bases[w] :
    /\ \A p \in Phys, s \in Sizes :
         b + s <= PhysBase[p] \/ PhysBase[p] + PhysSize[p] <= b
    /\ \A v \in Windows \ {w} : \A a \in Bases[v], s \in Sizes :
         a + s <= b \/ b < a

\* The window and the map agree, which the destructor of the controller
\* relies on to free each device once: a window is in the map exactly when it
\* is mapped, at its base address, and once.
MapAgrees ==
  \A w \in Windows :
    {b \in DOMAIN devices : devices[b] = w} =
      IF IsMapped(w) THEN {mapped[w].base} ELSE {}

\* Programming windows never takes a physical device out of the map.
PhysStays == \A p \in Phys : PhysBase[p] \in DOMAIN devices
                               /\ devices[PhysBase[p]] = p

\* Every address of a mapped window redirects to TARGET plus the offset, and
\* to a different stretch of SCALE bytes for each hart in per-hart mode.
Translates ==
  \A w \in Windows, unit \in Harts \cup OtherUnits :
    \A off \in 0 .. mapped[w].size - 1 :
      LET c == mapped[w]
          goal == c.target + off + (IF c.mode = "perHart" THEN unit * c.scale ELSE 0)
          p == device[w]
      IN  /\ IsMapped(w)
          /\ p \notin IODevices
          /\ c.mode = "perHart" => unit \in Harts
          /\ goal - PhysBase[p] < PhysSize[p]
          => Reach(c.base + off, 1, unit) = <<p, goal - PhysBase[p]>>

\* "When this function returns N, this means that device offsets of zero to
\* N-1 are valid" (common_devices.h:88-90), of a window: valid offsets are
\* accepted.
ValidOffsetsAreReached ==
  \A w \in Windows :
    \A off \in 0 .. SizeOf(w) - 1, h \in Harts :
      /\ IsMapped(w)
      /\ Redirected(w, off, h) < PhysSize[device[w]]
      => WindowReach(w, off, 1, h) # Nowhere

=============================================================================
