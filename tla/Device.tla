-------------------------------- MODULE Device --------------------------------
(***************************************************************************)
(* The device manager, kernel/device.c: a list of devices, searched by     *)
(* name, newest first.  A device is kept as its block, its name and the    *)
(* operations its ops table has.  A driver allocates a device, registers   *)
(* it, and from then on the list owns it: unregister_device frees it.      *)
(***************************************************************************)
EXTENDS HeapClient

CONSTANTS
    DriverNames,     \* names of the devices drivers bring
    MaxOwned         \* bound: devices allocated and not registered

VARIABLES
    device_list,     \* the registered devices, newest first
    owned            \* devices that drivers have allocated and still own

StdDevices == <<"null", "zero", "console">>
DeviceNames == DriverNames \cup {StdDevices[i] : i \in DOMAIN StdDevices}
StdOps == {"init", "read", "write"}
DriverOps == {"init", "read", "seek"}
Dev(b, name, ops) == [blk |-> b, name |-> name, ops |-> ops]

DeviceInit == device_list = <<>> /\ owned = {}

\* The walk from the head: the devices called name, first one first.
Matches(name) == {i \in DOMAIN device_list : device_list[i].name = name}
get_device(name) == IF Matches(name) = {} THEN NULL ELSE Min(Matches(name))

ListedUnchecked(d) == <<d>> \o device_list   \* mutant of Listed

\* register_device's new list: d in front, or the old one if its name is taken.
Listed(d) == IF get_device(d.name) # NULL THEN device_list ELSE <<d>> \o device_list

\* init_devices: one standard device; without memory it is left out.
init_devices ==
    /\ boot # <<>>
    /\ \E i \in DOMAIN StdDevices : Head(boot) = StdDevices[i]
    /\ \E b \in kmalloc(heap) :
         IF b = NULL
         THEN UNCHANGED <<heap, device_list>>
         ELSE /\ heap' = heap \cup {b}
              /\ device_list' = Listed(Dev(b, Head(boot), StdOps))
    /\ boot' = Tail(boot)
    /\ ret' = 0
    /\ UNCHANGED owned

\* A driver allocates and fills in a device; without memory it has only NULL to
\* register, which is refused.
NewDevice(name) ==
    /\ Up
    /\ Cardinality(owned) < MaxOwned
    /\ \E b \in kmalloc(heap) :
         IF b = NULL
         THEN ret' = -1 /\ UNCHANGED <<heap, owned>>
         ELSE /\ ret' = 0
              /\ heap' = heap \cup {b}
              /\ owned' = owned \cup {Dev(b, name, DriverOps)}
    /\ UNCHANGED <<boot, device_list>>

\* register_device, also of a device that is registered already: its own name
\* is found.  A device that is refused stays its driver's.
register_device(d) ==
    /\ Up
    /\ device_list' = Listed(d)
    /\ IF device_list' = device_list
       THEN ret' = -1 /\ UNCHANGED owned
       ELSE ret' = 0 /\ owned' = owned \ {d}
    /\ UNCHANGED <<heap, boot>>

unregister_device(name) ==
    LET i == get_device(name) IN
    /\ Up
    /\ IF i = NULL
       THEN ret' = -1 /\ UNCHANGED <<heap, device_list>>
       ELSE /\ ret' = 0
            /\ heap' = heap \ {device_list[i].blk}
            /\ device_list' = RemoveAt(device_list, i)
    /\ UNCHANGED <<boot, owned>>

\* device_read, device_write, device_seek and device_ioctl: -1 without such a
\* device or without that operation, else what the operation returns.
device_op(name, op) ==
    LET i == get_device(name) IN
    /\ Up
    /\ ret' = IF i = NULL THEN -1 ELSE IF op \in device_list[i].ops THEN 0 ELSE -1
    /\ UNCHANGED <<heap, boot, device_list, owned>>

DeviceNext ==
    \/ init_devices
    \/ \E name \in DriverNames : NewDevice(name)
    \/ \E d \in owned \cup {device_list[i] : i \in DOMAIN device_list} : register_device(d)
    \/ \E name \in DeviceNames :
         unregister_device(name) \/ \E op \in {"read", "write", "seek", "ioctl"} : device_op(name, op)

-----------------------------------------------------------------------------
\* The blocks of the devices, registered or not.
DeviceBlocks == {d.blk : d \in owned} \cup {device_list[i].blk : i \in DOMAIN device_list}

\* The list implements the registry: a second device of a name is refused, and
\* what is unregistered is found no more.
Entries == [n \in DeviceNames |-> {device_list[i].blk : i \in Matches(n)}]
Names == INSTANCE Registry WITH Names <- DeviceNames, Devices <- Blocks, entries <- Entries
ImplementsRegistry == Names!Spec
===============================================================================
