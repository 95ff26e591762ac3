-------------------------------- MODULE Pci --------------------------------
(***************************************************************************)
(* PCI: the scan of the buses in drivers/pci/pci.c, the table of what it   *)
(* finds, and what nvme_init does with it: look up its controller, switch  *)
(* it on, and read from its base address registers where it is.            *)
(*                                                                         *)
(* The machine (external) has functions, each of which answers at one      *)
(* address of configuration space or, when it does not look at the         *)
(* function number, at several.  Of a function's registers there are the   *)
(* class, the command bits pci_enable_device is about, and the base        *)
(* address registers, as numbers.  Only kmain is here, before there are    *)
(* tasks: each call is one step.                                           *)
(***************************************************************************)
EXTENDS Integers, Sequences, FiniteSets, SequencesExt

CONSTANTS
  Machines,    \* sets of functions
  LastAddress, \* bus, device and function as one number, in the order of the scan
  MaxDevices,  \* PCI_MAX_DEVICES
  Word         \* what a base address register counts to: 2^32

Addresses == 0..LastAddress

\* `base` is where the function's registers are, `wide` that two base address
\* registers hold it.  The firmware has placed every controller.
Functions ==
  [class : {"nvme", "other"}, at : SUBSET Addresses, wide : BOOLEAN, base : Nat]

ASSUME PciAssumption ==
  /\ LastAddress \in Nat
  /\ MaxDevices \in Nat \ {0}
  /\ Word \in Nat \ {0} /\ Word % 16 = 0
  /\ \A m \in Machines :
       /\ m \subseteq Functions
       /\ \A f \in m : /\ f.at # {}
                       /\ f.base > 0 /\ f.base % 16 = 0
                       /\ f.wide \/ f.base < Word
       /\ \A f, g \in m : f.at \cap g.at # {} => f = g

NoDevice == -1

VARIABLES
  machine,   \* the functions there are
  command,   \* their command registers: the bits that are set
  devices,   \* the table: the addresses found; device_count is its length
  pci,       \* the address of the controller, or NoDevice
  bar0       \* controller.bar0

pciVars == <<machine, command, devices, pci, bar0>>

----------------------------------------------------------------------------
(* Configuration space; Bad... as in Scheduler                             *)

\* What answers at an address: a function, or none, and pci_read16 returns 0xFFFF.
Answering(a) == {f \in machine : a \in f.at}

FunctionAt(a) == CHOOSE f \in Answering(a) : TRUE

\* The base address registers: bit 0 marks an I/O port, bits 1 and 2 a register
\* that goes on in the next, and the base is in the others.
BarRegister(f, i) ==
  CASE i = 0 -> (f.base % Word) + (IF f.wide THEN 4 ELSE 0)
    [] i = 1 /\ f.wide -> f.base \div Word
    [] OTHER -> 0

----------------------------------------------------------------------------
(* pci.c                                                                   *)

\* pci_scan_device, with the table so far.
PciScanDevice(table, a) ==
  IF Answering(a) = {} \/ Len(table) >= MaxDevices THEN table ELSE Append(table, a)

\* pci_scan: the table before each address is looked at, and at the end.
PciScan ==
  LET table[a \in 0..LastAddress + 1] ==
        IF a = 0 THEN <<>> ELSE PciScanDevice(table[a - 1], a - 1)
  IN  table[LastAddress + 1]

\* The entries pci_find has to choose from.
OfClass(class) == {i \in DOMAIN devices : FunctionAt(devices[i]).class = class}

PciFind(class) == devices[Min(OfClass(class))]

\* The bits pci_enable_device sets.
Enabled == {"memory", "master", "no_intx"}

\* One that takes the low half for the whole.
BadPciBar(f, i) == (BarRegister(f, i) \div 16) * 16

\* pci_bar
PciBar(f, i) ==
  LET low  == BarRegister(f, i)
      base == (low \div 16) * 16
  IN  CASE i >= 6 \/ low % 2 = 1 -> 0
        [] i < 6 /\ low % 2 = 0 /\ (low \div 2) % 4 = 2 -> BarRegister(f, i + 1) * Word + base
        [] OTHER -> base

----------------------------------------------------------------------------
(* The calls kmain and nvme_init make                                      *)

PciStart ==
  /\ machine \in Machines
  /\ command \in [machine -> {{}, {"memory"}}]
  /\ devices = <<>>
  /\ pci = NoDevice
  /\ bar0 = 0

\* pci_init
PciInit ==
  /\ devices' = PciScan
  /\ UNCHANGED <<machine, command, pci, bar0>>

\* pci_enable_device and pci_bar of the first NVMe controller in the table.
TakeController ==
  LET a == PciFind("nvme")
      f == FunctionAt(a)
  IN  /\ pci' = a
      /\ command' = [command EXCEPT ![f] = @ \cup Enabled]
      /\ bar0' = PciBar(f, 0)
      /\ UNCHANGED <<machine, devices>>

----------------------------------------------------------------------------
(* Properties                                                              *)

\* What controllers the machine has.
Controllers == {f \in machine : f.class = "nvme"}

\* The address taken is a controller's, the base is where its registers are, above
\* 4 GiB or below (pci.c:135), and it decodes them and may reach memory (pci.c:61).
RegistersDecoded ==
  /\ pci # NoDevice
  /\ FunctionAt(pci) \in Controllers
  /\ bar0 = FunctionAt(pci).base
  /\ {"memory", "master"} \subseteq command[FunctionAt(pci)]
=============================================================================
