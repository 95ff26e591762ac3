----------------------------- MODULE NvmeProofs -----------------------------
(***************************************************************************)
(* Proofs about PCI and the NVMe driver, for all machines, every size of   *)
(* the table and of the rings, and any number of commands: the controller  *)
(* is found and reached, the doorbells rung are of queues it knows, and on *)
(* the first lap every answer is that of the command it is taken for.      *)
(***************************************************************************)
EXTENDS Nvme, ListProofs, FiniteSetTheorems

----------------------------------------------------------------------------
(* The scan                                                                *)

\* pci_scan's table before address a is looked at.
Scan[a \in 0..LastAddress + 1] ==
  IF a = 0 THEN <<>> ELSE PciScanDevice(Scan[a - 1], a - 1)

\* A table that lists the addresses below a that answer, in order, until it is full.
Scanned(table, a) ==
  /\ table \in Seq(Addresses)
  /\ Len(table) <= MaxDevices
  /\ \A i \in 1..Len(table) : table[i] < a /\ Answering(table[i]) # {}
  /\ \A i, j \in 1..Len(table) : i < j => table[i] < table[j]
  /\ \A b \in Addresses :
       b < a /\ Answering(b) # {} =>
         \/ \E i \in 1..Len(table) : table[i] = b
         \/ Len(table) = MaxDevices /\ \A i \in 1..Len(table) : table[i] < b

LEMMA ScanDefined ==
  /\ PciScan = Scan[LastAddress + 1]
  /\ Scan[0] = <<>>
  /\ \A a \in 1..LastAddress + 1 : Scan[a] = PciScanDevice(Scan[a - 1], a - 1)
<1> DEFINE T == Seq(Addresses)
           N == LastAddress + 1
           step == [i \in 1..N |-> [table \in T |-> PciScanDevice(table, i - 1)]]
<1>1. N \in Nat /\ <<>> \in T
  BY PciAssumption
<1>2. ASSUME NEW i \in 1..N, NEW table \in T
      PROVE  PciScanDevice(table, i - 1) \in T
  <2>1. i - 1 \in Addresses BY PciAssumption DEF Addresses
  <2>2. Append(table, i - 1) \in T BY <2>1
  <2> QED BY <2>2 DEF PciScanDevice
<1>3. Closed(step, N, T)
  BY <1>2 DEF Closed
<1> HIDE DEF T, N, step
<1>4. PICK f \in [0..N -> T] : Turns(f, <<>>, N, step)
  BY <1>1, <1>3, Iterates
<1>6. ASSUME NEW i \in 1..N PROVE step[i][f[i - 1]] = PciScanDevice(f[i - 1], i - 1)
  <2>1. f[i - 1] \in T BY <1>1
  <2> QED BY <2>1 DEF step
<1>7. f = [i \in 0..N |-> IF i = 0 THEN <<>> ELSE PciScanDevice(f[i - 1], i - 1)]
  <2>1. \A i \in 0..N : i # 0 => i \in 1..N BY <1>1
  <2> QED BY <1>1, <1>4, <1>6, <2>1 DEF Turns
<1>8. Scan = [i \in 0..N |-> IF i = 0 THEN <<>> ELSE PciScanDevice(Scan[i - 1], i - 1)]
  BY <1>7 DEF Scan, N
<1>9. Scan[0] = <<>> /\ \A a \in 1..N : Scan[a] = PciScanDevice(Scan[a - 1], a - 1)
  BY <1>1, <1>8
<1>10. PciScan = Scan[LastAddress + 1]
  BY DEF PciScan, Scan
<1> QED BY <1>9, <1>10 DEF N

LEMMA ScanStep ==
  ASSUME NEW a \in Addresses, NEW table, Scanned(table, a)
  PROVE  Scanned(PciScanDevice(table, a), a + 1)
<1>1. a \in Nat /\ Addresses \subseteq Nat /\ MaxDevices \in Nat \ {0}
  BY PciAssumption DEF Addresses
<1>5. \A i \in 1..Len(table) : table[i] \in Addresses /\ table[i] < a
  BY DEF Scanned
<1>6. \A x \in Addresses : x < a => x < a + 1
  BY <1>1
<1>2. CASE Answering(a) = {}
  <2>1. PciScanDevice(table, a) = table BY <1>2 DEF PciScanDevice
  <2>2. \A b \in Addresses : b < a + 1 /\ Answering(b) # {} => b < a
    BY <1>1, <1>2
  <2>3. \A i \in 1..Len(table) : table[i] < a + 1
    BY <1>5, <1>6
  <2> QED BY <2>1, <2>2, <2>3 DEF Scanned
<1>3. CASE Answering(a) # {} /\ Len(table) >= MaxDevices
  <2>1. PciScanDevice(table, a) = table BY <1>3 DEF PciScanDevice
  <2>2. \A i \in 1..Len(table) : table[i] < a + 1
    BY <1>5, <1>6
  <2>3. Len(table) = MaxDevices
    BY <1>1, <1>3 DEF Scanned
  <2>4. \A b \in Addresses : b < a + 1 => b < a \/ b = a
    BY <1>1
  <2> QED BY <2>1, <2>2, <2>3, <2>4 DEF Scanned
<1>4. CASE Answering(a) # {} /\ ~(Len(table) >= MaxDevices)
  <2> DEFINE t == Append(table, a)
             n == Len(table)
  <2>1. PciScanDevice(table, a) = t BY <1>4 DEF PciScanDevice
  <2>2. table \in Seq(Addresses) BY DEF Scanned
  <2>3. /\ t \in Seq(Addresses) /\ n \in Nat /\ Len(t) = n + 1 /\ t[n + 1] = a
        /\ \A i \in 1..n : t[i] = table[i]
    BY <2>2
  <2> HIDE DEF t, n
  <2>4. n + 1 <= MaxDevices
    BY <1>1, <1>4, <2>3 DEF n
  <2>5. \A i \in 1..n : table[i] \in Addresses /\ table[i] < a /\ Answering(table[i]) # {}
    BY <2>2 DEF Scanned, n
  <2>6. \A i \in 1..n + 1 : t[i] < a + 1 /\ Answering(t[i]) # {}
    <3> TAKE i \in 1..n + 1
    <3>1. CASE i = n + 1
      <4>1. t[i] = a /\ a < a + 1 BY <3>1, <2>3, <1>1
      <4> QED BY <4>1, <1>4
    <3>2. CASE i \in 1..n BY <3>2, <2>3, <2>5, <1>6
    <3> QED BY <3>1, <3>2, <2>3
  <2>7. \A i, j \in 1..n + 1 : i < j => t[i] < t[j]
    <3> SUFFICES ASSUME NEW i \in 1..n + 1, NEW j \in 1..n + 1, i < j PROVE t[i] < t[j]
      OBVIOUS
    <3>0. i \in 1..n BY <2>3
    <3>1. CASE j = n + 1 BY <3>0, <3>1, <2>3, <2>5
    <3>2. CASE j \in 1..n BY <3>0, <3>2, <2>3 DEF Scanned, n
    <3> QED BY <3>1, <3>2, <2>3
  <2>8. ASSUME NEW b \in Addresses, b < a + 1, Answering(b) # {}
        PROVE  \/ \E i \in 1..n + 1 : t[i] = b
               \/ n + 1 = MaxDevices /\ \A i \in 1..n + 1 : t[i] < b
    <3>1. CASE b = a BY <3>1, <2>3
    <3>2. CASE b # a
      <4>1. b < a BY <1>1, <2>8, <3>2
      <4>2. n # MaxDevices BY <2>4, <2>3, <1>1
      <4>3. PICK i \in 1..n : table[i] = b
        BY <4>1, <4>2, <2>8 DEF Scanned, n
      <4> QED BY <4>3, <2>3
    <3> QED BY <3>1, <3>2
  <2> QED BY <2>1, <2>3, <2>4, <2>6, <2>7, <2>8 DEF Scanned
<1> QED BY <1>2, <1>3, <1>4

LEMMA ScanSound == Scanned(PciScan, LastAddress + 1)
<1> DEFINE N == LastAddress + 1
           Bad == {a \in 0..N : ~Scanned(Scan[a], a)}
<1>1. N \in Nat /\ 0 \in 0..N /\ N \in 0..N
  BY PciAssumption
<1>2. Scanned(Scan[0], 0)
  <2>1. <<>> \in Seq(Addresses) /\ Len(<<>>) = 0 /\ 0 <= MaxDevices
    BY PciAssumption
  <2>2. \A b \in Addresses : ~(b < 0)
    BY PciAssumption DEF Addresses
  <2>3. Scan[0] = <<>> BY ScanDefined
  <2>4. 1..0 = {} OBVIOUS
  <2> QED BY <2>1, <2>2, <2>3, <2>4 DEF Scanned
<1>3. Bad = {}
  <2> SUFFICES ASSUME Bad # {} PROVE FALSE
    OBVIOUS
  <2> DEFINE m == Min(Bad)
  <2>0. Bad \subseteq Nat
    OBVIOUS
  <2> HIDE DEF Bad
  <2>1. m \in Bad /\ \A k \in Bad : m <= k
    BY <2>0, MinIsLeast
  <2> HIDE DEF m
  <2>2. m \in 0..N /\ ~Scanned(Scan[m], m)
    BY <2>1 DEF Bad
  <2>3. m # 0
    BY <1>2, <2>2
  <2>4. m \in 1..N /\ m - 1 \in 0..N /\ m - 1 \in Addresses /\ ~(m <= m - 1) /\ (m - 1) + 1 = m
    BY <2>2, <2>3, PciAssumption DEF Addresses
  <2>5. Scanned(Scan[m - 1], m - 1)
    BY <2>1, <2>4 DEF Bad
  <2>6. Scan[m] = PciScanDevice(Scan[m - 1], m - 1)
    BY <2>4, ScanDefined
  <2> QED BY <2>2, <2>4, <2>5, <2>6, ScanStep
<1>4. Scanned(Scan[N], N)
  BY <1>1, <1>3
<1> QED BY <1>4, ScanDefined
----------------------------------------------------------------------------
(* The controller found                                                    *)

\* A number of 16 bytes, split at a multiple of 16.
LEMMA SplitAligned ==
  ASSUME NEW base \in Nat, NEW w \in Nat \ {0}, base % 16 = 0, w % 16 = 0
  PROVE  /\ base \div w \in Nat
         /\ \E k \in Nat : base % w = 16 * k
         /\ (base \div w) * w + (base % w) = base
<1>1. PICK b \in Nat : base = 16 * b
  <2>1. base \div 16 \in Nat /\ base = 16 * (base \div 16) OBVIOUS
  <2> QED BY <2>1
<1>2. PICK v \in Nat : w = 16 * v
  <2>1. w \div 16 \in Nat /\ w = 16 * (w \div 16) OBVIOUS
  <2> QED BY <2>1
<1> DEFINE q == base \div w
           r == base % w
<1>3. q \in Nat /\ r \in Nat /\ base = w * q + r
  OBVIOUS
<1> HIDE DEF q, r
<1>4. w * q = 16 * (v * q)
  BY <1>2, <1>3
<1>5. v * q \in Nat
  BY <1>2, <1>3
<1>6. r = 16 * (b - v * q) /\ b - v * q \in Int
  BY <1>1, <1>3, <1>4, <1>5
<1>7. b - v * q \in Nat
  BY <1>3, <1>6
<1>8. q * w = w * q
  BY <1>3
<1> QED BY <1>3, <1>6, <1>7, <1>8 DEF q, r

\* pci_bar reads the base the firmware has given a function, in one register or two.
LEMMA BarIsBase ==
  ASSUME NEW f \in Functions, f.base % 16 = 0, f.wide \/ f.base < Word
  PROVE  PciBar(f, 0) = f.base
<1>1. f.base \in Nat /\ f.wide \in BOOLEAN
  BY DEF Functions
<1>2. Word \in Nat \ {0} /\ Word % 16 = 0
  BY PciAssumption
<1>3. CASE f.wide
  <2>1. PICK k \in Nat : f.base % Word = 16 * k
    BY <1>1, <1>2, SplitAligned
  <2>2. (f.base \div Word) * Word + 16 * k = f.base
    BY <1>1, <1>2, <2>1, SplitAligned
  <2>3. BarRegister(f, 0) = 16 * k + 4
    BY <1>3, <2>1 DEF BarRegister
  <2>4. BarRegister(f, 1) = f.base \div Word
    BY <1>3 DEF BarRegister
  <2>5. /\ (16 * k + 4) % 2 = 0 /\ ((16 * k + 4) \div 2) % 4 = 2
        /\ ((16 * k + 4) \div 16) * 16 = 16 * k
    <3>1. (16 * k + 4) % 2 = 0 OBVIOUS
    <3>2. (16 * k + 4) \div 2 = 8 * k + 2 OBVIOUS
    <3>3. (8 * k + 2) % 4 = 2 OBVIOUS
    <3>4. (16 * k + 4) \div 16 = k OBVIOUS
    <3> QED BY <3>1, <3>2, <3>3, <3>4
  <2> QED BY <2>2, <2>3, <2>4, <2>5 DEF PciBar
<1>4. CASE ~f.wide
  <2>1. PICK k \in Nat : f.base = 16 * k
    <3>1. f.base \div 16 \in Nat /\ f.base = 16 * (f.base \div 16) BY <1>1
    <3> QED BY <3>1
  <2>2. f.base % Word = f.base
    BY <1>1, <1>2, <1>4
  <2>3. BarRegister(f, 0) = 16 * k
    BY <1>4, <2>1, <2>2 DEF BarRegister
  <2>4. /\ (16 * k) % 2 = 0 /\ ((16 * k) \div 2) % 4 = 0
        /\ ((16 * k) \div 16) * 16 = 16 * k
    <3>1. (16 * k) % 2 = 0 OBVIOUS
    <3>2. (16 * k) \div 2 = 8 * k OBVIOUS
    <3>3. (8 * k) % 4 = 0 OBVIOUS
    <3>4. (16 * k) \div 16 = k OBVIOUS
    <3> QED BY <3>1, <3>2, <3>3, <3>4
  <2> QED BY <2>1, <2>3, <2>4 DEF PciBar
<1> QED BY <1>1, <1>3, <1>4

\* What the table says of the machine once it is made, and what nvme_init makes of it.
Probed ==
  /\ machine \in Machines
  /\ command \in [machine -> SUBSET Enabled]
  /\ at # "boot" => Scanned(devices, LastAddress + 1)
  /\ at = "none" => OfClass("nvme") = {}
  /\ at \notin {"boot", "pci", "none"} => RegistersDecoded

LEMMA FunctionFound ==
  ASSUME machine \in Machines, NEW a, Answering(a) # {}
  PROVE  /\ FunctionAt(a) \in machine /\ a \in FunctionAt(a).at
         /\ \A f \in machine : a \in f.at => f = FunctionAt(a)
<1>1. FunctionAt(a) \in Answering(a)
  BY DEF FunctionAt
<1>2. FunctionAt(a) \in machine /\ a \in FunctionAt(a).at
  BY <1>1 DEF Answering
<1>3. \A f, g \in machine : f.at \cap g.at # {} => f = g
  BY PciAssumption
<1> QED BY <1>2, <1>3

LEMMA ControllerFound ==
  ASSUME Probed, at = "pci", FindController
  PROVE  Probed'
<1>1. Scanned(devices, LastAddress + 1)
  BY DEF Probed
<1>2. CASE OfClass("nvme") = {}
  BY <1>1, <1>2 DEF FindController, pciVars, Probed, Scanned, Answering, OfClass, FunctionAt
<1>3. CASE OfClass("nvme") # {}
  <2> DEFINE i == Min(OfClass("nvme"))
             a == PciFind("nvme")
             f == FunctionAt(a)
  <2>1. OfClass("nvme") \subseteq Nat
    BY <1>1 DEF OfClass, Scanned
  <2>2. i \in OfClass("nvme")
    BY <1>3, <2>1, MinIsLeast
  <2>3. a = devices[i] /\ i \in 1..Len(devices) /\ FunctionAt(devices[i]).class = "nvme"
    BY <1>1, <2>2 DEF PciFind, OfClass, Scanned
  <2>4. a \in Addresses /\ Answering(a) # {} /\ f.class = "nvme"
    BY <1>1, <2>3 DEF Scanned
  <2>5. f \in machine
    BY <2>4, FunctionFound DEF Probed
  <2> HIDE DEF i, a, f
  <2>6. f \in Functions /\ f.base % 16 = 0 /\ (f.wide \/ f.base < Word)
    BY <2>5, PciAssumption DEF Probed
  <2>7. PciBar(f, 0) = f.base
    BY <2>6, BarIsBase
  <2>8. /\ at' = "init" /\ pci' = a /\ bar0' = PciBar(f, 0)
        /\ command' = [command EXCEPT ![f] = @ \cup Enabled]
        /\ UNCHANGED <<machine, devices>>
    BY <1>3 DEF FindController, TakeController, a, f
  <2>9. command' \in [machine -> SUBSET Enabled] /\ command'[f] = Enabled
    BY <2>5, <2>8 DEF Probed
  <2>10. FunctionAt(pci)' = f
    BY <2>8 DEF FunctionAt, Answering, f
  <2>11. RegistersDecoded'
    <3>1. pci' # NoDevice
      BY <2>4, <2>8, PciAssumption DEF Addresses, NoDevice
    <3>2. f \in Controllers'
      BY <2>4, <2>5, <2>8 DEF Controllers
    <3> QED BY <3>1, <3>2, <2>7, <2>8, <2>9, <2>10 DEF RegistersDecoded, Enabled
  <2>12. Scanned(devices, LastAddress + 1)'
    BY <1>1, <2>8 DEF Scanned, Answering
  <2> QED BY <2>8, <2>9, <2>11, <2>12 DEF Probed
<1> QED BY <1>2, <1>3
----------------------------------------------------------------------------
(* The inductive invariant                                                 *)

Early == {"boot", "pci", "none", "init", "disable", "stopping", "configure", "start", "starting"}

AdminQueues == {"admin_sq", "admin_cq"}

IoQueues == {"io_sq", "io_cq"}

\* Nothing has been sent.
Idle ==
  /\ EmptyRings
  /\ spinning = 0 /\ submitted = 0 /\ answers = <<>>
  /\ fetched = [q \in Queues |-> 0] /\ posted = [q \in Queues |-> 0]
  /\ running = {}
  /\ done = [n \in Commands |-> "not yet"]

CommandSet == [cid : AdminCommands \cup IoCommands \cup {0}, no : Commands \cup {0}]

CompletionSet ==
  [cid : AdminCommands \cup IoCommands \cup {0}, ok : BOOLEAN, no : Commands \cup {0}]

\* What TypeOK says of the rings, with the domains it leaves out.
Shaped ==
  /\ sq \in [Queues -> [0..Size - 1 -> CommandSet]]
  /\ cq \in [Queues -> [0..Size - 1 -> CompletionSet]]
  /\ sq_tail \in [Queues -> 0..Size - 1] /\ cq_head \in [Queues -> 0..Size - 1]
  /\ fetched \in [Queues -> 0..Size - 1] /\ posted \in [Queues -> 0..Size - 1]
  /\ doorbell \in [Queues -> [sq : 0..Size - 1, cq : 0..Size - 1]]
  /\ running \subseteq CommandSet

\* How far the controller is: it is stopped before it is given the admin queue, and
\* knows a queue once it has said so.
Phases ==
  /\ at \in Early => Idle
  /\ at \in {"boot", "pci", "none", "init", "disable"} => ready = enabled
  /\ at = "stopping" => ~enabled
  /\ at \in {"configure", "start"} => ~enabled /\ ~ready
  /\ at \in {"start", "starting"} => asq
  /\ at = "starting" => enabled /\ (ready => AdminQueues \subseteq known)
  /\ at \in {"admin", "io"} =>
       /\ enabled /\ ready /\ AdminQueues \subseteq known
       /\ done[CreateCq] = "ok" => "io_cq" \in known
       /\ done[CreateSq] = "ok" => "io_sq" \in known
  /\ at = "io" => IoQueues \subseteq known

\* The driver has one command out, and goes on only after a success.
Counted ==
  /\ spinning = 0 => submitted = Len(answers)
  /\ spinning # 0 => submitted = Len(answers) + 1 /\ at \in {"admin", "io"}
  /\ at = "admin" => /\ Len(answers) <= 3
                     /\ \A n \in 1..Len(answers) : answers[n] = "ok"
                     /\ spinning \in {0, submitted}
  /\ at = "io" => Len(answers) >= 4 /\ spinning \notin AdminCommands

\* Admin commands have their number for an identifier, and only they.
Tagged(c) == c.cid \in AdminCommands \/ c.no \in AdminCommands => c.cid = c.no

AllTagged ==
  /\ \A c \in running : Tagged(c)
  /\ \A q \in Queues : \A i \in 0..Size - 1 : Tagged(sq[q][i])

QueueOf(cid) == IF cid \in IoCommands THEN "io" ELSE "admin"

\* The command the driver waits for, if any, is the only one the controller has
\* to fetch or to complete.
OneOut ==
  /\ \A q \in Queues : doorbell[q].sq = sq_tail[q]
  /\ \A c \in running : spinning # 0 /\ c = Command(spinning, submitted)
  /\ \A q \in Queues :
       fetched[q] # sq_tail[q] =>
         /\ spinning # 0 /\ q = QueueOf(spinning)
         /\ Next1(fetched[q]) = sq_tail[q]
         /\ sq[q][fetched[q]] = Command(spinning, submitted)
         /\ running = {}

\* What lies at and behind the head of a completion ring no lap has filled: nothing,
\* or the answer the driver waits for.
Fresh(q) ==
  /\ \A i \in 0..Size - 1 : i > cq_head[q] => cq[q][i].cid = 0
  /\ \/ posted[q] = cq_head[q] /\ cq[q][cq_head[q]].cid = 0
     \/ /\ posted[q] = Next1(cq_head[q])
        /\ spinning # 0 /\ running = {} /\ fetched[q] = sq_tail[q]
        /\ cq[q][cq_head[q]].no = submitted
        /\ done[submitted] = IF cq[q][cq_head[q]].ok THEN "ok" ELSE "error"

FreshRings ==
  /\ at = "admin" => /\ cq_head["admin"] = Len(answers) /\ Fresh("admin")
                     /\ cq_head["io"] = 0 /\ posted["io"] = 0
                     /\ \A i \in 0..Size - 1 : cq["io"][i].cid = 0
  /\ at = "io" => cq_head["io"] = Len(answers) - 4 /\ Fresh("io")

\* The first lap of the I/O ring, as long as no command fails there.
FirstLap == Len(answers) <= Cardinality(AdminCommands) + Size /\ ~IoFailed

LapSound ==
  FirstLap => /\ OneOut
              /\ AnswersAreOwn
              /\ Len(answers) < 4 + Size => FreshRings

NvmeInv == Shaped /\ TypeOK /\ Probed /\ Phases /\ Counted /\ AllTagged /\ LapSound

LEMMA FourAdminCommands == Cardinality(AdminCommands) = 4
<1>1. ASSUME NEW a \in Int, NEW b \in Int, a <= b PROVE Cardinality(a..b) = b - a + 1
  BY <1>1, FS_Interval
<1>2. 1 \in Int /\ 4 \in Int /\ 1 <= 4
  OBVIOUS
<1>3. Cardinality(1..4) = 4 - 1 + 1
  BY <1>1, <1>2, Zenon
<1> QED BY <1>3 DEF AdminCommands

LEMMA AllCommands == Commands = 1..4 + MaxIo /\ MaxIo \in Nat /\ Size \in Nat /\ Size >= 4
BY FourAdminCommands, NvmeAssumption DEF Commands

LEMMA NextInRing ==
  ASSUME NEW i \in 0..Size - 1
  PROVE  Next1(i) \in 0..Size - 1 /\ Next1(i) # i
BY AllCommands DEF Next1

----------------------------------------------------------------------------
(* The start                                                               *)

\* Nothing has been sent, nor need it have been.
Unsent ==
  /\ Idle
  /\ at \in Early \cup {"admin", "failed"}
  /\ asq \in BOOLEAN /\ enabled \in BOOLEAN /\ ready \in BOOLEAN
  /\ known \subseteq AdminQueues \cup IoQueues

LEMMA ShapeTypes ==
  Shaped =>
    \A q \in Queues :
      /\ sq[q] \in [0..Size - 1 -> [cid : AdminCommands \cup IoCommands \cup {0},
                                    no : Commands \cup {0}]]
      /\ cq[q] \in [0..Size - 1 -> [cid : AdminCommands \cup IoCommands \cup {0},
                                    ok : BOOLEAN, no : Commands \cup {0}]]
      /\ {sq_tail[q], cq_head[q], fetched[q], posted[q], doorbell[q].sq, doorbell[q].cq}
           \subseteq 0..Size - 1
BY DEF Shaped, CommandSet, CompletionSet

LEMMA UnsentTypes == Unsent => Shaped /\ TypeOK
<1> SUFFICES ASSUME Unsent PROVE Shaped /\ TypeOK
  OBVIOUS
<1> USE DEF Unsent
<1>1. Size \in Nat /\ Size >= 4 /\ 0 \in 0..Size - 1
  BY AllCommands
<1>2. Shaped
  <2>1. Command(0, 0) \in CommandSet
    BY DEF Command, CommandSet
  <2>2. Completion(0, TRUE, 0) \in CompletionSet
    BY DEF Completion, CompletionSet
  <2>3. running = {} BY DEF Idle
  <2>4. sq \in [Queues -> [0..Size - 1 -> CommandSet]]
    BY <2>1 DEF Idle, EmptyRings
  <2>5. cq \in [Queues -> [0..Size - 1 -> CompletionSet]]
    BY <2>2 DEF Idle, EmptyRings
  <2> QED BY <1>1, <2>3, <2>4, <2>5 DEF Idle, EmptyRings, Shaped
<1>3. answers \in Seq({"ok", "error"})
  <2>1. answers = <<>> BY DEF Idle
  <2> QED BY <2>1
<1>4. done \in [Commands -> {"not yet", "ok", "error"}] /\ submitted = 0 /\ spinning = 0
  BY DEF Idle
<1>5. at \in {"boot", "pci", "none", "init", "disable", "stopping", "configure", "start", "starting",
             "admin", "io", "failed"}
  BY DEF Early
<1>6. known \subseteq {"admin_sq", "admin_cq", "io_sq", "io_cq"}
  BY DEF AdminQueues, IoQueues
<1> QED BY <1>2, <1>3, <1>4, <1>5, <1>6, ShapeTypes DEF TypeOK

LEMMA UnsentSound == Unsent => Counted /\ AllTagged /\ LapSound
<1> SUFFICES ASSUME Unsent PROVE Counted /\ AllTagged /\ LapSound
  OBVIOUS
<1>9. Idle /\ at # "io"
  BY DEF Unsent, Early
<1>0. answers = <<>> /\ Len(answers) = 0 /\ DOMAIN answers = {} /\ spinning = 0 /\ submitted = 0
  <2>1. Len(<<>>) = 0 /\ DOMAIN <<>> = {} OBVIOUS
  <2> QED BY <1>9, <2>1 DEF Idle
<1>1. Counted
  BY <1>0, <1>9 DEF Counted
<1>2. AllTagged
  BY <1>9, AllCommands DEF Idle, EmptyRings, AllTagged, Tagged, Command, AdminCommands
<1>3. OneOut
  BY <1>9 DEF Idle, EmptyRings, OneOut
<1>4. AnswersAreOwn
  BY <1>0 DEF AnswersAreOwn
<1>5. FreshRings
  <2>1. 0 \in 0..Size - 1 BY AllCommands
  <2>2. \A q \in Queues : cq_head[q] = 0 /\ posted[q] = 0 /\ \A i \in 0..Size - 1 : cq[q][i].cid = 0
    BY <1>9 DEF Idle, EmptyRings, Completion
  <2> QED BY <1>0, <1>9, <2>1, <2>2 DEF FreshRings, Fresh, Queues
<1>6. LapSound
  BY <1>3, <1>4, <1>5 DEF LapSound
<1> QED BY <1>1, <1>2, <1>6

LEMMA UnsentIsSound == Unsent => Shaped /\ TypeOK /\ Counted /\ AllTagged /\ LapSound
BY UnsentTypes, UnsentSound

LEMMA NvmeStart == Init => NvmeInv
<1> SUFFICES ASSUME Init PROVE NvmeInv
  OBVIOUS
<1>1. Idle /\ at = "boot" /\ asq = FALSE /\ enabled \in BOOLEAN /\ ready = enabled /\ known = {}
  BY DEF Init, Idle
<1>5. Unsent
  BY <1>1 DEF Unsent, Early
<1>2. Shaped /\ TypeOK
  BY <1>5, UnsentTypes
<1>3. Probed
  BY <1>1 DEF Init, PciStart, Probed, Enabled
<1>4. Phases
  BY <1>1 DEF Phases
<1> QED BY <1>2, <1>3, <1>4, <1>5, UnsentSound DEF NvmeInv
----------------------------------------------------------------------------
(* Starting and stopping                                                   *)

workVars == <<ringVars, waitVars, fetched, posted, running, done>>

\* Only the scan and nvme_init's lookup change what is known of the machine.
LEMMA ProbedKept ==
  ASSUME Probed, UNCHANGED pciVars,
         at' = at \/ {at, at'} \cap {"boot", "pci", "none"} = {}
  PROVE  Probed'
<1>1. UNCHANGED <<machine, command, devices, pci, bar0>>
  BY DEF pciVars
<1>2. (RegistersDecoded' <=> RegistersDecoded) /\ OfClass("nvme")' = OfClass("nvme")
  BY <1>1 DEF RegistersDecoded, FunctionAt, Answering, Controllers, OfClass
<1>3. Scanned(devices, LastAddress + 1)' <=> Scanned(devices, LastAddress + 1)
  BY <1>1 DEF Scanned, Answering
<1>4. at' = "boot" <=> at = "boot"
  OBVIOUS
<1>5. at' = "none" <=> at = "none"
  OBVIOUS
<1>6. at' \in {"boot", "pci", "none"} <=> at \in {"boot", "pci", "none"}
  OBVIOUS
<1> QED BY <1>1, <1>2, <1>3, <1>4, <1>5, <1>6 DEF Probed

\* As long as nothing has been sent, the phases are all there is to keep.
LEMMA IdleKept ==
  ASSUME NvmeInv, at \in Early, at' \in Early \cup {"admin", "failed"}, UNCHANGED workVars,
         {asq, enabled, ready}' \subseteq BOOLEAN, known' \subseteq AdminQueues \cup IoQueues,
         Probed', Phases'
  PROVE  NvmeInv'
<1>1. Idle'
  <2>1. Idle BY DEF NvmeInv, Phases
  <2> QED BY <2>1 DEF workVars, ringVars, waitVars, Idle, EmptyRings
<1>2. Unsent'
  BY <1>1 DEF Unsent
<1>3. (Unsent => Shaped /\ TypeOK /\ Counted /\ AllTagged /\ LapSound)'
  BY UnsentIsSound, PTL
<1> QED BY <1>2, <1>3 DEF NvmeInv

LEMMA EarlyTypes ==
  ASSUME NvmeInv
  PROVE  /\ {asq, enabled, ready} \subseteq BOOLEAN
         /\ known \subseteq AdminQueues \cup IoQueues
BY DEF NvmeInv, TypeOK, AdminQueues, IoQueues

LEMMA ScanKeeps ==
  ASSUME NvmeInv, ScanBuses
  PROVE  NvmeInv'
<1>1. at = "boot" /\ at' = "pci" /\ UNCHANGED nvmeVars
  BY DEF ScanBuses
<1>2. UNCHANGED workVars /\ UNCHANGED <<asq, enabled, ready, known>>
  BY <1>1 DEF nvmeVars, deviceVars, workVars
<1>3. Probed'
  <2>1. devices' = PciScan /\ machine' = machine /\ command' = command
    BY DEF ScanBuses, PciInit
  <2>2. Scanned(devices, LastAddress + 1)'
    BY <2>1, ScanSound DEF Scanned, Answering
  <2> QED BY <1>1, <2>1, <2>2 DEF NvmeInv, Probed
<1>4. Idle'
  BY <1>1, <1>2 DEF NvmeInv, Phases, Early, workVars, ringVars, waitVars, Idle, EmptyRings
<1>5. Phases'
  BY <1>1, <1>2, <1>4 DEF NvmeInv, Phases
<1> QED BY <1>1, <1>2, <1>3, <1>5, EarlyTypes, IdleKept DEF Early

LEMMA FindKeeps ==
  ASSUME NvmeInv, FindController
  PROVE  NvmeInv'
<1>1. at = "pci" /\ at' \in {"none", "init"} /\ UNCHANGED nvmeVars
  BY DEF FindController
<1>2. UNCHANGED workVars /\ UNCHANGED <<asq, enabled, ready, known>>
  BY <1>1 DEF nvmeVars, deviceVars, workVars
<1>3. Probed'
  BY <1>1, ControllerFound DEF NvmeInv
<1>4. Idle'
  BY <1>1, <1>2 DEF NvmeInv, Phases, Early, workVars, ringVars, waitVars, Idle, EmptyRings
<1>5. Phases'
  BY <1>1, <1>2, <1>4 DEF NvmeInv, Phases
<1> QED BY <1>1, <1>2, <1>3, <1>5, EarlyTypes, IdleKept DEF Early

LEMMA StartupKeeps ==
  ASSUME NvmeInv, UNCHANGED pciVars,
         AdminQueueInit \/ DisableController \/ SetAdminQueue \/ ControllerStart
  PROVE  NvmeInv'
<1>1. at \in {"init", "disable", "stopping", "configure", "start", "starting"} /\ at \in Early
  BY DEF AdminQueueInit, DisableController, SetAdminQueue, ControllerStart, Early
<1>2. at' \in {"disable", "stopping", "configure", "start", "starting", "admin", "failed"}
      /\ at' \in Early \cup {"admin", "failed"}
  BY DEF AdminQueueInit, DisableController, SetAdminQueue, ControllerStart, Early
<1>3. UNCHANGED workVars /\ UNCHANGED <<ready, known>>
  BY DEF AdminQueueInit, DisableController, SetAdminQueue, ControllerStart, deviceVars, workVars
<1>4. {asq, enabled, ready}' \subseteq BOOLEAN /\ known' \subseteq AdminQueues \cup IoQueues
  BY <1>3, EarlyTypes
  DEF AdminQueueInit, DisableController, SetAdminQueue, ControllerStart
<1>5. Probed'
  BY <1>1, <1>2, ProbedKept DEF NvmeInv
<1>6. Idle /\ Idle'
  BY <1>1, <1>3 DEF NvmeInv, Phases, workVars, ringVars, waitVars, Idle, EmptyRings
<1>7. done'[CreateCq] = "not yet" /\ done'[CreateSq] = "not yet"
  <2>1. CreateCq \in Commands /\ CreateSq \in Commands
    BY AllCommands DEF CreateCq, CreateSq
  <2>2. done' = [n \in Commands |-> "not yet"]
    BY <1>6 DEF Idle
  <2> QED BY <2>1, <2>2
<1>8. Phases'
  <2>1. CASE AdminQueueInit
    BY <2>1, <1>3, <1>6 DEF AdminQueueInit, NvmeInv, Phases
  <2>2. CASE DisableController
    BY <2>2, <1>3, <1>6 DEF DisableController, NvmeInv, Phases
  <2>3. CASE SetAdminQueue
    BY <2>3, <1>3, <1>6 DEF SetAdminQueue, NvmeInv, Phases
  <2>4. CASE ControllerStart
    BY <2>4, <1>3, <1>6, <1>7 DEF ControllerStart, NvmeInv, Phases
  <2> QED BY <2>1, <2>2, <2>3, <2>4
<1> QED BY <1>1, <1>2, <1>3, <1>4, <1>5, <1>8, IdleKept

\* The controller stops and starts as it is told, never while it is in use.
LEMMA PowerKeeps ==
  ASSUME NvmeInv, UNCHANGED pciVars, Stop \/ Start
  PROVE  NvmeInv'
<1>1. at' = at /\ UNCHANGED workVars /\ UNCHANGED <<asq, enabled>>
      /\ ready' \in BOOLEAN /\ known' \subseteq AdminQueues
  BY DEF Stop, Start, workVars, AdminQueues
<1>2. Probed'
  BY <1>1, ProbedKept DEF NvmeInv
<1>3. at \in Early \cup {"failed"}
  BY DEF Stop, Start, NvmeInv, Phases, TypeOK, Early
<1>4. CASE at \in Early
  <2>1. Idle'
    BY <1>1, <1>4 DEF NvmeInv, Phases, workVars, ringVars, waitVars, Idle, EmptyRings
  <2>2. Phases'
    <3>1. CASE Stop
      <4>1. ready /\ ~enabled BY <3>1 DEF Stop
      <4>2. ready # enabled BY <4>1
      <4>3. at = "stopping"
        BY <1>4, <4>1, <4>2 DEF NvmeInv, Phases, Early
      <4>4. at' = "stopping" /\ enabled' = enabled
        BY <1>1, <4>3
      <4>5. (at = "stopping" => ~enabled)'
        BY <4>1, <4>4
      <4> QED BY <2>1, <4>4, <4>5 DEF Phases
    <3>2. CASE Start
      <4>1. ~ready /\ enabled /\ at = "starting" /\ asq
        BY <1>4, <3>2 DEF Start, NvmeInv, Phases, Early
      <4>2. known' = AdminQueues
        BY <3>2, <4>1 DEF Start, AdminQueues
      <4>3. at' = "starting" /\ asq' = asq /\ enabled' = enabled
        BY <1>1, <4>1
      <4>4. asq' /\ enabled'
        BY <4>1, <4>3
      <4>5. (ready => AdminQueues \subseteq known)'
        BY <4>2
      <4> QED BY <2>1, <4>3, <4>4, <4>5 DEF Phases
    <3> QED BY <3>1, <3>2
  <2>3. {asq, enabled, ready}' \subseteq BOOLEAN
    BY <1>1, EarlyTypes
  <2> QED BY <1>1, <1>2, <1>4, <2>2, <2>3, IdleKept
<1>5. CASE at = "failed"
  <2>1. Phases'
    BY <1>1, <1>5 DEF Phases, Early
  <2>2. Shaped' /\ TypeOK'
    BY <1>1 DEF NvmeInv, Shaped, TypeOK, workVars, ringVars, waitVars, AdminQueues
  <2>3. Counted' /\ AllTagged' /\ LapSound'
    BY <1>1 DEF NvmeInv, Counted, AllTagged, LapSound, FirstLap, IoFailed, OneOut, AnswersAreOwn,
                FreshRings, Fresh, workVars, ringVars, waitVars
  <2> QED BY <1>2, <2>1, <2>2, <2>3 DEF NvmeInv
<1> QED BY <1>3, <1>4, <1>5----------------------------------------------------------------------------
(* Commands                                                                *)

\* The identifier the driver waits for says which queue it uses.
LEMMA WaitsOn ==
  ASSUME NvmeInv, spinning # 0
  PROVE  /\ at \in {"admin", "io"}
         /\ at = "admin" => /\ QueueOf(spinning) = "admin" /\ spinning = submitted
                            /\ spinning \in AdminCommands
         /\ at = "io" => QueueOf(spinning) = "io" /\ spinning \in IoCommands
<1>0. Len(answers) \in Nat
  <2>1. answers \in Seq({"ok", "error"}) BY DEF NvmeInv, TypeOK
  <2> QED BY <2>1
<1>1. at \in {"admin", "io"} /\ submitted = Len(answers) + 1 /\ Len(answers) \in Nat
  BY <1>0 DEF NvmeInv, Counted
<1>2. at = "admin" => spinning = submitted /\ submitted <= 4
  BY <1>1 DEF NvmeInv, Counted
<1>3. at = "io" => spinning \notin AdminCommands
  BY DEF NvmeInv, Counted
<1>4. spinning \in AdminCommands \cup IoCommands \cup {0}
  BY DEF NvmeInv, TypeOK
<1> QED BY <1>1, <1>2, <1>3, <1>4 DEF QueueOf, AdminCommands, IoCommands

\* TypeOK is kept by a step that keeps the rings well-formed.
LEMMA TypesKept ==
  ASSUME NvmeInv, Shaped', UNCHANGED <<asq, enabled, ready>>,
         at' \in {at, "io", "failed"}, spinning' \in AdminCommands \cup IoCommands \cup {0},
         submitted' \in Commands \cup {0}, answers' \in Seq({"ok", "error"}),
         known' \subseteq AdminQueues \cup IoQueues,
         done' \in [Commands -> {"not yet", "ok", "error"}]
  PROVE  TypeOK'
<1>1. (Shaped =>
    \A q \in Queues :
      /\ sq[q] \in [0..Size - 1 -> [cid : AdminCommands \cup IoCommands \cup {0},
                                    no : Commands \cup {0}]]
      /\ cq[q] \in [0..Size - 1 -> [cid : AdminCommands \cup IoCommands \cup {0},
                                    ok : BOOLEAN, no : Commands \cup {0}]]
      /\ {sq_tail[q], cq_head[q], fetched[q], posted[q], doorbell[q].sq, doorbell[q].cq}
           \subseteq 0..Size - 1)'
  BY ShapeTypes, PTL
<1>2. {asq, enabled, ready}' \subseteq BOOLEAN
  BY EarlyTypes
<1>3. at' \in {"boot", "pci", "none", "init", "disable", "stopping", "configure", "start",
               "starting", "admin", "io", "failed"}
  BY DEF NvmeInv, TypeOK
<1>4. known' \subseteq {"admin_sq", "admin_cq", "io_sq", "io_cq"}
  BY DEF AdminQueues, IoQueues
<1> QED BY <1>1, <1>2, <1>3, <1>4 DEF TypeOK

\* Before anything has been sent there is nothing to fetch or to complete.
LEMMA Sent ==
  ASSUME NvmeInv, running # {} \/ \E q \in Queues : fetched[q] # doorbell[q].sq
  PROVE  at \notin Early
<1> SUFFICES ASSUME Idle PROVE FALSE
  BY DEF NvmeInv, Phases
<1>1. running = {} BY DEF Idle
<1>2. \A q \in Queues : fetched[q] = 0 /\ doorbell[q].sq = 0 BY DEF Idle, EmptyRings
<1> QED BY <1>1, <1>2

LEMMA FetchKeeps ==
  ASSUME NvmeInv, UNCHANGED pciVars, NEW q \in Queues, Fetch(q)
  PROVE  NvmeInv'
<1> DEFINE c == sq[q][fetched[q]]
<1>0. Shaped /\ Phases /\ AllTagged /\ LapSound
  BY DEF NvmeInv
<1>1. /\ fetched[q] # doorbell[q].sq
      /\ fetched' = [fetched EXCEPT ![q] = Next1(fetched[q])]
      /\ running' = running \cup {c}
      /\ UNCHANGED <<at, asq, enabled, ready, known, done, posted>>
      /\ UNCHANGED <<sq, sq_tail, cq, cq_head, doorbell, spinning, submitted, answers>>
  BY DEF Fetch, ringVars, waitVars
<1>2. at \notin Early
  BY <1>1, Sent
<1>3. fetched[q] \in 0..Size - 1 /\ sq[q] \in [0..Size - 1 -> CommandSet]
  BY <1>0 DEF Shaped
<1>4. c \in CommandSet /\ Tagged(c) /\ Next1(fetched[q]) \in 0..Size - 1
  BY <1>0, <1>3, NextInRing DEF AllTagged
<1>5. Shaped'
  BY <1>0, <1>1, <1>4 DEF Shaped
<1>6. TypeOK'
  BY <1>1, <1>5, TypesKept, EarlyTypes DEF NvmeInv, TypeOK
<1>7. Probed'
  BY <1>1, ProbedKept DEF NvmeInv
<1>8. Phases'
  BY <1>0, <1>1, <1>2, EarlyTypes DEF Phases, Early
<1>9. Counted'
  BY <1>1 DEF NvmeInv, Counted
<1>10. AllTagged'
  BY <1>0, <1>1, <1>4 DEF AllTagged
<1>11. LapSound'
  <2> SUFFICES ASSUME FirstLap' PROVE LapSound'
    BY DEF LapSound
  <2>1. OneOut /\ AnswersAreOwn /\ (Len(answers) < 4 + Size => FreshRings)
    BY <1>0, <1>1 DEF LapSound, FirstLap, IoFailed
  <2>2. /\ fetched[q] # sq_tail[q] /\ spinning # 0 /\ q = QueueOf(spinning)
        /\ Next1(fetched[q]) = sq_tail[q] /\ c = Command(spinning, submitted) /\ running = {}
    BY <1>1, <2>1 DEF OneOut
  <2>3. fetched' \in [Queues -> 0..Size - 1] /\ fetched'[q] = sq_tail[q]
        /\ \A p \in Queues : p # q => fetched'[p] = fetched[p]
    BY <1>0, <1>1, <1>5, <2>2 DEF Shaped
  <2>4. OneOut'
    <3>1. \A p \in Queues : fetched'[p] = sq_tail'[p]
      BY <1>1, <2>1, <2>2, <2>3 DEF OneOut
    <3>2. \A d \in running' : spinning' # 0 /\ d = Command(spinning', submitted')
      BY <1>1, <2>2
    <3>3. \A p \in Queues : doorbell'[p].sq = sq_tail'[p]
      BY <1>1, <2>1 DEF OneOut
    <3> QED BY <3>1, <3>2, <3>3 DEF OneOut
  <2>5. AnswersAreOwn'
    BY <1>1, <2>1 DEF AnswersAreOwn
  <2>6. ASSUME FreshRings PROVE FreshRings'
    <3>1. q = "io" => at = "io"
      BY <2>2, WaitsOn
    <3>2. q = "admin" => at = "admin"
      BY <2>2, WaitsOn
    <3>3. ASSUME at = q, Fresh(q) PROVE Fresh(q)'
      BY <1>1, <2>2, <3>3 DEF Fresh
    <3> QED BY <1>1, <2>6, <3>1, <3>2, <3>3 DEF FreshRings, Queues
  <2> QED BY <1>1, <2>1, <2>4, <2>5, <2>6 DEF LapSound
<1> QED BY <1>5, <1>6, <1>7, <1>8, <1>9, <1>10, <1>11 DEF NvmeInv

\* A submission: with nothing out, its command becomes the one to be fetched.
LEMMA SubmitKeeps ==
  ASSUME NvmeInv, UNCHANGED pciVars, at \in {"admin", "io"},
         NEW c \in AdminCommands \cup IoCommands, NEW q \in Queues, q = QueueOf(c), Submit(q, c),
         submitted + 1 \in Commands, Tagged(Command(c, submitted + 1)),
         at = "admin" => c = submitted + 1, at = "io" => c \in IoCommands
  PROVE  NvmeInv'
<1> DEFINE t == sq_tail[q]
           d == Command(c, submitted + 1)
<1>0. Shaped /\ Phases /\ Counted /\ AllTagged /\ LapSound
  BY DEF NvmeInv
<1>1. /\ spinning = 0
      /\ sq' = [sq EXCEPT ![q] = [sq[q] EXCEPT ![t] = d]]
      /\ sq_tail' = [sq_tail EXCEPT ![q] = Next1(t)]
      /\ doorbell' = [doorbell EXCEPT ![q] = [doorbell[q] EXCEPT !.sq = Next1(t)]]
      /\ spinning' = c /\ submitted' = submitted + 1
      /\ UNCHANGED <<at, cq, cq_head, answers, asq, enabled>>
      /\ UNCHANGED <<ready, known, fetched, posted, running, done>>
  BY DEF Submit, Ring, deviceVars
<1>2. t \in 0..Size - 1 /\ Next1(t) \in 0..Size - 1 /\ Next1(t) # t
  BY <1>0, NextInRing DEF Shaped
<1>3. d \in CommandSet /\ c # 0
  BY DEF Command, CommandSet, AdminCommands, IoCommands
<1>4. sq[q] \in [0..Size - 1 -> CommandSet] /\ doorbell[q] \in [sq : 0..Size - 1, cq : 0..Size - 1]
  BY <1>0 DEF Shaped
<1>5. sq'[q] \in [0..Size - 1 -> CommandSet] /\ sq'[q][t] = d
      /\ \A i \in 0..Size - 1 : i # t => sq'[q][i] = sq[q][i]
  BY <1>0, <1>1, <1>2, <1>3, <1>4 DEF Shaped
<1>6. doorbell'[q] \in [sq : 0..Size - 1, cq : 0..Size - 1] /\ doorbell'[q].sq = Next1(t)
  BY <1>0, <1>1, <1>2, <1>4 DEF Shaped
<1>7. sq_tail'[q] = Next1(t)
  BY <1>0, <1>1 DEF Shaped
<1>8. ASSUME NEW p \in Queues, p # q
      PROVE sq'[p] = sq[p] /\ doorbell'[p] = doorbell[p] /\ sq_tail'[p] = sq_tail[p]
  BY <1>0, <1>1, <1>8 DEF Shaped
<1>9. Shaped'
  <2>1. sq' \in [Queues -> [0..Size - 1 -> CommandSet]]
    BY <1>0, <1>1, <1>5, <1>8 DEF Shaped
  <2>2. doorbell' \in [Queues -> [sq : 0..Size - 1, cq : 0..Size - 1]]
    BY <1>0, <1>1, <1>6, <1>8 DEF Shaped
  <2>3. sq_tail' \in [Queues -> 0..Size - 1]
    BY <1>0, <1>1, <1>2 DEF Shaped
  <2> QED BY <1>0, <1>1, <2>1, <2>2, <2>3 DEF Shaped
<1>10. TypeOK'
  BY <1>1, <1>9, TypesKept, EarlyTypes DEF NvmeInv, TypeOK
<1>11. Probed'
  BY <1>1, ProbedKept DEF NvmeInv
<1>12. Phases'
  BY <1>0, <1>1, EarlyTypes DEF Phases, Early
<1>13. Counted'
  <2>1. submitted' = Len(answers') + 1
    BY <1>0, <1>1 DEF Counted
  <2>2. at' = "io" => c \notin AdminCommands
    BY <1>1 DEF AdminCommands, IoCommands
  <2> QED BY <1>0, <1>1, <1>3, <2>1, <2>2 DEF Counted
<1>14. AllTagged'
  <2>1. \A i \in 0..Size - 1 : Tagged(sq'[q][i])
    BY <1>0, <1>5 DEF AllTagged
  <2> QED BY <1>0, <1>1, <1>8, <2>1 DEF AllTagged
<1>15. LapSound'
  <2> SUFFICES ASSUME FirstLap' PROVE LapSound'
    BY DEF LapSound
  <2>1. OneOut /\ AnswersAreOwn /\ (Len(answers) < 4 + Size => FreshRings)
    BY <1>0, <1>1 DEF LapSound, FirstLap, IoFailed
  <2>2. running = {} /\ \A p \in Queues : fetched[p] = sq_tail[p]
    BY <1>1, <2>1 DEF OneOut
  <2>3. OneOut'
    <3>1. \A p \in Queues : doorbell'[p].sq = sq_tail'[p]
      BY <1>6, <1>7, <1>8, <2>1 DEF OneOut
    <3>2. \A p \in Queues : fetched'[p] # sq_tail'[p] => p = q
      BY <1>1, <1>8, <2>2
    <3>3. fetched'[q] = t
      BY <1>1, <2>2
    <3> QED BY <1>1, <1>3, <1>5, <1>7, <2>2, <3>1, <3>2, <3>3 DEF OneOut
  <2>4. AnswersAreOwn'
    BY <1>1, <2>1 DEF AnswersAreOwn
  <2>5. ASSUME FreshRings PROVE FreshRings'
    <3>1. ASSUME NEW p \in Queues, Fresh(p) PROVE Fresh(p)'
      BY <1>1, <3>1 DEF Fresh
    <3> QED BY <1>1, <2>5, <3>1 DEF FreshRings, Queues
  <2> QED BY <1>1, <2>1, <2>3, <2>4, <2>5 DEF LapSound
<1> QED BY <1>9, <1>10, <1>11, <1>12, <1>13, <1>14, <1>15 DEF NvmeInv
\* What the controller posts is the answer to the one command that is out.
LEMMA PostKeeps ==
  ASSUME NvmeInv, UNCHANGED pciVars, NEW c \in running, NEW ok \in BOOLEAN, Post(c, ok)
  PROVE  NvmeInv'
<1> DEFINE q == QueueOf(c.cid)
           h == posted[q]
           e == Completion(c.cid, ok, c.no)
           how == IF ok THEN "ok" ELSE "error"
<1>0. Shaped /\ Phases /\ Counted /\ AllTagged /\ LapSound
  BY DEF NvmeInv
<1>1. /\ cq' = [cq EXCEPT ![q] = [cq[q] EXCEPT ![h] = e]]
      /\ posted' = [posted EXCEPT ![q] = Next1(h)]
      /\ running' = running \ {c}
      /\ done' = [done EXCEPT ![c.no] = how]
      /\ known' = CASE ok /\ c.cid = CreateCq -> known \cup {"io_cq"}
                    [] ok /\ c.cid = CreateSq -> known \cup {"io_sq"}
                    [] OTHER -> known
      /\ UNCHANGED <<at, sq, sq_tail, cq_head, doorbell, spinning, submitted, answers>>
      /\ UNCHANGED <<asq, enabled, ready, fetched>>
  BY DEF Post, waitVars, QueueOf
<1>2. c \in CommandSet /\ Tagged(c) /\ q \in Queues
  BY <1>0 DEF Shaped, AllTagged, QueueOf, Queues
<1>3. at \notin Early
  BY Sent
<1>4. e \in CompletionSet /\ e.cid = c.cid /\ e.ok = ok /\ e.no = c.no
  BY <1>2 DEF Completion, CompletionSet, CommandSet
<1>5. h \in 0..Size - 1 /\ Next1(h) \in 0..Size - 1 /\ cq[q] \in [0..Size - 1 -> CompletionSet]
  BY <1>0, <1>2, NextInRing DEF Shaped
<1> HIDE DEF q, h, e, how
<1>6. /\ cq'[q] \in [0..Size - 1 -> CompletionSet] /\ cq'[q][h] = e
      /\ \A i \in 0..Size - 1 : i # h => cq'[q][i] = cq[q][i]
      /\ \A p \in Queues : p # q => cq'[p] = cq[p]
  BY <1>0, <1>1, <1>2, <1>4, <1>5 DEF Shaped
<1>7. posted'[q] = Next1(h) /\ \A p \in Queues : p # q => posted'[p] = posted[p]
  BY <1>0, <1>1, <1>2 DEF Shaped
<1>8. Shaped'
  <2>1. cq' \in [Queues -> [0..Size - 1 -> CompletionSet]]
    BY <1>0, <1>1, <1>6 DEF Shaped
  <2>2. posted' \in [Queues -> 0..Size - 1]
    BY <1>0, <1>1, <1>5 DEF Shaped
  <2> QED BY <1>0, <1>1, <2>1, <2>2 DEF Shaped
<1>9. how \in {"ok", "error"} /\ (how = "ok" <=> ok)
  BY DEF how
<1>10. done \in [Commands -> {"not yet", "ok", "error"}]
  BY DEF NvmeInv, TypeOK
<1>11. known \subseteq known' /\ known' \subseteq AdminQueues \cup IoQueues
  BY <1>1, EarlyTypes DEF IoQueues
<1>12. TypeOK'
  <2>1. done' \in [Commands -> {"not yet", "ok", "error"}]
    BY <1>1, <1>9, <1>10
  <2> QED BY <1>1, <1>8, <1>11, <2>1, TypesKept, EarlyTypes DEF NvmeInv, TypeOK
<1>13. Probed'
  BY <1>1, ProbedKept DEF NvmeInv
<1>14. Phases'
  <2>1. CreateCq \in Commands /\ CreateSq \in Commands /\ CreateCq # CreateSq
        /\ CreateCq \in AdminCommands /\ CreateSq \in AdminCommands
    BY AllCommands DEF CreateCq, CreateSq, AdminCommands
  <2>2. ASSUME done'[CreateCq] = "ok", done[CreateCq] = "ok" => "io_cq" \in known
        PROVE "io_cq" \in known'
    <3>1. CASE c.no = CreateCq
      BY <1>1, <1>2, <1>9, <1>10, <2>1, <2>2, <3>1 DEF Tagged
    <3>2. CASE c.no # CreateCq
      BY <1>1, <1>10, <1>11, <2>1, <2>2, <3>2
    <3> QED BY <3>1, <3>2
  <2>3. ASSUME done'[CreateSq] = "ok", done[CreateSq] = "ok" => "io_sq" \in known
        PROVE "io_sq" \in known'
    <3>1. CASE c.no = CreateSq
      BY <1>1, <1>2, <1>9, <1>10, <2>1, <2>3, <3>1 DEF Tagged
    <3>2. CASE c.no # CreateSq
      BY <1>1, <1>10, <1>11, <2>1, <2>3, <3>2
    <3> QED BY <3>1, <3>2
  <2> QED BY <1>0, <1>1, <1>3, <1>11, <2>2, <2>3, EarlyTypes DEF Phases, Early
<1>15. Counted'
  BY <1>0, <1>1 DEF Counted
<1>16. AllTagged'
  BY <1>0, <1>1 DEF AllTagged
<1>17. LapSound'
  <2> SUFFICES ASSUME FirstLap' PROVE LapSound'
    BY DEF LapSound
  <2>1. OneOut /\ AnswersAreOwn /\ (Len(answers) < 4 + Size => FreshRings)
    BY <1>0, <1>1 DEF LapSound, FirstLap, IoFailed
  <2>2. spinning # 0 /\ c = Command(spinning, submitted) /\ running = {c}
    BY <2>1 DEF OneOut
  <2>3. c.cid = spinning /\ c.no = submitted /\ running' = {}
    BY <1>1, <2>2 DEF Command
  <2>4. \A p \in Queues : fetched[p] = sq_tail[p]
    BY <2>1, <2>2 DEF OneOut
  <2>5. OneOut'
    BY <1>1, <2>1, <2>3, <2>4 DEF OneOut
  <2>6. answers \in Seq({"ok", "error"}) /\ submitted = Len(answers) + 1
    BY <1>0, <2>2 DEF Counted, NvmeInv, TypeOK
  <2>7. submitted \in Commands
    <3>1. submitted \in Commands \cup {0} BY DEF NvmeInv, TypeOK
    <3>2. submitted # 0 BY <2>6
    <3> QED BY <3>1, <3>2
  <2>8. AnswersAreOwn'
    <3>1. DOMAIN answers = 1..Len(answers) /\ Len(answers) \in Nat
      BY <2>6
    <3>2. \A n \in DOMAIN answers : n # submitted /\ n \in Commands
      BY <2>6, <2>7, <3>1, AllCommands
    <3>3. \A n \in DOMAIN answers : done'[n] = done[n]
      BY <1>1, <1>10, <2>3, <3>2
    <3> QED BY <1>1, <2>1, <3>3 DEF AnswersAreOwn
  <2>9. done'[submitted] = how
    BY <1>1, <1>10, <2>3, <2>7
  <2>10. at = q
    BY <2>2, <2>3, WaitsOn DEF q
  <2>11. ASSUME Fresh(q) PROVE Fresh(q)'
    <3>1. h = cq_head[q] /\ cq[q][h].cid = 0
      BY <2>2, <2>11 DEF Fresh, h
    <3>2. cq_head[q] \in 0..Size - 1 /\ cq_head'[q] = h
      BY <1>1, <1>5, <3>1
    <3>3. \A i \in 0..Size - 1 : i > cq_head'[q] => cq'[q][i].cid = 0
      BY <1>1, <1>5, <1>6, <2>11, <3>1, <3>2 DEF Fresh
    <3>4. posted'[q] = Next1(cq_head'[q])
      BY <1>7, <3>2
    <3>5. cq'[q][cq_head'[q]] = e
      BY <1>6, <3>2
    <3>6. cq'[q][cq_head'[q]].no = submitted' /\ cq'[q][cq_head'[q]].ok = ok
      BY <1>1, <1>4, <2>3, <3>5
    <3>7. done'[submitted'] = IF cq'[q][cq_head'[q]].ok THEN "ok" ELSE "error"
      BY <1>1, <2>9, <3>6 DEF how
    <3>8. spinning' # 0 /\ running' = {} /\ fetched'[q] = sq_tail'[q]
      BY <1>1, <1>2, <2>2, <2>3, <2>4
    <3> QED BY <3>3, <3>4, <3>6, <3>7, <3>8 DEF Fresh
  <2>12. ASSUME FreshRings PROVE FreshRings'
    BY <1>1, <1>6, <1>7, <2>10, <2>11, <2>12 DEF FreshRings, Queues
  <2> QED BY <1>1, <2>1, <2>5, <2>8, <2>12 DEF LapSound
<1> QED BY <1>8, <1>12, <1>13, <1>14, <1>15, <1>16, <1>17 DEF NvmeInv

\* The end of a wait on the first lap: the answer taken is that of the command.
LEMMA TakesItsAnswer ==
  ASSUME NvmeInv, NEW q \in Queues, spinning # 0, at = q, Matches(cq[q][cq_head[q]]),
         OneOut, Fresh(q)
  PROVE  /\ posted[q] = Next1(cq_head[q])
         /\ running = {} /\ \A p \in Queues : fetched[p] = sq_tail[p]
         /\ done[submitted] = IF Succeeded(cq[q][cq_head[q]]) THEN "ok" ELSE "error"
<1>1. cq[q][cq_head[q]].cid # 0
  BY DEF Matches
<1>2. /\ posted[q] = Next1(cq_head[q]) /\ running = {} /\ fetched[q] = sq_tail[q]
      /\ done[submitted] = IF cq[q][cq_head[q]].ok THEN "ok" ELSE "error"
  BY <1>1 DEF Fresh
<1>3. QueueOf(spinning) = q
  BY WaitsOn DEF Queues
<1>4. \A p \in Queues : fetched[p] = sq_tail[p]
  BY <1>2, <1>3 DEF OneOut
<1> QED BY <1>2, <1>4 DEF Succeeded
\* What the end of a wait leaves, whatever the entry says.
LEMMA Completes ==
  ASSUME NvmeInv, NEW q \in Queues, spinning # 0, Complete(q)
  PROVE  /\ Shaped' /\ Matches(cq[q][cq_head[q]])
         /\ answers' \in Seq({"ok", "error"}) /\ Len(answers) \in Nat
         /\ submitted = Len(answers) + 1 /\ Len(answers') = submitted
         /\ DOMAIN answers = 1..Len(answers) /\ DOMAIN answers' = 1..submitted
         /\ \A n \in 1..Len(answers) : answers'[n] = answers[n]
         /\ answers'[submitted] = IF Succeeded(cq[q][cq_head[q]]) THEN "ok" ELSE "error"
         /\ Succeeded(cq[q][cq_head[q]]) => cq_head'[q] = Next1(cq_head[q])
         /\ \A p \in Queues : p # q => cq_head'[p] = cq_head[p]
         /\ \A p \in Queues : doorbell'[p].sq = doorbell[p].sq
         /\ spinning' = 0 /\ UNCHANGED <<sq, sq_tail, cq, submitted, asq, enabled>>
<1> DEFINE e == cq[q][cq_head[q]]
           how == IF Succeeded(e) THEN "ok" ELSE "error"
           n == Next1(cq_head[q])
<1>0. Shaped /\ Counted
  BY DEF NvmeInv
<1>1. answers \in Seq({"ok", "error"}) /\ how \in {"ok", "error"}
  BY DEF NvmeInv, TypeOK
<1>2. Len(answers) \in Nat /\ submitted = Len(answers) + 1
  BY <1>0, <1>1 DEF Counted
<1>3. n \in 0..Size - 1
  BY <1>0, NextInRing DEF Shaped
<1>4. /\ Matches(e) /\ spinning' = 0 /\ answers' = Append(answers, how)
      /\ UNCHANGED <<sq, sq_tail, cq, submitted, asq, enabled, ready, known, fetched, posted, running>>
      /\ \/ /\ Succeeded(e) /\ cq_head' = [cq_head EXCEPT ![q] = n]
            /\ doorbell' = [doorbell EXCEPT ![q] = [doorbell[q] EXCEPT !.cq = n]]
         \/ ~Succeeded(e) /\ UNCHANGED <<cq_head, doorbell>>
  BY DEF Complete, deviceVars
<1> HIDE DEF e, how, n
<1>5. /\ answers' \in Seq({"ok", "error"}) /\ Len(answers') = Len(answers) + 1
      /\ DOMAIN answers = 1..Len(answers) /\ DOMAIN answers' = 1..Len(answers')
      /\ answers'[Len(answers) + 1] = how
      /\ \A i \in 1..Len(answers) : answers'[i] = answers[i]
  BY <1>1, <1>4
<1>6. CASE ~Succeeded(e)
  <2>1. UNCHANGED <<cq_head, doorbell>>
    BY <1>4, <1>6
  <2>2. Shaped'
    BY <1>0, <1>4, <2>1 DEF Shaped
  <2> QED BY <1>2, <1>4, <1>5, <1>6, <2>1, <2>2 DEF e, how
<1>7. CASE Succeeded(e)
  <2>1. /\ cq_head' = [cq_head EXCEPT ![q] = n]
        /\ doorbell' = [doorbell EXCEPT ![q] = [doorbell[q] EXCEPT !.cq = n]]
    BY <1>4, <1>7
  <2>2. cq_head' \in [Queues -> 0..Size - 1] /\ cq_head'[q] = n
        /\ \A p \in Queues : p # q => cq_head'[p] = cq_head[p]
    BY <1>0, <1>3, <2>1 DEF Shaped
  <2>3. doorbell[q] \in [sq : 0..Size - 1, cq : 0..Size - 1]
    BY <1>0 DEF Shaped
  <2>4. doorbell'[q] = [doorbell[q] EXCEPT !.cq = n]
        /\ \A p \in Queues : p # q => doorbell'[p] = doorbell[p]
    BY <1>0, <2>1 DEF Shaped
  <2>5. doorbell'[q] \in [sq : 0..Size - 1, cq : 0..Size - 1] /\ doorbell'[q].sq = doorbell[q].sq
    BY <1>3, <2>3, <2>4
  <2>6. doorbell' \in [Queues -> [sq : 0..Size - 1, cq : 0..Size - 1]]
    BY <1>0, <2>1, <2>4, <2>5 DEF Shaped
  <2>7. Shaped'
    BY <1>0, <1>4, <2>2, <2>6 DEF Shaped
  <2>8. \A p \in Queues : doorbell'[p].sq = doorbell[p].sq
    BY <2>4, <2>5
  <2> QED BY <1>2, <1>4, <1>5, <1>7, <2>2, <2>7, <2>8 DEF e, how, n
<1> QED BY <1>6, <1>7

LEMMA CompleteAdminKeeps ==
  ASSUME NvmeInv, UNCHANGED pciVars, CompleteAdmin
  PROVE  NvmeInv'
<1> DEFINE e == cq["admin"][cq_head["admin"]]
<1>0. Shaped /\ Phases /\ Counted /\ AllTagged /\ LapSound
  BY DEF NvmeInv
<1>1. spinning \in AdminCommands /\ spinning # 0 /\ Complete("admin") /\ "admin" \in Queues
  BY DEF CompleteAdmin, AdminCommands, Queues
<1>2. at = "admin" /\ spinning = submitted /\ spinning \in 1..4
  BY <1>1, WaitsOn DEF AdminCommands, IoCommands
<1>3. UNCHANGED <<ready, known, fetched, posted, running, done>>
  BY <1>1 DEF Complete, deviceVars
<1>4. /\ Shaped' /\ Matches(e)
      /\ answers' \in Seq({"ok", "error"}) /\ Len(answers) \in Nat
      /\ submitted = Len(answers) + 1 /\ Len(answers') = submitted
      /\ DOMAIN answers = 1..Len(answers) /\ DOMAIN answers' = 1..submitted
      /\ \A n \in 1..Len(answers) : answers'[n] = answers[n]
      /\ answers'[submitted] = (IF Succeeded(e) THEN "ok" ELSE "error")
      /\ Succeeded(e) => cq_head'["admin"] = Next1(cq_head["admin"])
      /\ \A p \in Queues : p # "admin" => cq_head'[p] = cq_head[p]
      /\ \A p \in Queues : doorbell'[p].sq = doorbell[p].sq
      /\ spinning' = 0 /\ UNCHANGED <<sq, sq_tail, cq, submitted, asq, enabled>>
  BY <1>1, Completes
<1>5. at' = (CASE answers'[submitted] = "error" -> "failed"
               [] answers'[submitted] = "ok" /\ spinning = CreateSq -> "io"
               [] OTHER -> at)
  BY DEF CompleteAdmin
<1> HIDE DEF e
<1>6. \/ ~Succeeded(e) /\ at' = "failed"
      \/ Succeeded(e) /\ submitted = 4 /\ at' = "io"
      \/ Succeeded(e) /\ submitted \in 1..3 /\ at' = "admin"
  BY <1>2, <1>4, <1>5 DEF CreateSq
<1>7. Len(answers) <= 3 /\ \A n \in 1..Len(answers) : answers[n] = "ok"
  BY <1>0, <1>2 DEF Counted
<1>8. ~IoFailed /\ FirstLap
  BY <1>4, <1>7, FourAdminCommands, AllCommands DEF FirstLap, IoFailed
<1>9. OneOut /\ AnswersAreOwn /\ FreshRings
  BY <1>4, <1>7, <1>8, AllCommands DEF LapSound, NvmeInv
<1>10. Fresh("admin") /\ cq_head["admin"] = Len(answers) /\ cq_head["io"] = 0 /\ posted["io"] = 0
       /\ \A i \in 0..Size - 1 : cq["io"][i].cid = 0
  BY <1>2, <1>9 DEF FreshRings
<1>11. /\ posted["admin"] = Next1(cq_head["admin"])
       /\ running = {} /\ \A p \in Queues : fetched[p] = sq_tail[p]
       /\ done[submitted] = IF Succeeded(e) THEN "ok" ELSE "error"
  BY <1>1, <1>2, <1>4, <1>9, <1>10, TakesItsAnswer DEF e
<1>12. AnswersAreOwn'
  <2>1. \A n \in 1..submitted : answers'[n] = done[n]
    <3> TAKE n \in 1..submitted
    <3>1. CASE n = submitted BY <3>1, <1>4, <1>11
    <3>2. CASE n \in 1..Len(answers) BY <3>2, <1>4, <1>9 DEF AnswersAreOwn
    <3> QED BY <3>1, <3>2, <1>4
  <2> QED BY <1>3, <1>4, <2>1 DEF AnswersAreOwn
<1>13. TypeOK'
  <2>1. spinning' \in AdminCommands \cup IoCommands \cup {0} /\ at' \in {at, "io", "failed"}
    BY <1>2, <1>4, <1>6
  <2> QED BY <1>3, <1>4, <2>1, TypesKept, EarlyTypes DEF NvmeInv, TypeOK
<1>14. Probed'
  BY <1>2, <1>6, ProbedKept DEF NvmeInv
<1>15. Phases'
  <2>1. enabled' /\ ready' /\ AdminQueues \subseteq known'
        /\ (done'[CreateCq] = "ok" => "io_cq" \in known')
        /\ (done'[CreateSq] = "ok" => "io_sq" \in known')
    BY <1>0, <1>2, <1>3, <1>4, EarlyTypes DEF Phases
  <2>2. at' = "io" => IoQueues \subseteq known'
    <3>1. SUFFICES ASSUME at' = "io" PROVE IoQueues \subseteq known'
      OBVIOUS
    <3>2. submitted = 4 /\ Succeeded(e)
      BY <1>6, <3>1
    <3>3. done[CreateSq] = "ok"
      BY <1>11, <3>2 DEF CreateSq
    <3>4. CreateCq \in 1..Len(answers)
      BY <1>4, <3>2 DEF CreateCq
    <3>5. done[CreateCq] = "ok"
      BY <1>4, <1>7, <1>9, <3>4 DEF AnswersAreOwn
    <3> QED BY <1>3, <2>1, <3>3, <3>5 DEF IoQueues
  <2>3. ~(at' \in Early \cup {"boot", "pci", "none", "init", "disable", "stopping", "configure",
                              "start", "starting"})
    BY <1>2, <1>6 DEF Early
  <2> QED BY <2>1, <2>2, <2>3 DEF Phases
<1>16. Counted'
  <2>1. at' = "admin" => Len(answers') <= 3 /\ \A n \in 1..Len(answers') : answers'[n] = "ok"
    <3>1. SUFFICES ASSUME at' = "admin"
                   PROVE  Len(answers') <= 3 /\ \A n \in 1..Len(answers') : answers'[n] = "ok"
      OBVIOUS
    <3>2. submitted \in 1..3 /\ Succeeded(e)
      BY <1>2, <1>6, <3>1
    <3>3. \A n \in 1..submitted : n \in 1..Len(answers) \/ n = submitted
      BY <1>4
    <3> QED BY <1>4, <1>7, <3>2, <3>3
  <2>2. at' = "io" => Len(answers') >= 4
    BY <1>2, <1>4, <1>6
  <2> QED BY <1>4, <2>1, <2>2 DEF Counted, AdminCommands
<1>17. AllTagged'
  BY <1>0, <1>3, <1>4 DEF AllTagged
<1>18. OneOut'
  BY <1>3, <1>4, <1>9, <1>11 DEF OneOut
<1>19. FreshRings'
  <2>0. cq_head'["io"] = 0 /\ posted'["io"] = 0 /\ cq' = cq /\ posted'["admin"] = posted["admin"]
    BY <1>3, <1>4, <1>10 DEF Queues
  <2>1. CASE at' = "failed"
    BY <2>1 DEF FreshRings
  <2>2. CASE at' = "io"
    <3>1. Len(answers') = 4
      BY <1>2, <1>4, <1>6, <2>2
    <3>2. Fresh("io")'
      BY <1>10, <2>0, AllCommands DEF Fresh
    <3> QED BY <2>0, <2>2, <3>1, <3>2 DEF FreshRings
  <2>3. CASE at' = "admin"
    <3>1. Succeeded(e) /\ submitted \in 1..3
      BY <1>2, <1>6, <2>3
    <3>2. cq_head'["admin"] = submitted /\ submitted \in 0..Size - 1 /\ submitted > cq_head["admin"]
      BY <1>4, <1>10, <3>1, AllCommands DEF Next1
    <3>3. posted'["admin"] = submitted
      BY <1>4, <1>11, <2>0, <3>1, <3>2
    <3>4. \A i \in 0..Size - 1 : i > cq_head["admin"] => cq["admin"][i].cid = 0
      BY <1>10 DEF Fresh
    <3>5. \A i \in 0..Size - 1 : i > cq_head'["admin"] => cq'["admin"][i].cid = 0
      BY <1>4, <1>10, <2>0, <3>2, <3>4
    <3>6. cq'["admin"][cq_head'["admin"]].cid = 0
      BY <2>0, <3>2, <3>4
    <3>7. Fresh("admin")'
      BY <3>2, <3>3, <3>5, <3>6 DEF Fresh
    <3> QED BY <1>4, <1>10, <2>0, <2>3, <3>2, <3>7 DEF FreshRings
  <2> QED BY <1>6, <2>1, <2>2, <2>3
<1> QED BY <1>4, <1>12, <1>13, <1>14, <1>15, <1>16, <1>17, <1>18, <1>19 DEF NvmeInv, LapSound

LEMMA CompleteIoKeeps ==
  ASSUME NvmeInv, UNCHANGED pciVars, CompleteIo
  PROVE  NvmeInv'
<1> DEFINE e == cq["io"][cq_head["io"]]
<1>0. Shaped /\ Phases /\ Counted /\ AllTagged /\ LapSound
  BY DEF NvmeInv
<1>1. spinning \in IoCommands /\ spinning # 0 /\ Complete("io") /\ "io" \in Queues /\ at' = at
  BY DEF CompleteIo, IoCommands, Queues
<1>2. at = "io" /\ at' = "io"
  BY <1>1, WaitsOn DEF AdminCommands, IoCommands
<1>3. UNCHANGED <<ready, known, fetched, posted, running, done>>
  BY <1>1 DEF Complete, deviceVars
<1>4. /\ Shaped' /\ Matches(e)
      /\ answers' \in Seq({"ok", "error"}) /\ Len(answers) \in Nat
      /\ submitted = Len(answers) + 1 /\ Len(answers') = submitted
      /\ DOMAIN answers = 1..Len(answers) /\ DOMAIN answers' = 1..submitted
      /\ \A n \in 1..Len(answers) : answers'[n] = answers[n]
      /\ answers'[submitted] = (IF Succeeded(e) THEN "ok" ELSE "error")
      /\ Succeeded(e) => cq_head'["io"] = Next1(cq_head["io"])
      /\ \A p \in Queues : p # "io" => cq_head'[p] = cq_head[p]
      /\ \A p \in Queues : doorbell'[p].sq = doorbell[p].sq
      /\ spinning' = 0 /\ UNCHANGED <<sq, sq_tail, cq, submitted, asq, enabled>>
  BY <1>1, Completes
<1> HIDE DEF e
<1>5. Len(answers) >= 4
  BY <1>0, <1>2 DEF Counted
<1>6. TypeOK'
  BY <1>1, <1>3, <1>4, TypesKept, EarlyTypes DEF NvmeInv, TypeOK
<1>7. Probed'
  BY <1>1, ProbedKept DEF NvmeInv
<1>8. Phases'
  BY <1>0, <1>2, <1>3, <1>4, EarlyTypes DEF Phases, Early
<1>9. Counted'
  BY <1>2, <1>4, <1>5 DEF Counted, AdminCommands
<1>10. AllTagged'
  BY <1>0, <1>3, <1>4 DEF AllTagged
<1>11. LapSound'
  <2> SUFFICES ASSUME FirstLap' PROVE LapSound'
    BY DEF LapSound
  <2>1. ~IoFailed' /\ submitted <= 4 + Size
    BY <1>4, FourAdminCommands DEF FirstLap
  <2>2. Len(answers) < 4 + Size
    BY <1>4, <2>1, AllCommands
  <2>3. ~IoFailed
    BY <1>4, <2>1 DEF IoFailed
  <2>4. OneOut /\ AnswersAreOwn /\ FreshRings
    BY <1>0, <1>4, <2>2, <2>3, FourAdminCommands, AllCommands DEF LapSound, FirstLap
  <2>5. Succeeded(e)
    <3>1. submitted \in DOMAIN answers' /\ submitted \notin AdminCommands
      BY <1>4, <1>5 DEF AdminCommands
    <3> QED BY <1>4, <2>1, <3>1 DEF IoFailed
  <2>6. Fresh("io") /\ cq_head["io"] = Len(answers) - 4
    BY <1>2, <2>4 DEF FreshRings
  <2>7. /\ posted["io"] = Next1(cq_head["io"])
        /\ running = {} /\ \A p \in Queues : fetched[p] = sq_tail[p]
        /\ done[submitted] = IF Succeeded(e) THEN "ok" ELSE "error"
    BY <1>1, <1>2, <1>4, <2>4, <2>6, TakesItsAnswer DEF e
  <2>8. AnswersAreOwn'
    <3>1. \A n \in 1..submitted : answers'[n] = done[n]
      <4> TAKE n \in 1..submitted
      <4>1. CASE n = submitted BY <4>1, <1>4, <2>7
      <4>2. CASE n \in 1..Len(answers) BY <4>2, <1>4, <2>4 DEF AnswersAreOwn
      <4> QED BY <4>1, <4>2, <1>4
    <3> QED BY <1>3, <1>4, <3>1 DEF AnswersAreOwn
  <2>9. OneOut'
    BY <1>3, <1>4, <2>4, <2>7 DEF OneOut
  <2>10. ASSUME Len(answers') < 4 + Size PROVE FreshRings'
    <3> DEFINE m == Len(answers) - 4
    <3>1. m + 1 \in 0..Size - 1 /\ m \in Nat /\ m + 1 > m
      BY <1>4, <1>5, <2>10, AllCommands
    <3>2. cq_head'["io"] = m + 1 /\ m + 1 = Len(answers') - 4
      BY <1>4, <2>5, <2>6, <3>1, AllCommands DEF Next1
    <3>3. posted'["io"] = m + 1
      BY <1>3, <1>4, <2>5, <2>7, <3>2
    <3>4. \A i \in 0..Size - 1 : i > m => cq["io"][i].cid = 0
      BY <2>6 DEF Fresh
    <3> HIDE DEF m
    <3>5. \A i \in 0..Size - 1 : i > cq_head'["io"] => cq'["io"][i].cid = 0
      BY <1>4, <3>1, <3>2, <3>4
    <3>6. cq'["io"][cq_head'["io"]].cid = 0
      BY <1>4, <3>1, <3>2, <3>4
    <3>7. Fresh("io")'
      BY <3>2, <3>3, <3>5, <3>6 DEF Fresh
    <3> QED BY <1>2, <3>2, <3>7 DEF FreshRings
  <2> QED BY <2>8, <2>9, <2>10 DEF LapSound
<1> QED BY <1>4, <1>6, <1>7, <1>8, <1>9, <1>10, <1>11 DEF NvmeInv
LEMMA IoQueueInitFailsKeeps ==
  ASSUME NvmeInv, UNCHANGED pciVars, IoQueueInitFails
  PROVE  NvmeInv'
<1>1. /\ at = "admin" /\ at' = "failed" /\ spinning = 0
      /\ UNCHANGED <<sq, sq_tail, cq, cq_head, doorbell, spinning, submitted, answers, asq, enabled>>
      /\ UNCHANGED <<ready, known, fetched, posted, running, done>>
  BY DEF IoQueueInitFails, ringVars, waitVars, deviceVars
<1>2. Shaped'
  BY <1>1 DEF NvmeInv, Shaped
<1>3. TypeOK'
  BY <1>1, <1>2, TypesKept, EarlyTypes DEF NvmeInv, TypeOK
<1>4. Probed'
  BY <1>1, ProbedKept DEF NvmeInv
<1>5. Phases'
  BY <1>1 DEF Phases, Early
<1>6. Counted'
  BY <1>1 DEF NvmeInv, Counted
<1>7. AllTagged'
  BY <1>1 DEF NvmeInv, AllTagged
<1>8. LapSound'
  <2>1. FreshRings'
    BY <1>1 DEF FreshRings
  <2> QED BY <1>1, <2>1 DEF NvmeInv, LapSound, FirstLap, IoFailed, OneOut, AnswersAreOwn
<1> QED BY <1>2, <1>3, <1>4, <1>5, <1>6, <1>7, <1>8 DEF NvmeInv

LEMMA NvmeStutter ==
  ASSUME NvmeInv, UNCHANGED vars
  PROVE  NvmeInv'
<1>1. /\ UNCHANGED <<at, sq, sq_tail, cq, cq_head, doorbell, spinning, submitted, answers>>
      /\ UNCHANGED <<asq, enabled, ready, known, fetched, posted, running, done>>
      /\ UNCHANGED pciVars
  BY DEF vars, nvmeVars, ringVars, waitVars, deviceVars
<1>2. Shaped'
  BY <1>1 DEF NvmeInv, Shaped
<1>3. TypeOK'
  BY <1>1, <1>2, TypesKept, EarlyTypes DEF NvmeInv, TypeOK
<1>4. Probed'
  BY <1>1, ProbedKept DEF NvmeInv
<1>5. Phases'
  BY <1>1 DEF NvmeInv, Phases, Idle, EmptyRings
<1>6. Counted'
  BY <1>1 DEF NvmeInv, Counted
<1>7. AllTagged'
  BY <1>1 DEF NvmeInv, AllTagged
<1>8. LapSound'
  BY <1>1 DEF NvmeInv, LapSound, FirstLap, IoFailed, OneOut, AnswersAreOwn, FreshRings, Fresh
<1> QED BY <1>2, <1>3, <1>4, <1>5, <1>6, <1>7, <1>8 DEF NvmeInv

LEMMA SubmitAdminKeeps ==
  ASSUME NvmeInv, UNCHANGED pciVars, SubmitAdmin
  PROVE  NvmeInv'
<1> DEFINE c == submitted + 1
<1>1. at = "admin" /\ c \in AdminCommands /\ Submit("admin", c)
  BY DEF SubmitAdmin
<1>2. c \in Commands /\ QueueOf(c) = "admin" /\ Tagged(Command(c, c)) /\ "admin" \in Queues
  BY <1>1, AllCommands DEF AdminCommands, IoCommands, QueueOf, Tagged, Command, Queues
<1> QED BY <1>1, <1>2, SubmitKeeps

LEMMA SubmitIoKeeps ==
  ASSUME NvmeInv, UNCHANGED pciVars, NEW c \in IoCommands, SubmitIo(c)
  PROVE  NvmeInv'
<1>1. at = "io" /\ submitted < 4 + MaxIo /\ Submit("io", c) /\ spinning = 0
  BY FourAdminCommands DEF SubmitIo, BlockDevice, Submit
<1>2. submitted = Len(answers) /\ Len(answers) >= 4 /\ submitted \in Commands \cup {0}
  BY <1>1 DEF NvmeInv, Counted, TypeOK
<1>3. submitted \in 0..4 + MaxIo /\ submitted >= 4
  BY <1>2, AllCommands
<1>4. submitted + 1 \in Commands /\ submitted + 1 >= 5
  BY <1>1, <1>3, AllCommands
<1>5. QueueOf(c) = "io" /\ Tagged(Command(c, submitted + 1)) /\ "io" \in Queues
  BY <1>4 DEF QueueOf, Tagged, Command, AdminCommands, IoCommands, Queues
<1> QED BY <1>1, <1>4, <1>5, SubmitKeeps

LEMMA NvmeStep == NvmeInv /\ [Next]_vars => NvmeInv'
<1> SUFFICES ASSUME NvmeInv, [Next]_vars PROVE NvmeInv'
  OBVIOUS
<1>1. CASE ScanBuses
  BY <1>1, ScanKeeps
<1>2. CASE FindController
  BY <1>2, FindKeeps
<1>3. CASE Commanding /\ UNCHANGED pciVars
  BY <1>3, StartupKeeps, SubmitAdminKeeps, CompleteAdminKeeps, IoQueueInitFailsKeeps, CompleteIoKeeps
  DEF Commanding
<1>4. CASE \E c \in IoCommands : SubmitIo(c) /\ UNCHANGED pciVars
  BY <1>4, SubmitIoKeeps
<1>5. CASE Device
  BY <1>5, PowerKeeps, FetchKeeps, PostKeeps DEF Device
<1>6. CASE UNCHANGED vars
  BY <1>6, NvmeStutter
<1> QED BY <1>1, <1>2, <1>3, <1>4, <1>5, <1>6 DEF Next, Driver

\* The driver and the controller keep step on every machine: the start, the admin
\* commands and the I/O commands of nvme.c.
THEOREM NvmeInvariance == Spec => []NvmeInv
<1>1. Init => NvmeInv
  BY NvmeStart
<1>2. NvmeInv /\ [Next]_vars => NvmeInv'
  BY NvmeStep
<1> QED BY <1>1, <1>2, PTL DEF Spec

----------------------------------------------------------------------------
(* What the runs check                                                     *)

\* A full table has as many addresses in it as entries.
LEMMA FullTable ==
  ASSUME NEW table, NEW a, Scanned(table, a), Len(table) = MaxDevices
  PROVE  Cardinality({table[i] : i \in 1..Len(table)}) = MaxDevices
<1> DEFINE n == Len(table)
           S == 1..n
           T == {table[i] : i \in S}
           f == [i \in S |-> table[i]]
<1>1. n \in Nat /\ 1 \in Int /\ n \in Int /\ 1 <= n /\ table \in Seq(Addresses)
  BY PciAssumption DEF Scanned
<1>2. ASSUME NEW x \in Int, NEW y \in Int, x <= y PROVE IsFiniteSet(x..y) /\ Cardinality(x..y) = y - x + 1
  BY <1>2, FS_Interval
<1>3. IsFiniteSet(S) /\ Cardinality(S) = n
  <2>1. IsFiniteSet(1..n) /\ Cardinality(1..n) = n - 1 + 1
    BY <1>1, <1>2, Zenon
  <2> QED BY <1>1, <2>1
<1>4. \A i, j \in S : i # j => table[i] # table[j]
  <2>1. \A i \in S : table[i] \in Nat
    BY <1>1, PciAssumption DEF Addresses
  <2>2. \A i, j \in S : i < j => table[i] < table[j]
    BY DEF Scanned
  <2>3. \A i, j \in S : i # j => i < j \/ j < i
    BY <1>1
  <2>4. \A x, y \in Nat : x < y => x # y
    OBVIOUS
  <2> HIDE DEF S
  <2> QED BY <2>1, <2>2, <2>3, <2>4
<1>5. f \in Surjection(S, T) /\ f \in Injection(S, T)
  <2>1. f \in [S -> T]
    OBVIOUS
  <2>2. \A t \in T : \E i \in S : f[i] = t
    OBVIOUS
  <2>3. \A i, j \in S : f[i] = f[j] => i = j
    BY <1>4
  <2> HIDE DEF S, T, f
  <2> QED BY <2>1, <2>2, <2>3 DEF Surjection, Injection, IsInjective
<1> HIDE DEF S, T, f
<1>6. Cardinality(T) = Cardinality(S)
  BY <1>3, <1>5, FS_Surjection
<1> QED BY <1>3, <1>6 DEF T, S

\* nvme_init finds the controller unless the table was full before the scan came to
\* it, and then reaches its registers: pci_scan, pci_find, pci_bar, pci_enable_device.
THEOREM ControllerIsTaken == Spec => []ControllerTaken
<1>1. NvmeInv => ControllerTaken
  <2> SUFFICES ASSUME NvmeInv PROVE ControllerTaken
    OBVIOUS
  <2>1. Probed
    BY DEF NvmeInv
  <2>2. ASSUME at = "none", NEW f \in Controllers
        PROVE  \E seen \in SUBSET {a \in Addresses : Answering(a) # {}} :
                 Cardinality(seen) = MaxDevices /\ \A a \in seen, b \in f.at : a < b
    <3> DEFINE T == {devices[i] : i \in 1..Len(devices)}
    <3>1. Scanned(devices, LastAddress + 1) /\ OfClass("nvme") = {}
      BY <2>1, <2>2 DEF Probed
    <3>2. f \in machine /\ machine \in Machines /\ f.class = "nvme"
      BY <2>1 DEF Probed, Controllers
    <3>3. f.at # {} /\ f.at \subseteq Addresses
      BY <3>2, PciAssumption DEF Functions
    <3>4. ASSUME NEW b \in f.at
          PROVE  Len(devices) = MaxDevices /\ \A i \in 1..Len(devices) : devices[i] < b
      <4>1. Answering(b) # {} /\ b \in Addresses /\ b < LastAddress + 1
        BY <3>2, <3>3, <3>4, PciAssumption DEF Answering, Addresses
      <4>2. ~ \E i \in 1..Len(devices) : devices[i] = b
        <5> SUFFICES ASSUME NEW i \in 1..Len(devices), devices[i] = b PROVE FALSE
          OBVIOUS
        <5>1. FunctionAt(b) = f
          BY <3>2, <3>4, <4>1, FunctionFound
        <5>2. i \in DOMAIN devices
          BY <3>1 DEF Scanned
        <5> QED BY <3>1, <3>2, <5>1, <5>2 DEF OfClass
      <4> QED BY <3>1, <4>1, <4>2 DEF Scanned
    <3>5. Len(devices) = MaxDevices
      BY <3>3, <3>4
    <3>6. Cardinality(T) = MaxDevices
      BY <3>1, <3>5, FullTable
    <3>7. T \subseteq {a \in Addresses : Answering(a) # {}}
      BY <3>1 DEF Scanned
    <3>8. \A a \in T, b \in f.at : a < b
      BY <3>4
    <3> QED BY <3>6, <3>7, <3>8
  <2> QED BY <2>1, <2>2 DEF ControllerTaken, Probed
<1> QED BY <1>1, NvmeInvariance, PTL

\* The driver sends commands only on queues the controller knows (nvme.c:52, :65, :103,
\* :364), and the state is well-formed.
THEOREM QueuesAreKnown == Spec => []QueuesKnown
<1>1. NvmeInv => QueuesKnown
  BY DEF NvmeInv, QueuesKnown, Phases, AdminQueues, IoQueues
<1> QED BY <1>1, NvmeInvariance, PTL

\* Until the I/O ring wraps or an I/O command fails, what the driver takes for the
\* answer to a command is the answer to it (nvme.c:119, :247).
THEOREM AnswersOfTheFirstLap == Spec => []FirstLapAnswers
<1>1. NvmeInv => FirstLapAnswers
  BY DEF NvmeInv, LapSound, FirstLap, FirstLapAnswers
<1> QED BY <1>1, NvmeInvariance, PTL
=============================================================================
