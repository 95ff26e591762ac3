------------------------------- MODULE MCNvme -------------------------------
(***************************************************************************)
(* Five addresses and a table of three entries, so that a device that      *)
(* answers at several addresses can fill it; controllers above and below   *)
(* what one register counts to (64 here), one of two, and none.            *)
(***************************************************************************)
EXTENDS Nvme

Function(c, addresses, wide, base) ==
  [class |-> c, at |-> addresses, wide |-> wide, base |-> base]

SmallMachines == {
  {Function("other", {0}, FALSE, 32), Function("nvme", {1}, TRUE, 144)},
  {Function("other", {0, 1}, FALSE, 32), Function("nvme", {3}, FALSE, 48)},
  {Function("nvme", {2}, TRUE, 16), Function("nvme", {4}, FALSE, 48)},
  {Function("other", {0, 1, 2}, FALSE, 32), Function("nvme", {4}, FALSE, 48)},
  {Function("other", {0}, FALSE, 32)} }
=============================================================================
