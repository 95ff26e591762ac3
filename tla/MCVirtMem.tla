----------------------------- MODULE MCVirtMem -----------------------------
(***************************************************************************)
(* Memory on small maps: tables of two entries, ten to twelve frames, a    *)
(* heap of three pages in two tables and two pages elsewhere, so that      *)
(* memory runs out in every kind of call, between a page's frame and its   *)
(* tables included.  With six bits of bitmap to a frame, the bitmap takes  *)
(* two frames.                                                             *)
(***************************************************************************)
EXTENDS VirtMem

Region(b, n, ty) == [base |-> b, pages |-> n, type |-> ty]

\* The bitmap fits: regions in and out of order, empty, next to each other,
\* with holes, of types kmain does not know, and none usable.
RoomyMaps == {
  <<Region(1, 2, "reserved"), Region(3, 4, "usable"), Region(7, 1, "acpi_nvs"),
    Region(8, 8, "usable")>>,
  <<Region(20, 1, "persistent"), Region(8, 5, "usable"), Region(1, 0, "usable"),
    Region(1, 4, "usable"), Region(5, 3, "usable")>>,
  <<Region(4, 0, "usable"), Region(5, 3, "usable"), Region(8, 2, "framebuffer"),
    Region(10, 4, "usable")>>,
  <<Region(1, 4, "bootloader_reclaimable")>> }
=============================================================================
