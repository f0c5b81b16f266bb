---------------------------- MODULE AddressSpace ----------------------------
(***************************************************************************)
(* What the memory managers together promise the rest of the kernel: a     *)
(* page is backed by one frame, no frame backs two pages, and no frame     *)
(* that backs a page is also used for the page tables themselves.          *)
(***************************************************************************)
CONSTANTS
  Page,    \* the pages of the virtual address space
  Frame,   \* the frames of physical memory
  NoFrame  \* what backs a page that is not mapped

VARIABLES
  space,   \* the frame that backs each page
  tables   \* the frames that hold page tables

vars == <<space, tables>>

InUse == {space[p] : p \in Page} \cup tables

Init ==
  /\ space = [p \in Page |-> NoFrame]
  /\ tables = {}

Map(page) ==
  /\ space[page] = NoFrame
  /\ \E frame \in Frame \ InUse : space' = [space EXCEPT ![page] = frame]
  /\ UNCHANGED tables

Unmap(page) ==
  /\ space[page] # NoFrame
  /\ space' = [space EXCEPT ![page] = NoFrame]
  /\ UNCHANGED tables

AddTable ==
  /\ \E frame \in Frame \ InUse : tables' = tables \cup {frame}
  /\ UNCHANGED space

Next ==
  \/ \E page \in Page : Map(page) \/ Unmap(page)
  \/ AddTable

Spec == Init /\ [][Next]_vars

=============================================================================
