------------------------------ MODULE Services ------------------------------
(***************************************************************************)
(* The services that share no table and no request with each other, side   *)
(* by side: Inventory and Library, which lend, Hostel and Meetings, which  *)
(* hand out places, Registers, and OfflineQueue on a phone.  What the      *)
(* phone sends is a request to take a register like any other, so the      *)
(* teachers of Registers stand for it there.                               *)
(***************************************************************************)
EXTENDS Inventory, Library, Hostel, Meetings, Registers, OfflineQueue

placesVars == <<hostelVars, meetingVars>>
storesVars == <<inventoryVars, libraryVars>>
schoolDayVars == <<registerVars, queueVars>>
servicesVars == <<storesVars, placesVars, schoolDayVars>>

ServicesInit ==
    /\ InventoryInit
    /\ LibraryInit
    /\ HostelInit
    /\ MeetingInit
    /\ RegisterInit
    /\ QueueInit

InventoryTurn == InventoryNext /\ UNCHANGED <<libraryVars, placesVars, schoolDayVars>>
LibraryTurn == LibraryNext /\ UNCHANGED <<inventoryVars, placesVars, schoolDayVars>>
HostelTurn == HostelNext /\ UNCHANGED <<storesVars, meetingVars, schoolDayVars>>
MeetingTurn == MeetingNext /\ UNCHANGED <<storesVars, hostelVars, schoolDayVars>>
RegisterTurn == RegisterNext /\ UNCHANGED <<storesVars, placesVars, queueVars>>
QueueTurn == QueueNext /\ UNCHANGED <<storesVars, placesVars, registerVars>>

ServicesNext ==
    \/ InventoryTurn
    \/ LibraryTurn
    \/ HostelTurn
    \/ MeetingTurn
    \/ RegisterTurn
    \/ QueueTurn

ServicesSpec == ServicesInit /\ [][ServicesNext]_servicesVars

(* Rows and requests have their shape, and the indexes on beds and on      *)
(* residents hold.                                                         *)
ServicesTablesOK ==
    /\ InventoryTypeOK
    /\ LibraryTypeOK
    /\ HostelTypeOK
    /\ EveryoneHasTheirOwnBed
    /\ MeetingTypeOK
    /\ RegisterTypeOK
    /\ QueueTypeOK
==============================================================================
