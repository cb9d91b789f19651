---------------------------- MODULE MCScheduler ----------------------------
(* Small instances of the scheduler for TLC.                               *)
EXTENDS Scheduler, TLC

\* One open window over the whole horizon; everybody can do everything and
\* a service takes at least one unit.
WholeDay == [starts |-> 0, ends |-> Horizon]

CatalogLasting(longest) ==
    [open |-> TRUE, hours |-> {WholeDay}, garage |-> Vehicles,
     types |-> [k \in ServiceTypes |->
        [min |-> 1, max |-> longest, active |-> TRUE, deleted |-> FALSE,
         skills |-> Skills, capabilities |-> Capabilities]],
     technicians |-> [t \in Technicians |->
        [active |-> TRUE, shifts |-> {WholeDay}, skills |-> Skills]],
     bays |-> [b \in Bays |->
        [active |-> TRUE, deleted |-> FALSE, capabilities |-> Capabilities]]]

MCCatalog == CatalogLasting(2)

\* The same with services of one unit only.
MCShortCatalog == CatalogLasting(1)

\* Technicians, bays, requests and identifiers are interchangeable.
MCSymmetry ==
    Permutations(Technicians) \cup Permutations(Bays)
      \cup Permutations(AppointmentIDs) \cup Permutations(BookingRequests)
      \cup Permutations(TransitionRequests) \cup Permutations(TimeOffIDs)
      \cup Permutations(TimeOffRequests) \cup Permutations(AdminRequests)
=============================================================================
