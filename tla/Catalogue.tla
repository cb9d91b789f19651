----------------------------- MODULE Catalogue -----------------------------
(***************************************************************************)
(* What a dealership's administrators set up: service types, bays and      *)
(* technicians; the skills and capabilities assigned to them; operating    *)
(* hours and shifts.  Every operation authorises the caller in one         *)
(* statement, may read the row in a second one, and writes it in another   *)
(* that names the row, its parent and the dealership again.                *)
(* Withdrawals (soft deletion, deactivation) are the ones of Workshop,     *)
(* here without the appointments that may forbid them.                     *)
(***************************************************************************)
EXTENDS Staff

CONSTANTS
    Entities,       \* the UUIDs of service types, bays and technicians
    Names,          \* names and codes up to case
    LinkIDs,        \* the UUIDs of assigned skills and capabilities
    Values,         \* the seeded skills and bay capabilities
    SlotIDs,        \* the UUIDs of operating hours and shifts
    Days,           \* days of the week
    Midnight        \* bound: the day's minutes are 0 .. Midnight

VARIABLES
    entities,       \* [Entities -> row or Null]
    links,          \* [LinkIDs -> row or Null]
    slots,          \* [SlotIDs -> row or Null]
    office          \* [Requests -> state of the handler]

catalogueVars == <<entities, links, slots, office>>

Kind == {"service_type", "service_bay", "technician"}
Entity == [kind : Kind, dealership : Dealerships, name : Names, gone : BOOLEAN]

\* The four tables that assign a value to an entity.
Table == {"required_skill", "required_capability", "bay_capability",
          "technician_skill"}
Link == [table : Table, parent : Entities, value : Values]

\* An interval of one weekday: a dealership's hours or a technician's shift.
Slot == [of : Dealerships \cup Entities, day : Days, starts : 0 .. Midnight,
         ends : 0 .. Midnight]

ASSUME CatalogueAssumption ==
    /\ Null \notin Entity
    /\ Null \notin Link
    /\ Null \notin Slot
    /\ Midnight \in Nat

OfficeTx ==
    [stage : {"add_entity", "rename_entity"}, by : Users, dealership : Dealerships,
     entity : Entities, row : Entity]
      \cup [stage : {"add_link", "load_link", "update_link", "delete_link"},
            by : Users, dealership : Dealerships, link : LinkIDs, row : Link]
      \cup [stage : {"add_slot", "update_slot", "delete_slot"},
            by : Users, dealership : Dealerships, slot : SlotIDs, row : Slot]

AcceptOffice(r, pending) ==
    /\ office[r] = Waiting
    /\ accepted < MaxRequests
    /\ accepted' = accepted + 1
    /\ office' = [office EXCEPT ![r] = pending]
    /\ UNCHANGED <<accountVars, staffVars, entities, links, slots>>

AnswerOffice(r) ==
    /\ office' = [office EXCEPT ![r] = Waiting]
    /\ UNCHANGED <<accountVars, staffVars, accepted>>

Present(e) == entities[e] # Null /\ ~ entities[e].gone

-----------------------------------------------------------------------------
(* Service types, bays and technicians *)

AuthorizeServiceTypes(u, d) == IsActiveSchedulerAdminForDealership(u, d)
AuthorizeServiceBays(u, d) == IsActiveSchedulerAdminForDealership(u, d)

\* The token's role must be the global "admin" and the account a member.
GetGlobalAdminDealership(u, d) == \E m \in members : m.account = u /\ m.dealership = d
AuthorizeTechnicians(u, d) == Caller(u, "admin") /\ GetGlobalAdminDealership(u, d)

AddEntity(r, u, d, e, kind, name) ==
    /\ entities[e] = Null
    /\ \A s \in Requests : office[s].stage = "add_entity" => office[s].entity # e
    /\ AcceptOffice(r, [stage |-> "add_entity", by |-> u, dealership |-> d, entity |-> e,
                        row |-> [kind |-> kind, dealership |-> d, name |-> name,
                                 gone |-> FALSE]])

CreateServiceType(r, u, d, e, name) ==
    AuthorizeServiceTypes(u, d) /\ AddEntity(r, u, d, e, "service_type", name)
CreateServiceBay(r, u, d, e, code) ==
    AuthorizeServiceBays(u, d) /\ AddEntity(r, u, d, e, "service_bay", code)
CreateTechnician(r, u, d, e, name) ==
    AuthorizeTechnicians(u, d) /\ AddEntity(r, u, d, e, "technician", name)

\* A mutant of Rename: a name the update leaves out clears the column.
RenameToNull(r, u, d, e, name) ==
    /\ Present(e) /\ entities[e].dealership = d
    /\ entities[e].kind # "technician" /\ IsActiveSchedulerAdminForDealership(u, d)
    /\ AcceptOffice(r, [stage |-> "rename_entity", by |-> u, dealership |-> d,
                        entity |-> e, row |-> [entities[e] EXCEPT !.name = Null]])

\* UpdateServiceType and UpdateServiceBay, as far as the unique column goes.
Rename(r, u, d, e, name) ==
    /\ Present(e) /\ entities[e].dealership = d
    /\ \/ entities[e].kind = "service_type" /\ AuthorizeServiceTypes(u, d)
       \/ entities[e].kind = "service_bay" /\ AuthorizeServiceBays(u, d)
    /\ AcceptOffice(r, [stage |-> "rename_entity", by |-> u, dealership |-> d,
                        entity |-> e, row |-> [entities[e] EXCEPT !.name = name]])

\* service_types_dealership_name_unique, service_bays_dealership_code_lower_unique:
\* among the rows that are not deleted.  Technicians have no such index.
NameTaken(e, row) ==
    /\ row.kind # "technician"
    /\ \E o \in Entities \ {e} :
         /\ Present(o)
         /\ entities[o].kind = row.kind /\ entities[o].dealership = row.dealership
         /\ entities[o].name = row.name

\* INSERT, or UPDATE ... WHERE deleted_at IS NULL; 409 for the name.
WriteEntity(r) ==
    LET q == office[r]
    IN  /\ \/ q.stage = "add_entity"
           \/ q.stage = "rename_entity"
        /\ entities' =
             IF \/ NameTaken(q.entity, q.row)
                \/ q.stage = "rename_entity" /\ ~ Present(q.entity)
             THEN entities
             ELSE [entities EXCEPT ![q.entity] = q.row]
        /\ AnswerOffice(r)
        /\ UNCHANGED <<links, slots>>

\* The commit of DeleteServiceType, DeleteServiceBay or DeactivateTechnician.
Withdraw(e) ==
    /\ Present(e)
    /\ entities' = [entities EXCEPT ![e].gone = TRUE]
    /\ UNCHANGED <<accountVars, accepted, staffVars, links, slots, office>>

-----------------------------------------------------------------------------
(* Assigned skills and capabilities *)

AuthorizeServiceTypeRequiredSkills(u, d) == IsActiveSchedulerAdminForDealership(u, d)
AuthorizeServiceTypeRequiredBayCapabilities(u, d) == IsActiveSchedulerAdminForDealership(u, d)
AuthorizeServiceBayCapabilities(u, d) == IsActiveSchedulerAdminForDealership(u, d)

\* Any active scheduler admin: the path of these operations names no dealership.
AuthorizeTechnicianSkills(u, d) == IsActiveSchedulerAdmin(u)

Authorize(table, u, d) ==
    CASE table = "required_skill" -> AuthorizeServiceTypeRequiredSkills(u, d)
      [] table = "required_capability" -> AuthorizeServiceTypeRequiredBayCapabilities(u, d)
      [] table = "bay_capability" -> AuthorizeServiceBayCapabilities(u, d)
      [] table = "technician_skill" -> AuthorizeTechnicianSkills(u, d)

\* Mutants of OwnedBy: the dealership, or deleted_at, is left out.
OwnedByAny(d, kind, e) == Present(e) /\ entities[e].kind = kind
OwnedEvenDeleted(d, kind, e) ==
    entities[e] # Null /\ entities[e].kind = kind /\ entities[e].dealership = d

\* The row of the parent a statement joins with.
OwnedBy(d, kind, e) ==
    Present(e) /\ entities[e].kind = kind /\ entities[e].dealership = d
ActiveTechnician(e) == Present(e) /\ entities[e].kind = "technician"

BeginLink(r, stage, u, d, l, row) ==
    /\ Authorize(row.table, u, d)
    /\ AcceptOffice(r, [stage |-> stage, by |-> u, dealership |-> d, link |-> l, row |-> row])

\* CreateX: authorised and valid; the statement follows.
CreateLink(r, u, d, l, row) ==
    /\ links[l] = Null
    /\ \A s \in Requests : office[s].stage = "add_link" => office[s].link # l
    /\ BeginLink(r, "add_link", u, d, l, row)

CreateServiceTypeRequiredSkill(r, u, d, l, p, v) ==
    CreateLink(r, u, d, l, [table |-> "required_skill", parent |-> p, value |-> v])
CreateServiceTypeRequiredBayCapability(r, u, d, l, p, v) ==
    CreateLink(r, u, d, l, [table |-> "required_capability", parent |-> p, value |-> v])
CreateServiceBayCapability(r, u, d, l, p, v) ==
    CreateLink(r, u, d, l, [table |-> "bay_capability", parent |-> p, value |-> v])
CreateTechnicianSkill(r, u, d, l, p, v) ==
    CreateLink(r, u, d, l, [table |-> "technician_skill", parent |-> p, value |-> v])

UpdateServiceTypeRequiredSkill(r, u, d, l, p, v) ==
    BeginLink(r, "load_link", u, d, l, [table |-> "required_skill", parent |-> p, value |-> v])
UpdateServiceTypeRequiredBayCapability(r, u, d, l, p, v) ==
    BeginLink(r, "load_link", u, d, l, [table |-> "required_capability", parent |-> p, value |-> v])
UpdateServiceBayCapability(r, u, d, l, p, v) ==
    BeginLink(r, "load_link", u, d, l, [table |-> "bay_capability", parent |-> p, value |-> v])
UpdateTechnicianSkill(r, u, d, l, p, v) ==
    BeginLink(r, "load_link", u, d, l, [table |-> "technician_skill", parent |-> p, value |-> v])

DeleteServiceTypeRequiredSkill(r, u, d, l, p, v) ==
    BeginLink(r, "delete_link", u, d, l, [table |-> "required_skill", parent |-> p, value |-> v])
DeleteServiceTypeRequiredBayCapability(r, u, d, l, p, v) ==
    BeginLink(r, "delete_link", u, d, l, [table |-> "required_capability", parent |-> p, value |-> v])
DeleteServiceBayCapability(r, u, d, l, p, v) ==
    BeginLink(r, "delete_link", u, d, l, [table |-> "bay_capability", parent |-> p, value |-> v])
\* The technician is looked up before the DELETE, not by it.
DeleteTechnicianSkill(r, u, d, l, p, v) ==
    /\ ActiveTechnician(p)
    /\ BeginLink(r, "delete_link", u, d, l, [table |-> "technician_skill", parent |-> p, value |-> v])

BeginAnyLink(r, u, d, l, p, v) ==
    \/ CreateServiceTypeRequiredSkill(r, u, d, l, p, v)
    \/ CreateServiceTypeRequiredBayCapability(r, u, d, l, p, v)
    \/ CreateServiceBayCapability(r, u, d, l, p, v)
    \/ CreateTechnicianSkill(r, u, d, l, p, v)
    \/ UpdateServiceTypeRequiredSkill(r, u, d, l, p, v)
    \/ UpdateServiceTypeRequiredBayCapability(r, u, d, l, p, v)
    \/ UpdateServiceBayCapability(r, u, d, l, p, v)
    \/ UpdateTechnicianSkill(r, u, d, l, p, v)
    \/ DeleteServiceTypeRequiredSkill(r, u, d, l, p, v)
    \/ DeleteServiceTypeRequiredBayCapability(r, u, d, l, p, v)
    \/ DeleteServiceBayCapability(r, u, d, l, p, v)
    \/ DeleteTechnicianSkill(r, u, d, l, p, v)

\* The unique constraints over (parent, value).
LinkTaken(l, row) == \E o \in LinkIDs \ {l} : links[o] = row

\* The named row of the table and parent.
IsLink(l, row) ==
    links[l] # Null /\ links[l].table = row.table /\ links[l].parent = row.parent

\* What each statement does once it runs.
Insert(r, table, found) ==
    LET q == office[r]
    IN  /\ q.stage = "add_link" /\ q.row.table = table
        /\ links' = IF found /\ ~ LinkTaken(q.link, q.row)
                    THEN [links EXCEPT ![q.link] = q.row]
                    ELSE links
        /\ AnswerOffice(r)
        /\ UNCHANGED <<entities, slots>>

Get(r, table, found) ==
    LET q == office[r]
    IN  /\ q.stage = "load_link" /\ q.row.table = table
        /\ office' = [office EXCEPT ![r] =
             IF found /\ IsLink(q.link, q.row) THEN [q EXCEPT !.stage = "update_link"]
                                               ELSE Waiting]
        /\ UNCHANGED <<accountVars, staffVars, accepted, entities, links, slots>>

Set(r, table, found) ==
    LET q == office[r]
    IN  /\ q.stage = "update_link" /\ q.row.table = table
        /\ links' = IF found /\ IsLink(q.link, q.row) /\ ~ LinkTaken(q.link, q.row)
                    THEN [links EXCEPT ![q.link].value = q.row.value]
                    ELSE links
        /\ AnswerOffice(r)
        /\ UNCHANGED <<entities, slots>>

Remove(r, table, found) ==
    LET q == office[r]
    IN  /\ q.stage = "delete_link" /\ q.row.table = table
        /\ links' = IF found /\ IsLink(q.link, q.row)
                    THEN [links EXCEPT ![q.link] = Null]
                    ELSE links
        /\ AnswerOffice(r)
        /\ UNCHANGED <<entities, slots>>

ParentRow(r, kind) == OwnedBy(office[r].dealership, kind, office[r].row.parent)

\* The statements of the four tables, with the parent each one joins.
InsertServiceTypeRequiredSkill(r) == Insert(r, "required_skill", ParentRow(r, "service_type"))
GetServiceTypeRequiredSkill(r) == Get(r, "required_skill", ParentRow(r, "service_type"))
SetServiceTypeRequiredSkill(r) == Set(r, "required_skill", ParentRow(r, "service_type"))
RemoveServiceTypeRequiredSkill(r) == Remove(r, "required_skill", ParentRow(r, "service_type"))

InsertServiceTypeRequiredBayCapability(r) ==
    Insert(r, "required_capability", ParentRow(r, "service_type"))
GetServiceTypeRequiredBayCapability(r) ==
    Get(r, "required_capability", ParentRow(r, "service_type"))
SetServiceTypeRequiredBayCapability(r) ==
    Set(r, "required_capability", ParentRow(r, "service_type"))
RemoveServiceTypeRequiredBayCapability(r) ==
    Remove(r, "required_capability", ParentRow(r, "service_type"))

InsertServiceBayCapability(r) == Insert(r, "bay_capability", ParentRow(r, "service_bay"))
GetServiceBayCapability(r) == Get(r, "bay_capability", ParentRow(r, "service_bay"))
SetServiceBayCapability(r) == Set(r, "bay_capability", ParentRow(r, "service_bay"))
RemoveServiceBayCapability(r) == Remove(r, "bay_capability", ParentRow(r, "service_bay"))

InsertTechnicianSkill(r) ==
    Insert(r, "technician_skill", ActiveTechnician(office[r].row.parent))
GetTechnicianSkill(r) == Get(r, "technician_skill", ActiveTechnician(office[r].row.parent))
SetTechnicianSkill(r) == Set(r, "technician_skill", ActiveTechnician(office[r].row.parent))
RemoveTechnicianSkill(r) == Remove(r, "technician_skill", TRUE)

LinkStep(r) ==
    \/ InsertServiceTypeRequiredSkill(r) \/ GetServiceTypeRequiredSkill(r)
    \/ SetServiceTypeRequiredSkill(r) \/ RemoveServiceTypeRequiredSkill(r)
    \/ InsertServiceTypeRequiredBayCapability(r) \/ GetServiceTypeRequiredBayCapability(r)
    \/ SetServiceTypeRequiredBayCapability(r) \/ RemoveServiceTypeRequiredBayCapability(r)
    \/ InsertServiceBayCapability(r) \/ GetServiceBayCapability(r)
    \/ SetServiceBayCapability(r) \/ RemoveServiceBayCapability(r)
    \/ InsertTechnicianSkill(r) \/ GetTechnicianSkill(r)
    \/ SetTechnicianSkill(r) \/ RemoveTechnicianSkill(r)

-----------------------------------------------------------------------------
(* Operating hours and shifts *)

\* authorizeDealershipOperationTimes: an admin of an active dealership.
AuthorizeDealershipOperationTimes(u, d) ==
    IsActiveSchedulerAdminForDealership(u, d) /\ GetActiveDealership(d)
AuthorizeTechnicianShifts(u, d) == Caller(u, "admin") /\ GetGlobalAdminDealership(u, d)

\* 422 for an empty or backward interval.
NewDealershipOperationTime(d, day, starts, ends) ==
    {s \in {[of |-> d, day |-> day, starts |-> starts, ends |-> ends]} : s.starts < s.ends}
NewTechnicianShift(e, day, starts, ends) ==
    {s \in {[of |-> e, day |-> day, starts |-> starts, ends |-> ends]} : s.starts < s.ends}

BeginSlot(r, stage, u, d, x, row) ==
    AcceptOffice(r, [stage |-> stage, by |-> u, dealership |-> d, slot |-> x, row |-> row])

FreshSlot(x) ==
    /\ slots[x] = Null
    /\ \A s \in Requests : office[s].stage = "add_slot" => office[s].slot # x

CreateDealershipOperationTime(r, u, d, x, day, starts, ends) ==
    /\ AuthorizeDealershipOperationTimes(u, d) /\ FreshSlot(x)
    /\ \E row \in NewDealershipOperationTime(d, day, starts, ends) :
         BeginSlot(r, "add_slot", u, d, x, row)

\* GetDealershipOperationTime finds the row by dealership and id; the fields
\* that are sent replace the ones read.
UpdateDealershipOperationTime(r, u, d, x, day, starts, ends) ==
    /\ AuthorizeDealershipOperationTimes(u, d)
    /\ slots[x] # Null /\ slots[x].of = d
    /\ \E row \in NewDealershipOperationTime(d, day, starts, ends) :
         BeginSlot(r, "update_slot", u, d, x, row)

DeleteDealershipOperationTime(r, u, d, x) ==
    /\ AuthorizeDealershipOperationTimes(u, d)
    /\ slots[x] # Null
    /\ BeginSlot(r, "delete_slot", u, d, x, slots[x])

\* CreateTechnicianShift for an active technician of the caller's dealership.
\* A shift can be neither updated nor deleted: both operations first run a
\* query that names users.timezone, a column no migration creates.
CreateTechnicianShift(r, u, d, x, e, day, starts, ends) ==
    /\ AuthorizeTechnicianShifts(u, d) /\ FreshSlot(x)
    /\ OwnedBy(d, "technician", e)
    /\ \E row \in NewTechnicianShift(e, day, starts, ends) :
         BeginSlot(r, "add_slot", u, d, x, row)

\* dealership_operation_time_no_overlap, technician_shifts_no_overlap.
SlotTaken(x, row) ==
    \E o \in SlotIDs \ {x} :
        /\ slots[o] # Null
        /\ slots[o].of = row.of /\ slots[o].day = row.day
        /\ slots[o].starts < row.ends /\ row.starts < slots[o].ends

InsertSlot(r) ==
    LET q == office[r]
    IN  /\ q.stage = "add_slot"
        /\ slots' = IF SlotTaken(q.slot, q.row) THEN slots
                    ELSE [slots EXCEPT ![q.slot] = q.row]
        /\ AnswerOffice(r)
        /\ UNCHANGED <<entities, links>>

InsertTechnicianShift(r) == office[r].row.of \in Entities /\ InsertSlot(r)
InsertDealershipOperationTime(r) == office[r].row.of \in Dealerships /\ InsertSlot(r)

\* Mutant of SetDealershipOperationTime: the constraint is not deferred to.
SetOverlapping(r) ==
    LET q == office[r]
    IN  /\ q.stage = "update_slot"
        /\ slots' = IF slots[q.slot] = Null THEN slots
                    ELSE [slots EXCEPT ![q.slot] = q.row]
        /\ AnswerOffice(r)
        /\ UNCHANGED <<entities, links>>

\* UPDATE by dealership and id: 404 once deleted, 409 for an overlap.
SetDealershipOperationTime(r) ==
    LET q == office[r]
    IN  /\ q.stage = "update_slot"
        /\ slots' = IF slots[q.slot] = Null \/ SlotTaken(q.slot, q.row) THEN slots
                    ELSE [slots EXCEPT ![q.slot] = q.row]
        /\ AnswerOffice(r)
        /\ UNCHANGED <<entities, links>>

RemoveDealershipOperationTime(r) ==
    LET q == office[r]
    IN  /\ q.stage = "delete_slot"
        /\ slots' = IF slots[q.slot] # Null /\ slots[q.slot].of = q.dealership
                    THEN [slots EXCEPT ![q.slot] = Null]
                    ELSE slots
        /\ AnswerOffice(r)
        /\ UNCHANGED <<entities, links>>

AbandonOffice(r) ==
    /\ office[r] # Waiting
    /\ AnswerOffice(r)
    /\ UNCHANGED <<entities, links, slots>>

-----------------------------------------------------------------------------
CatalogueInit(known, assigned, planned) ==
    /\ entities = known
    /\ links = assigned
    /\ slots = planned
    /\ office = [r \in Requests |-> Waiting]

EntitiesNext ==
    \E r \in Requests :
        \/ \E u \in Users, d \in Dealerships, e \in Entities, name \in Names :
             \/ CreateServiceType(r, u, d, e, name) \/ CreateServiceBay(r, u, d, e, name)
             \/ CreateTechnician(r, u, d, e, name) \/ Rename(r, u, d, e, name)
        \/ WriteEntity(r)

WithdrawalsNext == \E e \in Entities : Withdraw(e)

LinksNext ==
    \E r \in Requests :
        \/ \E u \in Users, d \in Dealerships, l \in LinkIDs, p \in Entities, v \in Values :
             BeginAnyLink(r, u, d, l, p, v)
        \/ LinkStep(r)

SlotsNext ==
    \E r \in Requests :
        \/ \E u \in Users, d \in Dealerships, x \in SlotIDs, day \in Days,
              starts, ends \in 0 .. Midnight :
             \/ CreateDealershipOperationTime(r, u, d, x, day, starts, ends)
             \/ UpdateDealershipOperationTime(r, u, d, x, day, starts, ends)
             \/ \E e \in Entities :
                  CreateTechnicianShift(r, u, d, x, e, day, starts, ends)
        \/ \E u \in Users, d \in Dealerships, x \in SlotIDs :
             DeleteDealershipOperationTime(r, u, d, x)
        \/ office[r].stage = "add_slot" /\
             (InsertTechnicianShift(r) \/ InsertDealershipOperationTime(r))
        \/ SetDealershipOperationTime(r) \/ RemoveDealershipOperationTime(r)

-----------------------------------------------------------------------------
\* Type correctness of the catalogue's tables and handlers.
CatalogueTypeOK ==
    /\ entities \in [Entities -> Entity \cup {Null}]
    /\ links \in [LinkIDs -> Link \cup {Null}]
    /\ slots \in [SlotIDs -> Slot \cup {Null}]
    /\ office \in [Requests -> OfficeTx \cup {Waiting}]

\* Whatever requests race: live types and bays of a dealership have names of
\* their own, a value is assigned to an entity once, and the intervals of one
\* dealership or technician on one day do not overlap and are not empty.
CatalogueSound ==
    /\ \A e \in Entities : Present(e) => ~ NameTaken(e, entities[e])
    /\ \A l, o \in LinkIDs : l # o /\ links[l] # Null => links[l] # links[o]
    /\ \A x \in SlotIDs : slots[x] # Null
         => slots[x].starts < slots[x].ends /\ ~ SlotTaken(x, slots[x])

\* The dealership whose rows a handler's step changed.
LinkDealership(l) ==
    entities[(IF links[l] # Null THEN links[l] ELSE links'[l]).parent].dealership
Unscoped(l) == (IF links[l] # Null THEN links[l] ELSE links'[l]).table = "technician_skill"

\* "A dealership is the tenant boundary" (2. SYSTEM_DESIGN.md:73): a step that
\* changes a required skill, a required or a bay capability is the step of a
\* request whose caller is an admin of the dealership the row belongs to.
\* (Technician skills are open to the admins of every dealership.)
TenantBoundary ==
    [][\A l \in LinkIDs :
         links'[l] # links[l] /\ ~ Unscoped(l)
           => \E r \in Requests :
                /\ office[r] # Waiting /\ office'[r] = Waiting
                /\ IsActiveSchedulerAdminForDealership(office[r].by, LinkDealership(l))
      ]_catalogueVars

\* Once a service type or a bay is deleted, what it was assigned stays as it
\* is, whatever request read it before: every statement names the parent's
\* deleted_at again.
WithdrawnFrozen ==
    [][\A l \in LinkIDs :
         /\ links[l] # Null /\ links[l].table # "technician_skill"
         /\ entities[links[l].parent].gone
         => links'[l] = links[l]]_catalogueVars

-----------------------------------------------------------------------------
AboutLink(q) == q.stage \in {"add_link", "load_link", "update_link", "delete_link"}

\* What the authorisation of a request and the checks of its input have
\* established holds until its statement runs: the caller is an admin of the
\* dealership it names (technician skills apart), a new row does not exist yet,
\* an interval is not empty.
OfficeSound(q) ==
    /\ AboutLink(q) /\ q.row.table # "technician_skill"
         => IsActiveSchedulerAdminForDealership(q.by, q.dealership)
    /\ q.stage = "add_link" => links[q.link] = Null
    /\ q.stage \in {"add_slot", "update_slot"} => q.row.starts < q.row.ends

\* Two requests never add the same new row.
AdditionsApart ==
    \A r, s \in Requests :
        r # s /\ office[r].stage = "add_link" /\ office[s].stage = "add_link"
          => office[r].link # office[s].link

CatalogueInv ==
    /\ CatalogueTypeOK
    /\ CatalogueSound
    /\ \A r \in Requests : OfficeSound(office[r])
    /\ AdditionsApart
=============================================================================
