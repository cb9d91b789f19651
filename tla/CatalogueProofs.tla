-------------------------- MODULE CatalogueProofs --------------------------
(***************************************************************************)
(* CatalogueInv is preserved by every step of the administrators'          *)
(* operations, and no step crosses the boundary between dealerships or     *)
(* touches what a withdrawn entity was assigned, for every value of the    *)
(* constants.                                                              *)
(***************************************************************************)
EXTENDS Catalogue, StaffProofs

\* A handler's state by its stage.
LEMMA OfficeByStage ==
    ASSUME NEW q \in OfficeTx \cup {Waiting}
    PROVE  /\ q.stage \in {"add_entity", "rename_entity"} =>
                q \in [stage : {"add_entity", "rename_entity"}, by : Users,
                       dealership : Dealerships, entity : Entities, row : Entity]
           /\ AboutLink(q) =>
                q \in [stage : {"add_link", "load_link", "update_link", "delete_link"},
                       by : Users, dealership : Dealerships, link : LinkIDs, row : Link]
           /\ q.stage \in {"add_slot", "update_slot", "delete_slot"} =>
                q \in [stage : {"add_slot", "update_slot", "delete_slot"},
                       by : Users, dealership : Dealerships, slot : SlotIDs, row : Slot]
  BY DEF OfficeTx, Waiting, AboutLink

\* A request that is not being handled owes nothing.
LEMMA IdleSound ==
    OfficeSound(Waiting) /\ Waiting.stage # "add_link"
  BY DEF OfficeSound, AboutLink, Waiting

\* Steps of the other components: members may be added, the catalogue stays.
LEMMA CatalogueKept ==
    ASSUME CatalogueInv, UNCHANGED catalogueVars, members \subseteq members'
    PROVE  CatalogueInv'
  <1>1. entities' = entities /\ links' = links /\ slots' = slots /\ office' = office
    BY DEF catalogueVars
  <1>2. CatalogueTypeOK'
    BY <1>1 DEF CatalogueInv, CatalogueTypeOK
  <1>3. CatalogueSound'
    BY <1>1 DEF CatalogueInv, CatalogueSound, Present, NameTaken, SlotTaken
  <1>4. \A r \in Requests : OfficeSound(office[r])'
    BY <1>1 DEF CatalogueInv, OfficeSound, IsActiveSchedulerAdminForDealership
  <1>5. AdditionsApart'
    BY <1>1 DEF CatalogueInv, AdditionsApart
  <1> QED
    BY <1>2, <1>3, <1>4, <1>5 DEF CatalogueInv

-----------------------------------------------------------------------------
(* Steps that only read *)

\* A handler reads and remembers q.
Handling(r, q) ==
    /\ office' = [office EXCEPT ![r] = q]
    /\ q \in OfficeTx \cup {Waiting}
    /\ OfficeSound(q)
    /\ q.stage = "add_link" =>
         \A s \in Requests \ {r} : office[s].stage = "add_link" => office[s].link # q.link
    /\ UNCHANGED <<accountVars, staffVars, entities, links, slots>>

\* A step that only changes a request's own record keeps the invariant.
LEMMA HandlingKeeps ==
    ASSUME CatalogueInv, NEW r \in Requests, NEW q, Handling(r, q)
    PROVE  CatalogueInv'
  <1>Q. /\ office' \in [Requests -> OfficeTx \cup {Waiting}]
        /\ office'[r] = q
        /\ \A s \in Requests \ {r} : office'[s] = office[s]
    BY DEF CatalogueInv, CatalogueTypeOK, Handling
  <1>1. entities' = entities /\ links' = links /\ slots' = slots /\ members' = members
    BY DEF Handling, staffVars
  <1>2. CatalogueTypeOK'
    BY <1>1, <1>Q DEF CatalogueInv, CatalogueTypeOK
  <1>3. CatalogueSound'
    BY <1>1 DEF CatalogueInv, CatalogueSound, Present, NameTaken, SlotTaken
  <1>4. ASSUME NEW s \in Requests PROVE OfficeSound(office[s])'
    <2>1. OfficeSound(office'[s])
      BY <1>Q DEF CatalogueInv, Handling
    <2> QED
      BY <2>1, <1>1 DEF OfficeSound, IsActiveSchedulerAdminForDealership
  <1>5. AdditionsApart'
    BY <1>Q DEF CatalogueInv, AdditionsApart, Handling
  <1> QED
    BY <1>2, <1>3, <1>4, <1>5 DEF CatalogueInv

\* An answer without a statement.
LEMMA AnswerHandles ==
    ASSUME NEW r, AnswerOffice(r), UNCHANGED <<entities, links, slots>>
    PROVE  Handling(r, Waiting)
  BY IdleSound DEF Handling, AnswerOffice

\* Accepting the creation or the change of an entity.
LEMMA EntityHandles ==
    ASSUME NEW r, NEW stage \in {"add_entity", "rename_entity"}, NEW u \in Users,
           NEW d \in Dealerships, NEW e \in Entities, NEW row \in Entity,
           AcceptOffice(r, [stage |-> stage, by |-> u, dealership |-> d, entity |-> e,
                            row |-> row])
    PROVE  \E q : Handling(r, q)
  <1> DEFINE q == [stage |-> stage, by |-> u, dealership |-> d, entity |-> e, row |-> row]
  <1>1. q \in OfficeTx \cup {Waiting} /\ q.stage = stage
    BY DEF OfficeTx
  <1>2. office' = [office EXCEPT ![r] = q]
        /\ UNCHANGED <<accountVars, staffVars, entities, links, slots>>
    BY DEF AcceptOffice
  <1> HIDE DEF q
  <1>3. OfficeSound(q)
    BY <1>1 DEF OfficeSound, AboutLink
  <1> QED
    BY <1>1, <1>2, <1>3 DEF Handling

\* Accepting a request about an association: its caller is authorised, and
\* the identifier of a new one is free.
LEMMA LinkHandles ==
    ASSUME NEW r, NEW stage \in {"add_link", "load_link", "delete_link"}, NEW u \in Users,
           NEW d \in Dealerships, NEW l \in LinkIDs, NEW row \in Link,
           stage = "add_link" =>
             /\ links[l] = Null
             /\ \A s \in Requests : office[s].stage = "add_link" => office[s].link # l,
           BeginLink(r, stage, u, d, l, row)
    PROVE  \E q : Handling(r, q)
  <1> DEFINE q == [stage |-> stage, by |-> u, dealership |-> d, link |-> l, row |-> row]
  <1>1. /\ q \in OfficeTx \cup {Waiting} /\ q.stage = stage /\ q.by = u
        /\ q.dealership = d /\ q.link = l /\ q.row = row
    BY DEF OfficeTx
  <1>2. /\ office' = [office EXCEPT ![r] = q]
        /\ UNCHANGED <<accountVars, staffVars, entities, links, slots>>
        /\ Authorize(row.table, u, d)
    BY DEF BeginLink, AcceptOffice
  <1>3. row.table # "technician_skill" => IsActiveSchedulerAdminForDealership(u, d)
    BY <1>2 DEF Authorize, AuthorizeServiceTypeRequiredSkills, Link, Table,
       AuthorizeServiceTypeRequiredBayCapabilities, AuthorizeServiceBayCapabilities
  <1> HIDE DEF q
  <1>4. OfficeSound(q)
    BY <1>1, <1>3 DEF OfficeSound, AboutLink
  <1> QED
    BY <1>1, <1>2, <1>4 DEF Handling

\* Accepting a request about an interval, which validation found not empty.
LEMMA SlotHandles ==
    ASSUME NEW r, NEW stage \in {"add_slot", "update_slot", "delete_slot"}, NEW u \in Users,
           NEW d \in Dealerships, NEW x \in SlotIDs, NEW row \in Slot,
           stage # "delete_slot" => row.starts < row.ends,
           BeginSlot(r, stage, u, d, x, row)
    PROVE  \E q : Handling(r, q)
  <1> DEFINE q == [stage |-> stage, by |-> u, dealership |-> d, slot |-> x, row |-> row]
  <1>1. q \in OfficeTx \cup {Waiting} /\ q.stage = stage /\ q.row = row
    BY DEF OfficeTx
  <1>2. office' = [office EXCEPT ![r] = q]
        /\ UNCHANGED <<accountVars, staffVars, entities, links, slots>>
    BY DEF BeginSlot, AcceptOffice
  <1> HIDE DEF q
  <1>3. OfficeSound(q)
    BY <1>1 DEF OfficeSound, AboutLink
  <1> QED
    BY <1>1, <1>2, <1>3 DEF Handling

-----------------------------------------------------------------------------
(* Steps that write *)

\* A handler that answers is Waiting, and the others are where they were.
LEMMA OfficeAnswers ==
    ASSUME CatalogueInv, NEW r \in Requests, AnswerOffice(r)
    PROVE  /\ office' \in [Requests -> OfficeTx \cup {Waiting}]
           /\ office'[r] = Waiting
           /\ \A s \in Requests \ {r} : office'[s] = office[s]
           /\ \A s \in Requests : OfficeSound(office'[s])
           /\ AdditionsApart'
           /\ members' = members
  <1>1. /\ office' \in [Requests -> OfficeTx \cup {Waiting}]
        /\ office'[r] = Waiting
        /\ \A s \in Requests \ {r} : office'[s] = office[s]
        /\ members' = members
    BY DEF CatalogueInv, CatalogueTypeOK, AnswerOffice, staffVars
  <1>2. AdditionsApart'
    BY <1>1, IdleSound DEF CatalogueInv, AdditionsApart
  <1> QED
    BY <1>1, <1>2, IdleSound DEF CatalogueInv

\* The entities change, with names of their own; the handlers stay, or one of
\* them answers.
LEMMA EntitiesChanged ==
    ASSUME CatalogueInv, entities' \in [Entities -> Entity \cup {Null}],
           \A e \in Entities : Present(e)' => ~ NameTaken(e, entities[e])',
           (\E r \in Requests : AnswerOffice(r)) \/ UNCHANGED <<staffVars, office>>,
           UNCHANGED <<links, slots>>
    PROVE  CatalogueInv'
  <1>1. /\ office' \in [Requests -> OfficeTx \cup {Waiting}]
        /\ \A s \in Requests : OfficeSound(office'[s])
        /\ AdditionsApart'
        /\ members' = members
    <2>1. CASE \E r \in Requests : AnswerOffice(r)
      BY <2>1, OfficeAnswers
    <2>2. CASE UNCHANGED <<staffVars, office>>
      BY <2>2 DEF CatalogueInv, CatalogueTypeOK, AdditionsApart, staffVars
    <2> QED
      BY <2>1, <2>2
  <1>2. CatalogueTypeOK'
    BY <1>1 DEF CatalogueInv, CatalogueTypeOK
  <1>3. CatalogueSound'
    BY DEF CatalogueInv, CatalogueSound, SlotTaken
  <1>4. ASSUME NEW s \in Requests PROVE OfficeSound(office[s])'
    <2>1. OfficeSound(office'[s])
      BY <1>1
    <2> QED
      BY <2>1, <1>1 DEF OfficeSound, IsActiveSchedulerAdminForDealership
  <1> QED
    BY <1>1, <1>2, <1>3, <1>4 DEF CatalogueInv

\* The statement that writes an entity meets its unique index.
LEMMA WriteEntityKeeps ==
    ASSUME CatalogueInv, NEW r \in Requests, WriteEntity(r)
    PROVE  CatalogueInv'
  <1> DEFINE q == office[r]
             n == q.entity
             row == q.row
  <1>1. q \in OfficeTx \cup {Waiting} /\ q.stage \in {"add_entity", "rename_entity"}
    BY DEF WriteEntity, CatalogueInv, CatalogueTypeOK
  <1>2. n \in Entities /\ row \in Entity
    BY <1>1, OfficeByStage
  <1>3. /\ AnswerOffice(r) /\ UNCHANGED <<links, slots>>
        /\ \/ entities' = entities
           \/ ~ NameTaken(n, row) /\ entities' = [entities EXCEPT ![n] = row]
    BY DEF WriteEntity
  <1> HIDE DEF q, n, row
  <1>4. CASE entities' = entities
    BY <1>3, <1>4, AnswerHandles, HandlingKeeps
  <1>5. CASE ~ NameTaken(n, row) /\ entities' = [entities EXCEPT ![n] = row]
    <2>1. /\ entities' \in [Entities -> Entity \cup {Null}]
          /\ entities'[n] = row
          /\ \A e \in Entities \ {n} : entities'[e] = entities[e]
      BY <1>2, <1>5 DEF CatalogueInv, CatalogueTypeOK
    <2>2. ASSUME NEW e \in Entities, Present(e)'
          PROVE  ~ NameTaken(e, entities[e])'
      <3>1. CASE e = n
        BY <3>1, <2>1, <1>5 DEF NameTaken, Present
      <3>2. CASE e # n
        <4>1. Present(e) /\ entities'[e] = entities[e] /\ ~ NameTaken(e, entities[e])
          BY <3>2, <2>1, <2>2 DEF CatalogueInv, CatalogueSound, Present
        <4> QED
          BY <3>2, <4>1, <2>1, <1>5 DEF NameTaken, Present
      <3> QED
        BY <3>1, <3>2
    <2> QED
      BY <2>1, <2>2, <1>3, EntitiesChanged
  <1> QED
    BY <1>3, <1>4, <1>5

\* A withdrawal frees a name and takes none.
LEMMA WithdrawKeeps ==
    ASSUME CatalogueInv, NEW e \in Entities, Withdraw(e)
    PROVE  CatalogueInv'
  <1> DEFINE old == entities[e]
             row == [old EXCEPT !.gone = TRUE]
  <1>1. old \in Entity
    BY DEF Withdraw, Present, CatalogueInv, CatalogueTypeOK
  <1>2. /\ entities' = [entities EXCEPT ![e] = row]
        /\ UNCHANGED <<staffVars, links, slots, office>>
    BY DEF Withdraw
  <1>3. row \in Entity /\ row.gone
    <2> HIDE DEF old
    <2> QED
      BY <1>1 DEF Entity
  <1> HIDE DEF row
  <1>4. /\ entities' \in [Entities -> Entity \cup {Null}]
        /\ entities'[e] = row
        /\ \A o \in Entities \ {e} : entities'[o] = entities[o]
    BY <1>2, <1>3 DEF CatalogueInv, CatalogueTypeOK
  <1>5. \A o \in Entities : Present(o)' => o # e /\ Present(o) /\ entities'[o] = entities[o]
    BY <1>3, <1>4 DEF Present
  <1>6. ASSUME NEW o \in Entities, Present(o)' PROVE ~ NameTaken(o, entities[o])'
    <2>1. ~ NameTaken(o, entities[o]) /\ entities'[o] = entities[o]
      BY <1>5, <1>6 DEF CatalogueInv, CatalogueSound
    <2> QED
      BY <2>1, <1>5 DEF NameTaken
  <1> QED
    BY <1>2, <1>4, <1>6, EntitiesChanged

\* A statement puts x in the place of a link: the row of the request, unless
\* it is assigned already, or nothing; where there was no row, or the one of
\* the same table and parent; and the parent is of the dealership and not gone.
LinkWritten(r, x) ==
    LET q == office[r]
    IN  /\ AboutLink(q)
        /\ links' = [links EXCEPT ![q.link] = x]
        /\ x = Null \/ (x = q.row /\ ~ LinkTaken(q.link, q.row))
        /\ \/ q.stage = "add_link" /\ x = q.row
           \/ links[q.link] # Null /\ IsLink(q.link, q.row)
        /\ q.row.table # "technician_skill" =>
             /\ Present(q.row.parent)
             /\ entities[q.row.parent].dealership = q.dealership
        /\ AnswerOffice(r)
        /\ UNCHANGED <<entities, slots>>

\* A statement on an association table keeps the invariant.
LEMMA LinkWrittenKeeps ==
    ASSUME CatalogueInv, NEW r \in Requests, NEW x, LinkWritten(r, x)
    PROVE  CatalogueInv'
  <1> DEFINE q == office[r]
             l == q.link
  <1>1. q \in OfficeTx \cup {Waiting} /\ AboutLink(q) /\ OfficeSound(q)
    BY DEF LinkWritten, CatalogueInv, CatalogueTypeOK
  <1>2. l \in LinkIDs /\ q.row \in Link /\ q.row # Null
    BY <1>1, OfficeByStage, CatalogueAssumption
  <1>3. /\ links' = [links EXCEPT ![l] = x]
        /\ x = Null \/ (x = q.row /\ ~ LinkTaken(l, q.row))
        /\ q.stage = "add_link" \/ links[l] # Null
        /\ AnswerOffice(r) /\ UNCHANGED <<entities, slots>>
    BY DEF LinkWritten
  <1>4. /\ links' \in [LinkIDs -> Link \cup {Null}]
        /\ links'[l] = x
        /\ \A o \in LinkIDs \ {l} : links'[o] = links[o]
    BY <1>2, <1>3 DEF CatalogueInv, CatalogueTypeOK
  <1>A. /\ office' \in [Requests -> OfficeTx \cup {Waiting}]
        /\ office'[r] = Waiting
        /\ \A s \in Requests \ {r} : office'[s] = office[s]
        /\ \A s \in Requests : OfficeSound(office'[s])
        /\ AdditionsApart'
        /\ members' = members
    BY <1>3, OfficeAnswers
  <1>5. CatalogueTypeOK'
    BY <1>3, <1>4, <1>A DEF CatalogueInv, CatalogueTypeOK
  <1>6. ASSUME NEW a \in LinkIDs, NEW o \in LinkIDs, a # o, links'[a] # Null
        PROVE  links'[a] # links'[o]
    <2>1. CASE a # l /\ o # l
      BY <2>1, <1>4, <1>6 DEF CatalogueInv, CatalogueSound
    <2>2. CASE a = l
      BY <2>2, <1>3, <1>4, <1>6 DEF LinkTaken
    <2>3. CASE o = l
      BY <2>3, <1>3, <1>4, <1>6 DEF LinkTaken
    <2> QED
      BY <2>1, <2>2, <2>3
  <1>7. CatalogueSound'
    BY <1>3, <1>6 DEF CatalogueInv, CatalogueSound, Present, NameTaken, SlotTaken
  <1>8. ASSUME NEW s \in Requests PROVE OfficeSound(office[s])'
    <2>1. OfficeSound(office'[s])
      BY <1>A
    <2>2. office'[s].stage = "add_link" => links'[office'[s].link] = Null
      <3>1. CASE s = r
        BY <3>1, <1>A, IdleSound
      <3>2. ASSUME s # r, office[s].stage = "add_link"
            PROVE  links'[office[s].link] = Null
        <4>1. links[office[s].link] = Null /\ office[s].link \in LinkIDs
          <5>1. OfficeSound(office[s]) /\ office[s] \in OfficeTx \cup {Waiting}
                /\ AboutLink(office[s])
            BY <3>2 DEF CatalogueInv, CatalogueTypeOK, AboutLink
          <5> QED
            BY <5>1, <3>2, OfficeByStage DEF OfficeSound
        <4>2. office[s].link # l
          BY <4>1, <3>2, <1>3 DEF CatalogueInv, AdditionsApart
        <4> QED
          BY <4>1, <4>2, <1>4
      <3> QED
        BY <3>1, <3>2, <1>A
    <2> QED
      BY <2>1, <2>2, <1>A DEF OfficeSound, IsActiveSchedulerAdminForDealership
  <1> QED
    BY <1>5, <1>7, <1>8, <1>A DEF CatalogueInv

\* Every statement on the four tables writes a link so, or reads one.
LEMMA StatementForm ==
    ASSUME CatalogueInv, NEW r \in Requests, NEW table, NEW found,
           found /\ table # "technician_skill" =>
             /\ Present(office[r].row.parent)
             /\ entities[office[r].row.parent].dealership = office[r].dealership,
           Insert(r, table, found) \/ Get(r, table, found)
             \/ Set(r, table, found) \/ Remove(r, table, found)
    PROVE  (\E x : LinkWritten(r, x)) \/ (\E q : Handling(r, q))
  <1> DEFINE q == office[r]
             l == q.link
  <1>1. q \in OfficeTx \cup {Waiting} /\ AboutLink(q) /\ OfficeSound(q) /\ q.row.table = table
    BY DEF Insert, Get, Set, Remove, AboutLink, CatalogueInv, CatalogueTypeOK
  <1>2. q \in [stage : {"add_link", "load_link", "update_link", "delete_link"},
               by : Users, dealership : Dealerships, link : LinkIDs, row : Link]
    BY <1>1, OfficeByStage
  <1>3. ASSUME AnswerOffice(r), UNCHANGED <<entities, slots>>, links' = links
        PROVE  Handling(r, Waiting)
    BY <1>3, AnswerHandles
  <1>4. CASE Insert(r, table, found)
    <2>1. CASE found /\ ~ LinkTaken(l, q.row)
      <3>1. LinkWritten(r, q.row)
        BY <2>1, <1>1, <1>4 DEF Insert, LinkWritten
      <3> QED
        BY <3>1
    <2> QED
      BY <2>1, <1>3, <1>4 DEF Insert
  <1>5. CASE Remove(r, table, found)
    <2>1. CASE found /\ IsLink(l, q.row)
      <3>1. LinkWritten(r, Null)
        BY <2>1, <1>1, <1>5 DEF Remove, LinkWritten, IsLink
      <3> QED
        BY <3>1
    <2> QED
      BY <2>1, <1>3, <1>5 DEF Remove
  <1>6. CASE Set(r, table, found)
    <2>1. CASE found /\ IsLink(l, q.row) /\ ~ LinkTaken(l, q.row)
      <3>1. links' = [links EXCEPT ![l].value = q.row.value]
        BY <2>1, <1>6 DEF Set
      <3>2. /\ links \in [LinkIDs -> Link \cup {Null}] /\ links[l] \in Link
            /\ links[l].table = q.row.table /\ links[l].parent = q.row.parent
            /\ l \in LinkIDs /\ q.row \in Link
        BY <2>1, <1>2 DEF IsLink, CatalogueInv, CatalogueTypeOK
      <3>3. [links[l] EXCEPT !.value = q.row.value] = q.row
        BY <3>2 DEF Link
      <3>4. links' = [links EXCEPT ![l] = q.row]
        BY <3>1, <3>3
      <3>5. LinkWritten(r, q.row)
        BY <2>1, <3>4, <1>1, <1>6 DEF Set, LinkWritten, IsLink
      <3> QED
        BY <3>5
    <2> QED
      BY <2>1, <1>3, <1>6 DEF Set
  <1>7. CASE Get(r, table, found)
    <2> DEFINE p == [q EXCEPT !.stage = "update_link"]
    <2>1. /\ office' = [office EXCEPT ![r] = p] \/ office' = [office EXCEPT ![r] = Waiting]
          /\ UNCHANGED <<accountVars, staffVars, entities, links, slots>>
      BY <1>7 DEF Get
    <2>2. CASE office' = [office EXCEPT ![r] = Waiting]
      <3>1. Handling(r, Waiting)
        BY <2>1, <2>2, IdleSound DEF Handling
      <3> QED
        BY <3>1
    <2>3. CASE office' = [office EXCEPT ![r] = p]
      <3> HIDE DEF q
      <3>1. /\ p \in OfficeTx \cup {Waiting} /\ p.stage = "update_link" /\ p.by = q.by
            /\ p.dealership = q.dealership /\ p.row = q.row
        BY <1>2 DEF OfficeTx
      <3> HIDE DEF p
      <3>2. OfficeSound(p)
        BY <3>1, <1>1 DEF OfficeSound, AboutLink
      <3>3. Handling(r, p)
        BY <3>1, <3>2, <2>1, <2>3 DEF Handling
      <3> QED
        BY <3>3
    <2> QED
      BY <2>1, <2>2, <2>3
  <1> QED
    BY <1>4, <1>5, <1>6, <1>7

\* Every statement on the four association tables either writes one row or
\* leaves the tables alone.
LEMMA LinkStepForm ==
    ASSUME CatalogueInv, NEW r \in Requests, LinkStep(r)
    PROVE  (\E x : LinkWritten(r, x)) \/ (\E q : Handling(r, q))
  <1> DEFINE Statement(table, found) ==
               Insert(r, table, found) \/ Get(r, table, found)
                 \/ Set(r, table, found) \/ Remove(r, table, found)
             Scoped(found) ==
               found => /\ Present(office[r].row.parent)
                        /\ entities[office[r].row.parent].dealership = office[r].dealership
             Form == (\E x : LinkWritten(r, x)) \/ (\E q : Handling(r, q))
  <1>1. ASSUME NEW table, NEW found, Statement(table, found),
               table # "technician_skill" => Scoped(found)
        PROVE  Form
    BY <1>1, StatementForm
  <1>2. Scoped(ParentRow(r, "service_type")) /\ Scoped(ParentRow(r, "service_bay"))
    BY DEF ParentRow, OwnedBy
  <1> HIDE DEF Scoped, Form, Statement
  <1>3. ASSUME \/ Statement("required_skill", ParentRow(r, "service_type"))
               \/ Statement("required_capability", ParentRow(r, "service_type"))
               \/ Statement("bay_capability", ParentRow(r, "service_bay"))
        PROVE  Form
    BY <1>1, <1>2, <1>3
  <1>4. ASSUME \/ Statement("technician_skill", ActiveTechnician(office[r].row.parent))
               \/ Statement("technician_skill", TRUE)
        PROVE  Form
    BY <1>1, <1>4
  <1>5. \/ Statement("required_skill", ParentRow(r, "service_type"))
        \/ Statement("required_capability", ParentRow(r, "service_type"))
        \/ Statement("bay_capability", ParentRow(r, "service_bay"))
        \/ Statement("technician_skill", ActiveTechnician(office[r].row.parent))
        \/ Statement("technician_skill", TRUE)
    BY DEF Statement, LinkStep, InsertServiceTypeRequiredSkill, GetServiceTypeRequiredSkill,
       SetServiceTypeRequiredSkill, RemoveServiceTypeRequiredSkill,
       InsertServiceTypeRequiredBayCapability, GetServiceTypeRequiredBayCapability,
       SetServiceTypeRequiredBayCapability, RemoveServiceTypeRequiredBayCapability,
       InsertServiceBayCapability, GetServiceBayCapability, SetServiceBayCapability,
       RemoveServiceBayCapability, InsertTechnicianSkill, GetTechnicianSkill,
       SetTechnicianSkill, RemoveTechnicianSkill
  <1> QED
    BY <1>3, <1>4, <1>5 DEF Form

\* Every request about a link is authorised before anything else.
LEMMA BeginAnyLinkHandles ==
    ASSUME NEW r \in Requests, NEW u \in Users, NEW d \in Dealerships, NEW l \in LinkIDs,
           NEW p \in Entities, NEW v \in Values, BeginAnyLink(r, u, d, l, p, v)
    PROVE  \E q : Handling(r, q)
  <1> DEFINE Row(table) == [table |-> table, parent |-> p, value |-> v]
  <1>1. \A table \in Table : Row(table) \in Link
    BY DEF Link
  <1> HIDE DEF Row
  <1>2. \E table \in Table :
          \/ CreateLink(r, u, d, l, Row(table))
          \/ BeginLink(r, "load_link", u, d, l, Row(table))
          \/ BeginLink(r, "delete_link", u, d, l, Row(table))
    BY DEF BeginAnyLink, Row, Table,
       CreateServiceTypeRequiredSkill, CreateServiceTypeRequiredBayCapability,
       CreateServiceBayCapability, CreateTechnicianSkill,
       UpdateServiceTypeRequiredSkill, UpdateServiceTypeRequiredBayCapability,
       UpdateServiceBayCapability, UpdateTechnicianSkill,
       DeleteServiceTypeRequiredSkill, DeleteServiceTypeRequiredBayCapability,
       DeleteServiceBayCapability, DeleteTechnicianSkill
  <1>3. ASSUME NEW row \in Link, CreateLink(r, u, d, l, row)
        PROVE  \E q : Handling(r, q)
    BY <1>3, LinkHandles DEF CreateLink
  <1>4. ASSUME NEW row \in Link, NEW stage \in {"load_link", "delete_link"},
               BeginLink(r, stage, u, d, l, row)
        PROVE  \E q : Handling(r, q)
    BY <1>4, LinkHandles
  <1> QED
    BY <1>1, <1>2, <1>3, <1>4

\* A statement puts y in the place of an interval: one that is not empty and
\* overlaps no other, or nothing.
SlotWritten(r, x, y) ==
    /\ slots' = [slots EXCEPT ![x] = y]
    /\ \/ y = Null
       \/ y \in Slot /\ y.starts < y.ends /\ ~ SlotTaken(x, y)
    /\ AnswerOffice(r)
    /\ UNCHANGED <<entities, links>>

\* Writing or removing an interval that its exclusion constraint admits.
LEMMA SlotWrittenKeeps ==
    ASSUME CatalogueInv, NEW r \in Requests, NEW x \in SlotIDs, NEW y, SlotWritten(r, x, y)
    PROVE  CatalogueInv'
  <1>1. /\ slots' \in [SlotIDs -> Slot \cup {Null}]
        /\ slots'[x] = y
        /\ \A o \in SlotIDs \ {x} : slots'[o] = slots[o]
        /\ y = Null \/ (y.starts < y.ends /\ ~ SlotTaken(x, y))
        /\ AnswerOffice(r) /\ UNCHANGED <<entities, links>>
    BY DEF SlotWritten, CatalogueInv, CatalogueTypeOK
  <1>A. /\ office' \in [Requests -> OfficeTx \cup {Waiting}]
        /\ \A s \in Requests : OfficeSound(office'[s])
        /\ AdditionsApart'
        /\ members' = members
    BY <1>1, OfficeAnswers
  <1>2. CatalogueTypeOK'
    BY <1>1, <1>A DEF CatalogueInv, CatalogueTypeOK
  <1>3. ASSUME NEW o \in SlotIDs, slots'[o] # Null
        PROVE  slots'[o].starts < slots'[o].ends /\ ~ SlotTaken(o, slots[o])'
    <2>1. CASE o = x
      BY <2>1, <1>1, <1>3 DEF SlotTaken
    <2>2. CASE o # x
      <3>1. /\ slots'[o] = slots[o] /\ slots[o] # Null
            /\ slots[o].starts < slots[o].ends /\ ~ SlotTaken(o, slots[o])
        BY <2>2, <1>1, <1>3 DEF CatalogueInv, CatalogueSound
      <3> QED
        BY <2>2, <3>1, <1>1 DEF SlotTaken
    <2> QED
      BY <2>1, <2>2
  <1>4. CatalogueSound'
    BY <1>1, <1>3 DEF CatalogueInv, CatalogueSound, Present, NameTaken
  <1>5. ASSUME NEW s \in Requests PROVE OfficeSound(office[s])'
    <2>1. OfficeSound(office'[s])
      BY <1>A
    <2> QED
      BY <2>1, <1>1, <1>A DEF OfficeSound, IsActiveSchedulerAdminForDealership
  <1> QED
    BY <1>2, <1>4, <1>5, <1>A DEF CatalogueInv

\* The three statements on operating hours and shifts.
LEMMA SlotStepKeeps ==
    ASSUME CatalogueInv, NEW r \in Requests,
           InsertSlot(r) \/ SetDealershipOperationTime(r) \/ RemoveDealershipOperationTime(r)
    PROVE  CatalogueInv'
  <1> DEFINE q == office[r]
             x == q.slot
  <1>1. /\ q \in OfficeTx \cup {Waiting} /\ OfficeSound(q)
        /\ q.stage \in {"add_slot", "update_slot", "delete_slot"}
    BY DEF InsertSlot, SetDealershipOperationTime, RemoveDealershipOperationTime,
           CatalogueInv, CatalogueTypeOK
  <1>2. /\ x \in SlotIDs /\ q.row \in Slot
        /\ q.stage \in {"add_slot", "update_slot"} => q.row.starts < q.row.ends
    BY <1>1, OfficeByStage DEF OfficeSound
  <1>3. AnswerOffice(r) /\ UNCHANGED <<entities, links>>
    BY DEF InsertSlot, SetDealershipOperationTime, RemoveDealershipOperationTime
  <1>4. \/ slots' = slots
        \/ slots' = [slots EXCEPT ![x] = Null]
        \/ /\ q.stage \in {"add_slot", "update_slot"} /\ ~ SlotTaken(x, q.row)
           /\ slots' = [slots EXCEPT ![x] = q.row]
    BY DEF InsertSlot, SetDealershipOperationTime, RemoveDealershipOperationTime
  <1>5. CASE slots' = slots
    BY <1>3, <1>5, AnswerHandles, HandlingKeeps
  <1>6. CASE slots' = [slots EXCEPT ![x] = Null]
    BY <1>2, <1>3, <1>6, SlotWrittenKeeps DEF SlotWritten
  <1>7. CASE /\ q.stage \in {"add_slot", "update_slot"} /\ ~ SlotTaken(x, q.row)
             /\ slots' = [slots EXCEPT ![x] = q.row]
    BY <1>2, <1>3, <1>7, SlotWrittenKeeps DEF SlotWritten
  <1> QED
    BY <1>4, <1>5, <1>6, <1>7

\* An accepted interval is not empty and lies within the day.
LEMMA NewSlotHandles ==
    ASSUME NEW r, NEW stage \in {"add_slot", "update_slot"}, NEW u \in Users,
           NEW d \in Dealerships, NEW x \in SlotIDs, NEW of \in Dealerships \cup Entities,
           NEW day \in Days, NEW starts \in 0 .. Midnight, NEW ends \in 0 .. Midnight,
           NEW row \in {s \in {[of |-> of, day |-> day, starts |-> starts, ends |-> ends]} :
                          s.starts < s.ends},
           BeginSlot(r, stage, u, d, x, row)
    PROVE  \E q : Handling(r, q)
  <1>1. row \in Slot /\ row.starts < row.ends
    BY DEF Slot
  <1> QED
    BY <1>1, SlotHandles

-----------------------------------------------------------------------------
\* The steps of the four groups of operations read or write one row.
LEMMA EntitiesStep ==
    ASSUME CatalogueInv, EntitiesNext \/ WithdrawalsNext
    PROVE  CatalogueInv'
  <1>1. ASSUME NEW r \in Requests, NEW u \in Users, NEW d \in Dealerships,
               NEW e \in Entities, NEW kind \in Kind, NEW name \in Names,
               AddEntity(r, u, d, e, kind, name)
        PROVE  \E q : Handling(r, q)
    <2> DEFINE row == [kind |-> kind, dealership |-> d, name |-> name, gone |-> FALSE]
    <2>1. row \in Entity
      BY DEF Entity
    <2>2. AcceptOffice(r, [stage |-> "add_entity", by |-> u, dealership |-> d, entity |-> e,
                           row |-> row])
      BY <1>1 DEF AddEntity
    <2> HIDE DEF row
    <2> QED
      BY <2>1, <2>2, EntityHandles
  <1>2. ASSUME NEW r \in Requests, NEW u \in Users, NEW d \in Dealerships,
               NEW e \in Entities, NEW name \in Names, Rename(r, u, d, e, name)
        PROVE  \E q : Handling(r, q)
    <2> DEFINE old == entities[e]
               row == [old EXCEPT !.name = name]
    <2>1. old \in Entity
      BY <1>2 DEF Rename, Present, CatalogueInv, CatalogueTypeOK
    <2>2. AcceptOffice(r, [stage |-> "rename_entity", by |-> u, dealership |-> d,
                           entity |-> e, row |-> row])
      BY <1>2 DEF Rename
    <2>3. row \in Entity
      <3> HIDE DEF old
      <3> QED
        BY <2>1 DEF Entity
    <2> HIDE DEF row
    <2> QED
      BY <2>2, <2>3, EntityHandles
  <1>3. CASE WithdrawalsNext
    BY <1>3, WithdrawKeeps DEF WithdrawalsNext
  <1>4. CASE EntitiesNext
    <2>1. PICK r \in Requests :
            \/ \E u \in Users, d \in Dealerships, e \in Entities, name \in Names :
                 \/ CreateServiceType(r, u, d, e, name) \/ CreateServiceBay(r, u, d, e, name)
                 \/ CreateTechnician(r, u, d, e, name) \/ Rename(r, u, d, e, name)
            \/ WriteEntity(r)
      BY <1>4 DEF EntitiesNext
    <2>2. ASSUME NEW u \in Users, NEW d \in Dealerships, NEW e \in Entities,
                 NEW name \in Names,
                 \/ CreateServiceType(r, u, d, e, name) \/ CreateServiceBay(r, u, d, e, name)
                 \/ CreateTechnician(r, u, d, e, name) \/ Rename(r, u, d, e, name)
          PROVE  \E q : Handling(r, q)
      BY <1>1, <1>2, <2>2 DEF CreateServiceType, CreateServiceBay, CreateTechnician, Kind
    <2> QED
      BY <2>1, <2>2, HandlingKeeps, WriteEntityKeeps
  <1> QED
    BY <1>3, <1>4

\* Steps of the association handlers.
LEMMA LinksStep ==
    ASSUME CatalogueInv, LinksNext
    PROVE  CatalogueInv'
  BY BeginAnyLinkHandles, LinkStepForm, HandlingKeeps, LinkWrittenKeeps DEF LinksNext

\* Steps of the handlers of operating hours and shifts.
LEMMA SlotsStep ==
    ASSUME CatalogueInv, SlotsNext
    PROVE  CatalogueInv'
  <1>1. PICK r \in Requests :
        \/ \E u \in Users, d \in Dealerships, x \in SlotIDs, day \in Days,
              starts, ends \in 0 .. Midnight :
             \/ CreateDealershipOperationTime(r, u, d, x, day, starts, ends)
             \/ UpdateDealershipOperationTime(r, u, d, x, day, starts, ends)
             \/ \E e \in Entities :
                  CreateTechnicianShift(r, u, d, x, e, day, starts, ends)
        \/ \E u \in Users, d \in Dealerships, x \in SlotIDs :
             DeleteDealershipOperationTime(r, u, d, x)
        \/ office[r].stage = "add_slot" /\
             (InsertTechnicianShift(r) \/ InsertDealershipOperationTime(r))
        \/ SetDealershipOperationTime(r) \/ RemoveDealershipOperationTime(r)
    BY DEF SlotsNext
  <1>2. ASSUME NEW u \in Users, NEW d \in Dealerships, NEW x \in SlotIDs, NEW day \in Days,
               NEW starts \in 0 .. Midnight, NEW ends \in 0 .. Midnight,
               \/ CreateDealershipOperationTime(r, u, d, x, day, starts, ends)
               \/ UpdateDealershipOperationTime(r, u, d, x, day, starts, ends)
        PROVE  \E q : Handling(r, q)
    <2>1. \E stage \in {"add_slot", "update_slot"},
             row \in NewDealershipOperationTime(d, day, starts, ends) :
               BeginSlot(r, stage, u, d, x, row)
      BY <1>2 DEF CreateDealershipOperationTime, UpdateDealershipOperationTime
    <2> QED
      BY <2>1, NewSlotHandles DEF NewDealershipOperationTime
  <1>3. ASSUME NEW u \in Users, NEW d \in Dealerships, NEW x \in SlotIDs, NEW day \in Days,
               NEW starts \in 0 .. Midnight, NEW ends \in 0 .. Midnight, NEW e \in Entities,
               CreateTechnicianShift(r, u, d, x, e, day, starts, ends)
        PROVE  \E q : Handling(r, q)
    <2>1. \E row \in NewTechnicianShift(e, day, starts, ends) :
            BeginSlot(r, "add_slot", u, d, x, row)
      BY <1>3 DEF CreateTechnicianShift
    <2> QED
      BY <2>1, NewSlotHandles DEF NewTechnicianShift
  <1>4. ASSUME NEW u \in Users, NEW d \in Dealerships, NEW x \in SlotIDs,
               DeleteDealershipOperationTime(r, u, d, x)
        PROVE  \E q : Handling(r, q)
    <2>1. slots[x] \in Slot /\ BeginSlot(r, "delete_slot", u, d, x, slots[x])
      BY <1>4 DEF DeleteDealershipOperationTime, CatalogueInv, CatalogueTypeOK
    <2> QED
      BY <2>1, SlotHandles
  <1>5. CASE \/ InsertTechnicianShift(r) \/ InsertDealershipOperationTime(r)
             \/ SetDealershipOperationTime(r) \/ RemoveDealershipOperationTime(r)
    BY <1>5, SlotStepKeeps DEF InsertTechnicianShift, InsertDealershipOperationTime
  <1> QED
    BY <1>1, <1>2, <1>3, <1>4, <1>5, HandlingKeeps

\* CatalogueInv is inductive.
CatalogueNext ==
    \/ EntitiesNext \/ WithdrawalsNext \/ LinksNext \/ SlotsNext
    \/ \E r \in Requests : AbandonOffice(r)

\* A step of the catalogue keeps its invariant.
LEMMA CatalogueStep ==
    ASSUME CatalogueInv, CatalogueNext
    PROVE  CatalogueInv'
  <1>1. ASSUME NEW r \in Requests, AbandonOffice(r) PROVE CatalogueInv'
    BY <1>1, AnswerHandles, HandlingKeeps DEF AbandonOffice
  <1> QED
    BY <1>1, EntitiesStep, LinksStep, SlotsStep DEF CatalogueNext

\* Its steps change nothing else, and count the requests.
LEMMA CatalogueApart ==
    ASSUME AccountsInv, CatalogueNext
    PROVE  UNCHANGED <<accountVars, staffVars>> /\ accepted' \in Nat
  <1> DEFINE Apart == UNCHANGED <<accountVars, staffVars>> /\ accepted' \in Nat
  <1>1. accepted \in Nat
    BY DEF AccountsInv, AccountsTypeOK
  <1>2. ASSUME NEW r, NEW q, AcceptOffice(r, q) \/ AnswerOffice(r) PROVE Apart
    BY <1>1, <1>2 DEF AcceptOffice, AnswerOffice
  <1>3. ASSUME NEW e, Withdraw(e) PROVE Apart
    BY <1>1, <1>3 DEF Withdraw
  <1>4. ASSUME NEW r, NEW table, NEW found, Get(r, table, found) PROVE Apart
    BY <1>1, <1>4 DEF Get
  <1> HIDE DEF Apart
  <1>5. ASSUME NEW r, NEW stage, NEW u, NEW d, NEW l, NEW row,
               BeginLink(r, stage, u, d, l, row) \/ CreateLink(r, u, d, l, row)
        PROVE  Apart
    BY <1>2, <1>5 DEF BeginLink, CreateLink
  <1>6. ASSUME NEW r, NEW stage, NEW u, NEW d, NEW x, NEW row, BeginSlot(r, stage, u, d, x, row)
        PROVE  Apart
    BY <1>2, <1>6 DEF BeginSlot
  <1>7. ASSUME EntitiesNext PROVE Apart
    <2>1. ASSUME NEW r, NEW u, NEW d, NEW e, NEW kind, NEW name,
                 AddEntity(r, u, d, e, kind, name) \/ Rename(r, u, d, e, name)
          PROVE  Apart
      BY <2>1, <1>2 DEF AddEntity, Rename
    <2>2. ASSUME NEW r, WriteEntity(r) PROVE Apart
      BY <2>2, <1>2 DEF WriteEntity
    <2> QED
      BY <2>1, <2>2, <1>7 DEF EntitiesNext, CreateServiceType, CreateServiceBay, CreateTechnician
  <1>8. ASSUME NEW r, NEW u, NEW d, NEW l, NEW p, NEW v, BeginAnyLink(r, u, d, l, p, v)
        PROVE  Apart
    BY <1>5, <1>8 DEF BeginAnyLink,
       CreateServiceTypeRequiredSkill, CreateServiceTypeRequiredBayCapability,
       CreateServiceBayCapability, CreateTechnicianSkill,
       UpdateServiceTypeRequiredSkill, UpdateServiceTypeRequiredBayCapability,
       UpdateServiceBayCapability, UpdateTechnicianSkill,
       DeleteServiceTypeRequiredSkill, DeleteServiceTypeRequiredBayCapability,
       DeleteServiceBayCapability, DeleteTechnicianSkill
  <1>9. ASSUME NEW r, NEW table, NEW found,
               Insert(r, table, found) \/ Set(r, table, found) \/ Remove(r, table, found)
        PROVE  Apart
    BY <1>2, <1>9 DEF Insert, Set, Remove
  <1>10. ASSUME NEW r, LinkStep(r) PROVE Apart
    BY <1>4, <1>9, <1>10
    DEF LinkStep, InsertServiceTypeRequiredSkill, GetServiceTypeRequiredSkill,
       SetServiceTypeRequiredSkill, RemoveServiceTypeRequiredSkill,
       InsertServiceTypeRequiredBayCapability, GetServiceTypeRequiredBayCapability,
       SetServiceTypeRequiredBayCapability, RemoveServiceTypeRequiredBayCapability,
       InsertServiceBayCapability, GetServiceBayCapability, SetServiceBayCapability,
       RemoveServiceBayCapability, InsertTechnicianSkill, GetTechnicianSkill,
       SetTechnicianSkill, RemoveTechnicianSkill
  <1>11. ASSUME SlotsNext PROVE Apart
    BY <1>2, <1>6, <1>11
    DEF SlotsNext, CreateDealershipOperationTime, UpdateDealershipOperationTime,
       CreateTechnicianShift, DeleteDealershipOperationTime, InsertTechnicianShift,
       InsertDealershipOperationTime, InsertSlot, SetDealershipOperationTime,
       RemoveDealershipOperationTime
  <1>12. Apart
    BY <1>2, <1>3, <1>7, <1>8, <1>10, <1>11
    DEF CatalogueNext, WithdrawalsNext, LinksNext, AbandonOffice
  <1> QED
    BY <1>12 DEF Apart

\* The tables a behaviour starts with.
LEMMA CatalogueStart ==
    ASSUME NEW known \in [Entities -> Entity \cup {Null}],
           NEW assigned \in [LinkIDs -> Link \cup {Null}],
           NEW planned \in [SlotIDs -> Slot \cup {Null}],
           \A e, o \in Entities :
             /\ e # o /\ known[e] # Null /\ known[o] # Null
             /\ ~ known[e].gone /\ ~ known[o].gone
             /\ known[e].kind = known[o].kind
             /\ known[e].dealership = known[o].dealership
             /\ known[e].name = known[o].name
             => known[e].kind = "technician",
           \A l, o \in LinkIDs : l # o /\ assigned[l] # Null => assigned[l] # assigned[o],
           \A x \in SlotIDs : planned[x] # Null => planned[x].starts < planned[x].ends,
           \A x, o \in SlotIDs :
             /\ x # o /\ planned[x] # Null /\ planned[o] # Null
             /\ planned[x].of = planned[o].of /\ planned[x].day = planned[o].day
             => planned[x].ends <= planned[o].starts \/ planned[o].ends <= planned[x].starts,
           CatalogueInit(known, assigned, planned)
    PROVE  CatalogueInv
  <1>1. /\ entities = known /\ links = assigned /\ slots = planned
        /\ office \in [Requests -> OfficeTx \cup {Waiting}]
        /\ \A r \in Requests : office[r] = Waiting
    BY DEF CatalogueInit
  <1>2. CatalogueTypeOK
    BY <1>1 DEF CatalogueTypeOK
  <1>3. \A e \in Entities : Present(e) => ~ NameTaken(e, entities[e])
    BY <1>1 DEF Present, NameTaken
  <1>4. ASSUME NEW x \in SlotIDs, slots[x] # Null PROVE ~ SlotTaken(x, slots[x])
    <2>1. \A o \in SlotIDs : slots[o] # Null => slots[o].starts \in Int /\ slots[o].ends \in Int
      BY <1>1, CatalogueAssumption DEF Slot
    <2> QED
      BY <2>1, <1>1, <1>4 DEF SlotTaken
  <1>5. CatalogueSound
    BY <1>1, <1>3, <1>4 DEF CatalogueSound
  <1> QED
    BY <1>1, <1>2, <1>5, IdleSound DEF CatalogueInv, AdditionsApart

-----------------------------------------------------------------------------
(* What a step may change *)

\* A step either leaves the links alone or is a statement of one request.
LEMMA LinksChange ==
    ASSUME CatalogueInv, CatalogueNext, links' # links
    PROVE  \E r \in Requests : \E x : LinkWritten(r, x)
  <1>1. ASSUME NEW r, NEW q, Handling(r, q) PROVE FALSE
    BY <1>1 DEF Handling
  <1>2. ~ SlotsNext
    <2>1. ASSUME NEW r, NEW stage, NEW u, NEW d, NEW x, NEW row,
                 BeginSlot(r, stage, u, d, x, row)
          PROVE  FALSE
      BY <2>1 DEF BeginSlot, AcceptOffice
    <2> QED
      BY <2>1 DEF SlotsNext, CreateDealershipOperationTime, UpdateDealershipOperationTime,
         CreateTechnicianShift, DeleteDealershipOperationTime, InsertTechnicianShift,
         InsertDealershipOperationTime, InsertSlot, SetDealershipOperationTime,
         RemoveDealershipOperationTime
  <1>3. ~ EntitiesNext
    <2>1. ASSUME NEW r, NEW u, NEW d, NEW e, NEW kind, NEW name,
                 AddEntity(r, u, d, e, kind, name) \/ Rename(r, u, d, e, name)
          PROVE  FALSE
      BY <2>1 DEF AddEntity, Rename, AcceptOffice
    <2>2. ASSUME NEW r, WriteEntity(r) PROVE FALSE
      BY <2>2 DEF WriteEntity
    <2> QED
      BY <2>1, <2>2 DEF EntitiesNext, CreateServiceType, CreateServiceBay, CreateTechnician
  <1>4. ~ WithdrawalsNext /\ \A r : ~ AbandonOffice(r)
    BY DEF WithdrawalsNext, Withdraw, AbandonOffice
  <1> QED
    BY <1>1, <1>2, <1>3, <1>4, BeginAnyLinkHandles, LinkStepForm DEF CatalogueNext, LinksNext

\* The request whose statement changes a required skill or a capability was
\* authorised for the dealership its statement joins with.
LEMMA BoundaryStep ==
    ASSUME CatalogueInv, CatalogueNext
    PROVE  \A l \in LinkIDs :
             links'[l] # links[l] /\ ~ Unscoped(l)
               => \E r \in Requests :
                    /\ office[r] # Waiting /\ office'[r] = Waiting
                    /\ IsActiveSchedulerAdminForDealership(office[r].by, LinkDealership(l))
  <1> SUFFICES ASSUME NEW l \in LinkIDs, links'[l] # links[l], ~ Unscoped(l)
               PROVE  \E r \in Requests :
                        /\ office[r] # Waiting /\ office'[r] = Waiting
                        /\ IsActiveSchedulerAdminForDealership(office[r].by, LinkDealership(l))
    OBVIOUS
  <1>0. PICK r \in Requests : \E x : LinkWritten(r, x)
    BY LinksChange
  <1>1. PICK x : LinkWritten(r, x)
    BY <1>0
  <1> DEFINE q == office[r]
             kept == IF links[l] # Null THEN links[l] ELSE links'[l]
  <1>2. q \in OfficeTx \cup {Waiting} /\ AboutLink(q) /\ OfficeSound(q)
    BY <1>1 DEF LinkWritten, CatalogueInv, CatalogueTypeOK
  <1>3. /\ links' = [links EXCEPT ![q.link] = x]
        /\ \/ q.stage = "add_link" /\ x = q.row
           \/ links[q.link] # Null /\ IsLink(q.link, q.row)
        /\ q.row.table # "technician_skill" =>
             entities[q.row.parent].dealership = q.dealership
        /\ AnswerOffice(r)
    BY <1>1 DEF LinkWritten
  <1>4. l = q.link /\ links'[l] = x
    BY <1>3 DEF CatalogueInv, CatalogueTypeOK
  <1>5. q.stage = "add_link" => links[l] = Null
    BY <1>2, <1>4 DEF OfficeSound
  <1>6. kept.table = q.row.table /\ kept.parent = q.row.parent
    BY <1>3, <1>4, <1>5 DEF IsLink
  <1>7. /\ q.row.table # "technician_skill"
        /\ LinkDealership(l) = q.dealership
    BY <1>3, <1>6 DEF Unscoped, LinkDealership
  <1>8. IsActiveSchedulerAdminForDealership(q.by, LinkDealership(l))
    BY <1>2, <1>7 DEF OfficeSound
  <1>9. q # Waiting /\ office'[r] = Waiting
    BY <1>2, <1>3, OfficeAnswers DEF AboutLink, Waiting
  <1> QED
    BY <1>8, <1>9

\* No statement finds the parent once it is gone.
LEMMA FrozenStep ==
    ASSUME CatalogueInv, CatalogueNext
    PROVE  \A l \in LinkIDs :
             /\ links[l] # Null /\ links[l].table # "technician_skill"
             /\ entities[links[l].parent].gone
             => links'[l] = links[l]
  <1> SUFFICES ASSUME NEW l \in LinkIDs, links[l] # Null,
                      links[l].table # "technician_skill", links'[l] # links[l]
               PROVE  ~ entities[links[l].parent].gone
    OBVIOUS
  <1>0. PICK r \in Requests : \E x : LinkWritten(r, x)
    BY LinksChange
  <1>1. PICK x : LinkWritten(r, x)
    BY <1>0
  <1> DEFINE q == office[r]
  <1>2. /\ links' = [links EXCEPT ![q.link] = x]
        /\ q.stage = "add_link" \/ IsLink(q.link, q.row)
        /\ q.row.table # "technician_skill" => Present(q.row.parent)
    BY <1>1 DEF LinkWritten
  <1>3. l = q.link
    BY <1>2 DEF CatalogueInv, CatalogueTypeOK
  <1>4. IsLink(l, q.row)
    BY <1>2, <1>3 DEF CatalogueInv, OfficeSound
  <1> QED
    BY <1>2, <1>4 DEF IsLink, Present
=============================================================================
