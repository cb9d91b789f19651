-------------------------- MODULE BackOfficeProofs --------------------------
(***************************************************************************)
(* The invariants and action properties of the back office as theorems of  *)
(* its specification, for every value of the constants: accounts, staff,   *)
(* garage, catalogue and HTTP interface run together, and what one         *)
(* component relies on in another (accounts and members never disappear)   *)
(* is kept by its steps.                                                   *)
(***************************************************************************)
EXTENDS BackOffice, GarageProofs, CatalogueProofs

-----------------------------------------------------------------------------
(* The HTTP interface *)

\* What an operation's entry in the table has to satisfy: whatever its service
\* reports, a failing store included, becomes an error, which is the reported
\* one where the operation declares it.
HandlerSound(h) ==
    /\ h.success \in {200, 201, 204}
    /\ h.checks \subseteq Reported
    /\ h.errors \subseteq Reported
    /\ \A code \in h.errors \cup {500} :
         /\ h.answers[code] \in Reported
         /\ code \in h.responses => h.answers[code] = code

\* The 66 operations of the scheduler's interface, one step for each handler.
LEMMA SchedulerHandlersSound ==
    \A name \in DOMAIN SchedulerOperations : HandlerSound(SchedulerOperations[name])
  <1> USE DEF HandlerSound, Handler, Reported, ClientError, CasesElse, Cases, CasesOrError,
              EchoErrorHandler
  <1>1. HandlerSound(ScheduleAppointmentHandler)
    BY DEF ScheduleAppointmentHandler, ScheduleAppointmentErrors,
           ScheduleAppointmentErrorResponse, ScheduleAppointmentResponses
  <1>2. HandlerSound(CancelAppointmentHandler)
    BY DEF CancelAppointmentHandler, ChangeAppointmentStatusErrors,
           CancelAppointmentErrorResponse, CancelAppointmentResponses
  <1>3. HandlerSound(CheckInAppointmentHandler)
    BY DEF CheckInAppointmentHandler, ChangeAppointmentStatusErrors,
           CheckInAppointmentErrorResponse, CheckInAppointmentResponses
  <1>4. HandlerSound(CompleteAppointmentHandler)
    BY DEF CompleteAppointmentHandler, ChangeAppointmentStatusErrors,
           CompleteAppointmentErrorResponse, CompleteAppointmentResponses
  <1>5. HandlerSound(StartAppointmentHandler)
    BY DEF StartAppointmentHandler, ChangeAppointmentStatusErrors,
           StartAppointmentErrorResponse, StartAppointmentResponses
  <1>6. HandlerSound(CreateCustomerHandler)
    BY DEF CreateCustomerHandler, CreateCustomerErrors, CreateCustomerErrorResponse,
           CreateCustomerResponses
  <1>7. HandlerSound(GetCustomerHandler)
    BY DEF GetCustomerHandler, GetCustomerErrors, GetCustomerErrorResponse,
           GetCustomerResponses
  <1>8. HandlerSound(UpdateCustomerHandler)
    BY DEF UpdateCustomerHandler, UpdateCustomerErrors, UpdateCustomerErrorResponse,
           UpdateCustomerResponses
  <1>9. HandlerSound(ListCustomerVehiclesHandler)
    BY DEF ListCustomerVehiclesHandler, ListCustomerVehiclesErrors,
           ListCustomerVehiclesErrorResponse, ListCustomerVehiclesResponses
  <1>10. HandlerSound(CreateVehicleHandler)
    BY DEF CreateVehicleHandler, CreateVehicleErrors, CreateVehicleErrorResponse,
           CreateVehicleResponses
  <1>11. HandlerSound(SearchCustomersHandler)
    BY DEF SearchCustomersHandler, SearchCustomersErrors,
           SearchCustomersErrorResponse, SearchCustomersResponses
  <1>12. HandlerSound(CreateDealershipUserHandler)
    BY DEF CreateDealershipUserHandler, CreateDealershipUserErrors,
           CreateDealershipUserErrorResponse, CreateDealershipUserResponses
  <1>13. HandlerSound(CreateDealershipAdminHandler)
    BY DEF CreateDealershipAdminHandler, CreateDealershipAdminErrors,
           CreateDealershipAdminErrorResponse, CreateDealershipAdminResponses
  <1>14. HandlerSound(SearchAuthUserByEmailHandler)
    BY DEF SearchAuthUserByEmailHandler, SearchAuthUserByEmailErrors,
           SearchAuthUserByEmailErrorResponse, SearchAuthUserByEmailResponses
  <1>15. HandlerSound(ListDealershipsHandler)
    BY DEF ListDealershipsHandler, ListDealershipsErrors,
           ListDealershipsErrorResponse, ListDealershipsResponses
  <1>16. HandlerSound(CreateDealershipHandler)
    BY DEF CreateDealershipHandler, CreateDealershipErrors,
           CreateDealershipErrorResponse, CreateDealershipResponses
  <1>17. HandlerSound(ListDealershipAppointmentsHandler)
    BY DEF ListDealershipAppointmentsHandler, ListDealershipAppointmentsErrors,
           ListDealershipAppointmentsErrorResponse,
           ListDealershipAppointmentsResponses
  <1>18. HandlerSound(ListDealershipOperationTimesHandler)
    BY DEF ListDealershipOperationTimesHandler, ListDealershipOperationTimesErrors,
           ListDealershipOperationTimesErrorResponse,
           ListDealershipOperationTimesResponses
  <1>19. HandlerSound(CreateDealershipOperationTimeHandler)
    BY DEF CreateDealershipOperationTimeHandler, CreateDealershipOperationTimeErrors,
           CreateDealershipOperationTimeErrorResponse,
           CreateDealershipOperationTimeResponses
  <1>20. HandlerSound(DeleteDealershipOperationTimeHandler)
    BY DEF DeleteDealershipOperationTimeHandler, DeleteDealershipOperationTimeErrors,
           DeleteDealershipOperationTimeErrorResponse,
           DeleteDealershipOperationTimeResponses
  <1>21. HandlerSound(UpdateDealershipOperationTimeHandler)
    BY DEF UpdateDealershipOperationTimeHandler, UpdateDealershipOperationTimeErrors,
           UpdateDealershipOperationTimeErrorResponse,
           UpdateDealershipOperationTimeResponses
  <1>22. HandlerSound(ListServiceBaysHandler)
    BY DEF ListServiceBaysHandler, ListServiceBaysErrors,
           ListServiceBaysErrorResponse, ListServiceBaysResponses
  <1>23. HandlerSound(CreateServiceBayHandler)
    BY DEF CreateServiceBayHandler, CreateServiceBayErrors,
           CreateServiceBayErrorResponse, CreateServiceBayResponses
  <1>24. HandlerSound(ListAvailableServiceBaysHandler)
    BY DEF ListAvailableServiceBaysHandler, ListAvailableServiceBaysErrors,
           ListAvailableServiceBaysErrorResponse, ListAvailableServiceBaysResponses
  <1>25. HandlerSound(DeleteServiceBayHandler)
    BY DEF DeleteServiceBayHandler, DeleteServiceBayErrors,
           DeleteServiceBayErrorResponse, DeleteServiceBayResponses
  <1>26. HandlerSound(GetServiceBayHandler)
    BY DEF GetServiceBayHandler, GetServiceBayErrors, GetServiceBayErrorResponse,
           GetServiceBayResponses
  <1>27. HandlerSound(UpdateServiceBayHandler)
    BY DEF UpdateServiceBayHandler, UpdateServiceBayErrors,
           UpdateServiceBayErrorResponse, UpdateServiceBayResponses
  <1>28. HandlerSound(ListServiceBayCapabilitiesHandler)
    BY DEF ListServiceBayCapabilitiesHandler, ListServiceBayCapabilitiesErrors,
           ListServiceBayCapabilitiesErrorResponse,
           ListServiceBayCapabilitiesResponses
  <1>29. HandlerSound(CreateServiceBayCapabilityHandler)
    BY DEF CreateServiceBayCapabilityHandler, CreateServiceBayCapabilityErrors,
           CreateServiceBayCapabilityErrorResponse,
           CreateServiceBayCapabilityResponses
  <1>30. HandlerSound(DeleteServiceBayCapabilityHandler)
    BY DEF DeleteServiceBayCapabilityHandler, DeleteServiceBayCapabilityErrors,
           DeleteServiceBayCapabilityErrorResponse,
           DeleteServiceBayCapabilityResponses
  <1>31. HandlerSound(UpdateServiceBayCapabilityHandler)
    BY DEF UpdateServiceBayCapabilityHandler, UpdateServiceBayCapabilityErrors,
           UpdateServiceBayCapabilityErrorResponse,
           UpdateServiceBayCapabilityResponses
  <1>32. HandlerSound(ListServiceTypesHandler)
    BY DEF ListServiceTypesHandler, ListServiceTypesErrors,
           ListServiceTypesErrorResponse, ListServiceTypesResponses
  <1>33. HandlerSound(CreateServiceTypeHandler)
    BY DEF CreateServiceTypeHandler, CreateServiceTypeErrors,
           CreateServiceTypeErrorResponse, CreateServiceTypeResponses
  <1>34. HandlerSound(DeleteServiceTypeHandler)
    BY DEF DeleteServiceTypeHandler, DeleteServiceTypeErrors,
           DeleteServiceTypeErrorResponse, DeleteServiceTypeResponses
  <1>35. HandlerSound(GetServiceTypeHandler)
    BY DEF GetServiceTypeHandler, GetServiceTypeErrors, GetServiceTypeErrorResponse,
           GetServiceTypeResponses
  <1>36. HandlerSound(UpdateServiceTypeHandler)
    BY DEF UpdateServiceTypeHandler, UpdateServiceTypeErrors,
           UpdateServiceTypeErrorResponse, UpdateServiceTypeResponses
  <1>37. HandlerSound(ListServiceTypeRequiredBayCapabilitiesHandler)
    BY DEF ListServiceTypeRequiredBayCapabilitiesHandler,
           ListServiceTypeRequiredBayCapabilitiesErrors,
           ListServiceTypeRequiredBayCapabilitiesErrorResponse,
           ListServiceTypeRequiredBayCapabilitiesResponses
  <1>38. HandlerSound(CreateServiceTypeRequiredBayCapabilityHandler)
    BY DEF CreateServiceTypeRequiredBayCapabilityHandler,
           CreateServiceTypeRequiredBayCapabilityErrors,
           CreateServiceTypeRequiredBayCapabilityErrorResponse,
           CreateServiceTypeRequiredBayCapabilityResponses
  <1>39. HandlerSound(DeleteServiceTypeRequiredBayCapabilityHandler)
    BY DEF DeleteServiceTypeRequiredBayCapabilityHandler,
           DeleteServiceTypeRequiredBayCapabilityErrors,
           DeleteServiceTypeRequiredBayCapabilityErrorResponse,
           DeleteServiceTypeRequiredBayCapabilityResponses
  <1>40. HandlerSound(UpdateServiceTypeRequiredBayCapabilityHandler)
    BY DEF UpdateServiceTypeRequiredBayCapabilityHandler,
           UpdateServiceTypeRequiredBayCapabilityErrors,
           UpdateServiceTypeRequiredBayCapabilityErrorResponse,
           UpdateServiceTypeRequiredBayCapabilityResponses
  <1>41. HandlerSound(ListServiceTypeRequiredSkillsHandler)
    BY DEF ListServiceTypeRequiredSkillsHandler, ListServiceTypeRequiredSkillsErrors,
           ListServiceTypeRequiredSkillsErrorResponse,
           ListServiceTypeRequiredSkillsResponses
  <1>42. HandlerSound(CreateServiceTypeRequiredSkillHandler)
    BY DEF CreateServiceTypeRequiredSkillHandler,
           CreateServiceTypeRequiredSkillErrors,
           CreateServiceTypeRequiredSkillErrorResponse,
           CreateServiceTypeRequiredSkillResponses
  <1>43. HandlerSound(DeleteServiceTypeRequiredSkillHandler)
    BY DEF DeleteServiceTypeRequiredSkillHandler,
           DeleteServiceTypeRequiredSkillErrors,
           DeleteServiceTypeRequiredSkillErrorResponse,
           DeleteServiceTypeRequiredSkillResponses
  <1>44. HandlerSound(UpdateServiceTypeRequiredSkillHandler)
    BY DEF UpdateServiceTypeRequiredSkillHandler,
           UpdateServiceTypeRequiredSkillErrors,
           UpdateServiceTypeRequiredSkillErrorResponse,
           UpdateServiceTypeRequiredSkillResponses
  <1>45. HandlerSound(ListTechnicianSchedulesHandler)
    BY DEF ListTechnicianSchedulesHandler, ListTechnicianSchedulesErrors,
           ListTechnicianSchedulesErrorResponse, ListTechnicianSchedulesResponses
  <1>46. HandlerSound(ListTechniciansHandler)
    BY DEF ListTechniciansHandler, ListTechniciansErrors,
           ListTechniciansErrorResponse, ListTechniciansResponses
  <1>47. HandlerSound(CreateTechnicianHandler)
    BY DEF CreateTechnicianHandler, CreateTechnicianErrors,
           CreateTechnicianErrorResponse, CreateTechnicianResponses
  <1>48. HandlerSound(DeleteTechnicianHandler)
    BY DEF DeleteTechnicianHandler, DeleteTechnicianErrors,
           DeleteTechnicianErrorResponse, DeleteTechnicianResponses
  <1>49. HandlerSound(GetTechnicianHandler)
    BY DEF GetTechnicianHandler, GetTechnicianErrors, GetTechnicianErrorResponse,
           GetTechnicianResponses
  <1>50. HandlerSound(UpdateTechnicianHandler)
    BY DEF UpdateTechnicianHandler, UpdateTechnicianErrors,
           UpdateTechnicianErrorResponse, UpdateTechnicianResponses
  <1>51. HandlerSound(ListTechnicianShiftsHandler)
    BY DEF ListTechnicianShiftsHandler, ListTechnicianShiftsErrors,
           ListTechnicianShiftsErrorResponse, ListTechnicianShiftsResponses
  <1>52. HandlerSound(CreateTechnicianShiftHandler)
    BY DEF CreateTechnicianShiftHandler, CreateTechnicianShiftErrors,
           CreateTechnicianShiftErrorResponse, CreateTechnicianShiftResponses
  <1>53. HandlerSound(DeleteTechnicianShiftHandler)
    BY DEF DeleteTechnicianShiftHandler, DeleteTechnicianShiftErrors,
           DeleteTechnicianShiftErrorResponse, DeleteTechnicianShiftResponses
  <1>54. HandlerSound(UpdateTechnicianShiftHandler)
    BY DEF UpdateTechnicianShiftHandler, UpdateTechnicianShiftErrors,
           UpdateTechnicianShiftErrorResponse, UpdateTechnicianShiftResponses
  <1>55. HandlerSound(ListTechnicianSkillsHandler)
    BY DEF ListTechnicianSkillsHandler, ListTechnicianSkillsErrors,
           ListTechnicianSkillsErrorResponse, ListTechnicianSkillsResponses
  <1>56. HandlerSound(CreateTechnicianSkillHandler)
    BY DEF CreateTechnicianSkillHandler, CreateTechnicianSkillErrors,
           CreateTechnicianSkillErrorResponse, CreateTechnicianSkillResponses
  <1>57. HandlerSound(DeleteTechnicianSkillHandler)
    BY DEF DeleteTechnicianSkillHandler, DeleteTechnicianSkillErrors,
           DeleteTechnicianSkillErrorResponse, DeleteTechnicianSkillResponses
  <1>58. HandlerSound(UpdateTechnicianSkillHandler)
    BY DEF UpdateTechnicianSkillHandler, UpdateTechnicianSkillErrors,
           UpdateTechnicianSkillErrorResponse, UpdateTechnicianSkillResponses
  <1>59. HandlerSound(ListTechnicianTimeOffHandler)
    BY DEF ListTechnicianTimeOffHandler, ListTechnicianTimeOffErrors,
           ListTechnicianTimeOffErrorResponse, ListTechnicianTimeOffResponses
  <1>60. HandlerSound(CreateTechnicianTimeOffHandler)
    BY DEF CreateTechnicianTimeOffHandler, CreateTechnicianTimeOffErrors,
           CreateTechnicianTimeOffErrorResponse, CreateTechnicianTimeOffResponses
  <1>61. HandlerSound(DeleteTechnicianTimeOffHandler)
    BY DEF DeleteTechnicianTimeOffHandler, DeleteTechnicianTimeOffErrors,
           DeleteTechnicianTimeOffErrorResponse, DeleteTechnicianTimeOffResponses
  <1>62. HandlerSound(GetTechnicianTimeOffHandler)
    BY DEF GetTechnicianTimeOffHandler, GetTechnicianTimeOffErrors,
           GetTechnicianTimeOffErrorResponse, GetTechnicianTimeOffResponses
  <1>63. HandlerSound(UpdateTechnicianTimeOffHandler)
    BY DEF UpdateTechnicianTimeOffHandler, UpdateTechnicianTimeOffErrors,
           UpdateTechnicianTimeOffErrorResponse, UpdateTechnicianTimeOffResponses
  <1>64. HandlerSound(DeleteVehicleHandler)
    BY DEF DeleteVehicleHandler, DeleteVehicleErrors, DeleteVehicleErrorResponse,
           DeleteVehicleResponses
  <1>65. HandlerSound(GetVehicleHandler)
    BY DEF GetVehicleHandler, GetVehicleErrors, GetVehicleErrorResponse,
           GetVehicleResponses
  <1>66. HandlerSound(UpdateVehicleHandler)
    BY DEF UpdateVehicleHandler, UpdateVehicleErrors, UpdateVehicleErrorResponse,
           UpdateVehicleResponses
  <1> HIDE DEF HandlerSound
  <1> QED
    BY <1>1, <1>2, <1>3, <1>4, <1>5, <1>6, <1>7, <1>8, <1>9, <1>10, <1>11, <1>12,
       <1>13, <1>14, <1>15, <1>16, <1>17, <1>18, <1>19, <1>20, <1>21, <1>22, <1>23,
       <1>24, <1>25, <1>26, <1>27, <1>28, <1>29, <1>30, <1>31, <1>32, <1>33, <1>34,
       <1>35, <1>36, <1>37, <1>38, <1>39, <1>40, <1>41, <1>42, <1>43, <1>44, <1>45,
       <1>46, <1>47, <1>48, <1>49, <1>50, <1>51, <1>52, <1>53, <1>54, <1>55, <1>56,
       <1>57, <1>58, <1>59, <1>60, <1>61, <1>62, <1>63, <1>64, <1>65, <1>66
    DEF SchedulerOperations

\* The nine operations of the auth module's interface.
LEMMA AuthHandlersSound ==
    \A name \in DOMAIN AuthOperations : HandlerSound(AuthOperations[name])
  <1> USE DEF HandlerSound, Handler, Reported, ClientError, CasesElse, Cases, CasesOrError,
              EchoErrorHandler
  <1>1. HandlerSound(SignUpHandler)
    BY DEF SignUpHandler, CreateUserErrors, SignUpErrorResponse, SignUpResponses
  <1>2. HandlerSound(CreateSuperadminHandler)
    BY DEF CreateSuperadminHandler, CreateUserErrors, CreateSuperadminErrorResponse,
           CreateSuperadminResponses
  <1>3. HandlerSound(SignInHandler)
    BY DEF SignInHandler, SignInErrors, SignInErrorResponse, SignInResponses
  <1>4. HandlerSound(RefreshTokenHandler)
    BY DEF RefreshTokenHandler, RefreshErrors, RefreshTokenErrorResponse,
           RefreshTokenResponses
  <1>5. HandlerSound(SignOutAllDevicesHandler)
    BY DEF SignOutAllDevicesHandler, SignOutAllDevicesErrors,
           SignOutAllDevicesErrorResponse, SignOutAllDevicesResponses
  <1>6. HandlerSound(ChangePasswordHandler)
    BY DEF ChangePasswordHandler, ChangePasswordErrors, ChangePasswordErrorResponse,
           ChangePasswordResponses
  <1>7. HandlerSound(UpdateFullNameHandler)
    BY DEF UpdateFullNameHandler, UpdateFullNameErrors, UpdateFullNameErrorResponse,
           UpdateFullNameResponses
  <1>8. HandlerSound(UpdateUserStatusHandler)
    BY DEF UpdateUserStatusHandler, UpdateStatusErrors, UpdateUserStatusErrorResponse,
           UpdateUserStatusResponses
  <1>9. HandlerSound(UpdateUserRoleHandler)
    BY DEF UpdateUserRoleHandler, UpdateRoleErrors, UpdateUserRoleErrorResponse,
           UpdateUserRoleResponses
  <1> HIDE DEF HandlerSound
  <1> QED
    BY <1>1, <1>2, <1>3, <1>4, <1>5, <1>6, <1>7, <1>8, <1>9
    DEF AuthOperations

\* Every operation is in one of the two tables.
LEMMA OperationsSound == \A name \in Operations : HandlerSound(Operation(name))
  BY SchedulerHandlersSound, AuthHandlersSound DEF Operations, Operation

\* A layer that answers a call with a status it may give keeps ContractInv.
LEMMA RespondKeeps ==
    ASSUME ContractInv, NEW layer \in Layer, At(layer),
           NEW by \in Layer \cup {"service", "recover"},
           NEW status \in {200, 201, 204} \cup Reported,
           NEW reported \in Reported \cup {0},
           Respond(by, status, reported),
           by = "service" =>
             /\ status \in Reported
             /\ reported \in Operation(call.name).responses => status = reported
    PROVE  ContractInv'
  <1>1. call.name \in Operations
    BY DEF ContractInv, ContractTypeOK, Call, NoCall, At, Layer
  <1>2. call' = [at |-> "answered", name |-> call.name, by |-> by, status |-> status,
                 reported |-> reported]
    BY DEF Respond
  <1>3. ContractTypeOK'
    BY <1>1, <1>2 DEF ContractTypeOK, Call
  <1>4. call'.name = call.name /\ call'.by = by /\ call'.status = status
          /\ call'.reported = reported
    BY <1>2
  <1>5. ErrorsKept'
    BY <1>4 DEF ErrorsKept, Layer
  <1> QED
    BY <1>3, <1>5 DEF ContractInv

\* A layer that lets a call pass keeps ContractInv.
LEMMA PassKeeps ==
    ASSUME ContractInv, NEW layer \in Layer, NEW next \in Layer, At(layer), Pass(next)
    PROVE  ContractInv'
  <1>1. call \in [at : Layer, name : Operations]
    BY DEF ContractInv, ContractTypeOK, Call, NoCall, At, Layer
  <1>2. call' \in [at : Layer, name : Operations] /\ call'.at = next
    BY <1>1 DEF Pass
  <1> QED
    BY <1>2 DEF ContractInv, ContractTypeOK, Call, ErrorsKept, Answered, Layer

\* A step of a call through the layers keeps ContractInv.
LEMMA ContractStep ==
    ASSUME ContractInv, ContractNext
    PROVE  ContractInv'
  <1>L. "idempotency" \in Layer /\ "identity" \in Layer /\ "parameters" \in Layer
          /\ "body" \in Layer /\ "handler" \in Layer
    BY DEF Layer
  <1>S. {400, 401, 409, 500} \subseteq Reported /\ 0 \in Reported \cup {0}
    BY DEF Reported, ClientError
  <1>1. ASSUME NEW name \in Operations, Receive(name) PROVE ContractInv'
    <2>1. call' \in [at : Layer, name : Operations] /\ call'.at = "idempotency"
      BY <1>1, <1>L DEF Receive
    <2> QED
      BY <2>1 DEF ContractInv, ContractTypeOK, Call, ErrorsKept, Answered
  <1>2. CASE CheckIdempotency
    BY <1>2, <1>L, <1>S, PassKeeps, RespondKeeps DEF CheckIdempotency
  <1>3. CASE RequireIdentity
    BY <1>3, <1>L, <1>S, PassKeeps, RespondKeeps DEF RequireIdentity
  <1>4. CASE BindParameters
    BY <1>4, <1>L, <1>S, PassKeeps, RespondKeeps DEF BindParameters
  <1>5. CASE BindBody
    BY <1>5, <1>L, <1>S, PassKeeps, RespondKeeps DEF BindBody
  <1>H. ASSUME At("handler") PROVE HandlerSound(Operation(call.name))
    <2>1. call.name \in Operations
      BY <1>H DEF ContractInv, ContractTypeOK, Call, NoCall, At
    <2> QED
      BY <2>1, OperationsSound
  <1>6. CASE Succeed
    <2>1. At("handler") /\ Respond("handler", Operation(call.name).success, 0)
      BY <1>6 DEF Succeed
    <2>2. Operation(call.name).success \in {200, 201, 204}
      BY <2>1, <1>H DEF HandlerSound
    <2> QED
      BY <2>1, <2>2, <1>L, <1>S, RespondKeeps
  <1>7. CASE Refuse
    <2>1. PICK status \in Operation(call.name).checks : Respond("handler", status, 0)
      BY <1>7 DEF Refuse
    <2>2. At("handler")
      BY <1>7 DEF Refuse
    <2>3. status \in Reported
      BY <2>2, <1>H DEF HandlerSound
    <2> QED
      BY <2>1, <2>2, <2>3, <1>L, <1>S, RespondKeeps
  <1>8. CASE Fail
    <2>1. PICK code \in Operation(call.name).errors \cup {500} :
            Respond("service", Operation(call.name).answers[code], code)
      BY <1>8 DEF Fail
    <2>2. At("handler")
      BY <1>8 DEF Fail
    <2>3. /\ code \in Reported
          /\ Operation(call.name).answers[code] \in Reported
          /\ code \in Operation(call.name).responses
               => Operation(call.name).answers[code] = code
      BY <2>2, <1>H, <1>S DEF HandlerSound
    <2> QED
      BY <2>1, <2>2, <2>3, <1>L, RespondKeeps
  <1>9. CASE Panic
    BY <1>9, <1>L, <1>S, RespondKeeps DEF Panic, EchoErrorHandler
  <1> QED
    BY <1>1, <1>2, <1>3, <1>4, <1>5, <1>6, <1>7, <1>8, <1>9 DEF ContractNext

-----------------------------------------------------------------------------
(* The invariants together *)

\* Rows that meet the schema's constraints satisfy every component's invariant.
LEMMA InitEstablishes ==
    ASSUME Init
    PROVE  BackOfficeInv
  <1>1. PICK s \in Starts :
          /\ parts = s.parts
          /\ accepted = s.accepted
          /\ call = NoCall
          /\ AccountsInit(s.users, s.roles)
          /\ StaffInit(s.dealerships, s.members)
          /\ GarageInit(s.customers, s.owners, s.vehicles)
          /\ CatalogueInit(s.entities, s.links, s.slots)
    BY DEF Init
  <1>2. AccountsInv
    <2>1. /\ s.accepted \in Nat
          /\ s.users \in [Users -> User \cup {Null}]
          /\ s.roles \in [Users -> GlobalRole \cup {Null}]
          /\ \A u \in Users : s.users[u] # Null <=> s.roles[u] # Null
          /\ \A u, v \in Users : u # v /\ s.users[u] # Null /\ s.users[v] # Null
               => s.users[u].email # s.users[v].email
      BY StartsAssumption
    <2> QED
      BY <1>1, <2>1, AccountsStart
  <1>3. StaffInv
    <2>1. /\ s.dealerships \in [Dealerships -> Codes \cup {Null}]
          /\ \A c, d \in Dealerships : c # d /\ s.dealerships[c] # Null
               => s.dealerships[c] # s.dealerships[d]
          /\ s.members \in SUBSET Member
          /\ \A m, n \in s.members : m.account = n.account => m = n
          /\ \A m \in s.members :
               /\ s.users[m.account] # Null
               /\ s.dealerships[m.dealership] # Null
               /\ \/ GlobalAdmin(m.claim)
                  \/ \E n \in s.members : n.account = m.by /\ n.dealership = m.dealership
                                           /\ n.role = "admin"
      BY StartsAssumption
    <2>2. \A m \in s.members : m.account \in Accounts
      BY <1>1, <2>1 DEF AccountsInit, Accounts, Member
    <2> QED
      BY <1>1, <2>1, <2>2, StaffStart
  <1>4. GarageInv
    <2>1. /\ s.customers \in [Customers -> Customer \cup {Null}]
          /\ s.owners \in [Customers -> Dealerships \cup {Null}]
          /\ s.vehicles \in [VehicleIDs -> Vehicle \cup {Null}]
          /\ \A c, d \in Customers : c # d /\ s.customers[c] # Null /\ s.customers[d] # Null
               => /\ s.customers[c].phone # s.customers[d].phone
                  /\ s.customers[c].email # Null
                       => s.customers[c].email # s.customers[d].email
          /\ \A c \in Customers : s.owners[c] # Null
               => \E v \in VehicleIDs : s.vehicles[v] # Null /\ s.vehicles[v].customer = c
          /\ \A v \in VehicleIDs : s.vehicles[v] # Null
               => /\ s.owners[s.vehicles[v].customer] = s.vehicles[v].by
                  /\ Identified(s.vehicles[v].vin, s.vehicles[v].plate)
                  /\ \A o \in VehicleIDs \ {v} :
                       s.vehicles[o] # Null /\ s.vehicles[v].vin # Null
                         => s.vehicles[o].vin # s.vehicles[v].vin
      BY StartsAssumption
    <2> QED
      BY <1>1, <2>1, GarageStart
  <1>5. CatalogueInv
    <2>1. /\ s.entities \in [Entities -> Entity \cup {Null}]
          /\ s.links \in [LinkIDs -> Link \cup {Null}]
          /\ s.slots \in [SlotIDs -> Slot \cup {Null}]
          /\ \A e, o \in Entities :
               /\ e # o /\ s.entities[e] # Null /\ s.entities[o] # Null
               /\ ~ s.entities[e].gone /\ ~ s.entities[o].gone
               /\ s.entities[e].kind = s.entities[o].kind
               /\ s.entities[e].dealership = s.entities[o].dealership
               /\ s.entities[e].name = s.entities[o].name
               => s.entities[e].kind = "technician"
          /\ \A l, o \in LinkIDs : l # o /\ s.links[l] # Null => s.links[l] # s.links[o]
          /\ \A x \in SlotIDs : s.slots[x] # Null => s.slots[x].starts < s.slots[x].ends
          /\ \A x, o \in SlotIDs :
               /\ x # o /\ s.slots[x] # Null /\ s.slots[o] # Null
               /\ s.slots[x].of = s.slots[o].of /\ s.slots[x].day = s.slots[o].day
               => s.slots[x].ends <= s.slots[o].starts \/ s.slots[o].ends <= s.slots[x].starts
      BY StartsAssumption
    <2> QED
      BY <1>1, <2>1, CatalogueStart
  <1>6. ContractInv
    BY <1>1 DEF ContractInv, ContractTypeOK, ErrorsKept, Answered, NoCall
  <1>7. parts \subseteq Parts
    BY <1>1, StartsAssumption
  <1> QED
    BY <1>2, <1>3, <1>4, <1>5, <1>6, <1>7 DEF BackOfficeInv

\* The steps of the back office by component.
LEMMA NextByComponent ==
    ASSUME Next
    PROVE  /\ UNCHANGED parts
           /\ \/ AccountsNext /\ UNCHANGED <<staffVars, garageVars, catalogueVars, call>>
              \/ StaffNext /\ UNCHANGED <<garageVars, catalogueVars, call>>
              \/ GarageNext /\ UNCHANGED <<catalogueVars, call>>
              \/ CatalogueNext /\ UNCHANGED <<garageVars, call>>
              \/ ContractNext /\ UNCHANGED <<accountVars, staffVars, garageVars,
                                              catalogueVars, accepted>>
  BY DEF Next, CatalogueNext

\* Every step keeps every component's invariant: its own component's by the
\* component's step lemma, the others' because it leaves their state alone or,
\* for accounts and members that they rely on, only adds to it.
LEMMA StepPreserves ==
    ASSUME BackOfficeInv, [Next]_vars
    PROVE  BackOfficeInv'
  <1>I. /\ AccountsInv /\ StaffInv /\ GarageInv /\ CatalogueInv /\ ContractInv
        /\ accepted \in Nat
    BY DEF BackOfficeInv, AccountsInv, AccountsTypeOK
  <1>S. UNCHANGED accountVars => Accounts' = Accounts
    BY DEF accountVars, Accounts
  <1>M. UNCHANGED staffVars => members' = members
    BY DEF staffVars
  <1>C. UNCHANGED call => ContractInv'
    BY <1>I DEF ContractInv, ContractTypeOK, ErrorsKept, Answered
  <1>P. (parts \subseteq Parts)'
    BY NextByComponent DEF BackOfficeInv, vars
  <1>1. CASE AccountsNext /\ UNCHANGED <<staffVars, garageVars, catalogueVars, call>>
    <2>1. AccountsInv' /\ Accounts \subseteq Accounts'
      BY <1>I, <1>1, AccountsStep, AccountsGrow
    <2> QED
      BY <2>1, <1>I, <1>M, <1>C, <1>P, <1>1, StaffKept, GarageKept, CatalogueKept
      DEF BackOfficeInv
  <1>2. CASE StaffNext /\ UNCHANGED <<garageVars, catalogueVars, call>>
    <2>1. StaffInv' /\ UNCHANGED accountVars /\ accepted' \in Nat /\ members \subseteq members'
      BY <1>I, <1>2, StaffStep
    <2> QED
      BY <2>1, <1>I, <1>C, <1>P, <1>2, AccountsKept, GarageKept, CatalogueKept
      DEF BackOfficeInv
  <1>3. CASE GarageNext /\ UNCHANGED <<catalogueVars, call>>
    <2>1. GarageInv' /\ UNCHANGED <<accountVars, staffVars>> /\ accepted' \in Nat
      BY <1>I, <1>3, GarageStep, GarageApart
    <2> QED
      BY <2>1, <1>I, <1>S, <1>M, <1>C, <1>P, <1>3, AccountsKept, StaffKept, CatalogueKept
      DEF BackOfficeInv
  <1>4. CASE CatalogueNext /\ UNCHANGED <<garageVars, call>>
    <2>1. CatalogueInv' /\ UNCHANGED <<accountVars, staffVars>> /\ accepted' \in Nat
      BY <1>I, <1>4, CatalogueStep, CatalogueApart
    <2> QED
      BY <2>1, <1>I, <1>S, <1>C, <1>P, <1>4, AccountsKept, StaffKept, GarageKept
      DEF BackOfficeInv
  <1>5. CASE UNCHANGED <<accountVars, staffVars, garageVars, catalogueVars, accepted>>
             /\ (ContractNext \/ UNCHANGED call)
    <2>1. ContractInv'
      BY <1>5, <1>I, <1>C, ContractStep
    <2> QED
      BY <2>1, <1>5, <1>I, <1>S, <1>M, <1>P, AccountsKept, StaffKept, GarageKept,
         CatalogueKept
      DEF BackOfficeInv
  <1> QED
    BY <1>1, <1>2, <1>3, <1>4, <1>5, NextByComponent DEF vars

\* Accounts, staff, garage, catalogue and interface keep their inductive
\* invariants together, whatever requests are interleaved and abandoned.
THEOREM BackOfficeInvariance == Spec => []BackOfficeInv
  <1>1. Init => BackOfficeInv
    BY InitEstablishes
  <1>2. BackOfficeInv /\ [Next]_vars => BackOfficeInv'
    BY StepPreserves
  <1> QED
    BY <1>1, <1>2, PTL DEF Spec

-----------------------------------------------------------------------------
\* Every table, every handler's state and the call under way keep their types.
THEOREM BackOfficeTypeCorrect == Spec => []TypeOK
  <1>1. BackOfficeInv => TypeOK
    BY DEF BackOfficeInv, TypeOK, AccountsInv, StaffInv, GarageInv, CatalogueInv, ContractInv
  <1> QED
    BY <1>1, BackOfficeInvariance, PTL

\* An error that the operation has a response for reaches the caller as it is,
\* and no error is answered as a success.
THEOREM ErrorsStayKept == Spec => []ErrorsKept
  <1>1. BackOfficeInv => ErrorsKept
    BY DEF BackOfficeInv, ContractInv
  <1> QED
    BY <1>1, BackOfficeInvariance, PTL

\* One address names one account and every account has a role, whatever
\* sign-ups race: createWithRole commits both or neither.
THEOREM AccountsStaySound == Spec => []AccountsSound
  <1>1. BackOfficeInv => AccountsSound
    BY DEF BackOfficeInv, AccountsInv
  <1> QED
    BY <1>1, BackOfficeInvariance, PTL

\* A pair that a confirmed sign-out has covered is refreshed again only after
\* two write-backs of its account have overlapped: a restored token version is
\* the only way back.
THEOREM SignOutsHold == Spec => []RevivalNeedsOverlap
  <1>1. BackOfficeInv => RevivalNeedsOverlap
    BY VersionsRevoke DEF BackOfficeInv
  <1> QED
    BY <1>1, BackOfficeInvariance, PTL

\* An account has at most one membership, of a dealership that exists, and no
\* two dealerships share a code.
THEOREM EmploymentUnique == Spec => []AssignedOnce
  <1>1. BackOfficeInv => AssignedOnce
    BY DEF BackOfficeInv, StaffInv
  <1> QED
    BY <1>1, BackOfficeInvariance, PTL

\* Who was added without a global role was added by an admin of the same
\* dealership.
THEOREM AuthorityStaysLocal == Spec => []AuthorityLocal
  <1>1. BackOfficeInv => AuthorityLocal
    BY DEF BackOfficeInv, StaffInv
  <1> QED
    BY <1>1, BackOfficeInvariance, PTL

\* Every vehicle was registered by the dealership that owns its customer, and
\* a customer is owned only with a vehicle.
THEOREM OwnershipHolds == Spec => []VehiclesByOwner
  <1>1. BackOfficeInv => VehiclesByOwner
    BY DEF BackOfficeInv, GarageInv
  <1> QED
    BY <1>1, BackOfficeInvariance, PTL

\* A contact names one customer and a VIN one vehicle.
THEOREM IdentitiesStayDistinct == Spec => []IdentitiesDistinct
  <1>1. BackOfficeInv => IdentitiesDistinct
    BY DEF BackOfficeInv, GarageInv
  <1> QED
    BY <1>1, BackOfficeInvariance, PTL

\* A registration starts over at most once for its customer's claim, however
\* many rivals there are.
THEOREM ClaimsSettle == Spec => []ClaimSettled
  <1>1. BackOfficeInv => ClaimSettled
    BY DEF BackOfficeInv, GarageInv, DeskSound, ClaimSettled, Registers
  <1> QED
    BY <1>1, BackOfficeInvariance, PTL

\* Live names and assigned values are unique, and the intervals of a day are
\* not empty and do not overlap.
THEOREM CatalogueStaysSound == Spec => []CatalogueSound
  <1>1. BackOfficeInv => CatalogueSound
    BY DEF BackOfficeInv, CatalogueInv
  <1> QED
    BY <1>1, BackOfficeInvariance, PTL

-----------------------------------------------------------------------------
(* Action properties *)

\* A password change brings back one of the two passwords before the current
\* one only after two write-backs of the account have overlapped: without them
\* the columns ChangePassword compares are the passwords that were in force.
THEOREM HistoriesStayTrue == Spec => ReuseNeedsOverlap
  <1>1. BackOfficeInv /\ [Next]_vars
          => [\A r \in Requests :
                RepeatsPassword(r) => request[r].user \in overlapped]_accountVars
    <2> SUFFICES ASSUME BackOfficeInv, [Next]_vars, accountVars' # accountVars,
                        NEW r \in Requests, RepeatsPassword(r)
                 PROVE  request[r].user \in overlapped
      OBVIOUS
    <2>1. AccountsInv /\ StaffInv
      BY DEF BackOfficeInv
    <2>2. AccountsNext
      BY <2>1, NextByComponent, StaffStep, GarageApart, CatalogueApart DEF vars
    <2> QED
      BY <2>1, <2>2, ReuseStep
  <1> QED
    BY <1>1, BackOfficeInvariance, PTL DEF Spec, ReuseNeedsOverlap

\* The statement that changes a required skill or a capability is that of a
\* caller who is an admin of the dealership the row belongs to.
THEOREM TenantsApart == Spec => TenantBoundary
  <1>1. BackOfficeInv /\ [Next]_vars
          => [\A l \in LinkIDs :
                links'[l] # links[l] /\ ~ Unscoped(l)
                  => \E r \in Requests :
                       /\ office[r] # Waiting /\ office'[r] = Waiting
                       /\ IsActiveSchedulerAdminForDealership(office[r].by, LinkDealership(l))
             ]_catalogueVars
    <2> SUFFICES ASSUME BackOfficeInv, [Next]_vars, catalogueVars' # catalogueVars
                 PROVE  \A l \in LinkIDs :
                          links'[l] # links[l] /\ ~ Unscoped(l)
                            => \E r \in Requests :
                                 /\ office[r] # Waiting /\ office'[r] = Waiting
                                 /\ IsActiveSchedulerAdminForDealership(office[r].by,
                                                                        LinkDealership(l))
      OBVIOUS
    <2>1. CatalogueInv /\ CatalogueNext
      BY NextByComponent DEF BackOfficeInv, vars
    <2> QED
      BY <2>1, BoundaryStep
  <1> QED
    BY <1>1, BackOfficeInvariance, PTL DEF Spec, TenantBoundary

\* What a deleted service type or bay was assigned stays as it is.
THEOREM WithdrawnStayFrozen == Spec => WithdrawnFrozen
  <1>1. BackOfficeInv /\ [Next]_vars
          => [\A l \in LinkIDs :
                /\ links[l] # Null /\ links[l].table # "technician_skill"
                /\ entities[links[l].parent].gone
                => links'[l] = links[l]]_catalogueVars
    <2> SUFFICES ASSUME BackOfficeInv, [Next]_vars, catalogueVars' # catalogueVars
                 PROVE  \A l \in LinkIDs :
                          /\ links[l] # Null /\ links[l].table # "technician_skill"
                          /\ entities[links[l].parent].gone
                          => links'[l] = links[l]
      OBVIOUS
    <2>1. CatalogueInv /\ CatalogueNext
      BY NextByComponent DEF BackOfficeInv, vars
    <2> QED
      BY <2>1, FrozenStep
  <1> QED
    BY <1>1, BackOfficeInvariance, PTL DEF Spec, WithdrawnFrozen
=============================================================================
