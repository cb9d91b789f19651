---------------------------- MODULE SchedulerAPI ----------------------------
(***************************************************************************)
(* The operations of the scheduler's HTTP interface, layer by layer.  Of   *)
(* each: what the generated code binds before it calls the handler         *)
(* (...Request), the errors the service reports to an authenticated caller *)
(* (...Errors), what the handler makes of an error (...ErrorResponse), the *)
(* statuses the generated response types can write (...Responses) and the  *)
(* handler with the errors it answers itself (...Handler).  Bodies the     *)
(* handler finds missing are left out: the generated code always sets one. *)
(***************************************************************************)
EXTENDS AppointmentAPI, WorkshopAPI, TechnicianAPI

-----------------------------------------------------------------------------
(* The table of operations *)

SchedulerOperations ==
    [ScheduleAppointment |-> ScheduleAppointmentHandler,
     CancelAppointment |-> CancelAppointmentHandler,
     CheckInAppointment |-> CheckInAppointmentHandler,
     CompleteAppointment |-> CompleteAppointmentHandler,
     StartAppointment |-> StartAppointmentHandler,
     CreateCustomer |-> CreateCustomerHandler,
     GetCustomer |-> GetCustomerHandler,
     UpdateCustomer |-> UpdateCustomerHandler,
     ListCustomerVehicles |-> ListCustomerVehiclesHandler,
     CreateVehicle |-> CreateVehicleHandler,
     SearchCustomers |-> SearchCustomersHandler,
     CreateDealershipUser |-> CreateDealershipUserHandler,
     CreateDealershipAdmin |-> CreateDealershipAdminHandler,
     SearchAuthUserByEmail |-> SearchAuthUserByEmailHandler,
     ListDealerships |-> ListDealershipsHandler,
     CreateDealership |-> CreateDealershipHandler,
     ListDealershipAppointments |-> ListDealershipAppointmentsHandler,
     ListDealershipOperationTimes |-> ListDealershipOperationTimesHandler,
     CreateDealershipOperationTime |-> CreateDealershipOperationTimeHandler,
     DeleteDealershipOperationTime |-> DeleteDealershipOperationTimeHandler,
     UpdateDealershipOperationTime |-> UpdateDealershipOperationTimeHandler,
     ListServiceBays |-> ListServiceBaysHandler,
     CreateServiceBay |-> CreateServiceBayHandler,
     ListAvailableServiceBays |-> ListAvailableServiceBaysHandler,
     DeleteServiceBay |-> DeleteServiceBayHandler,
     GetServiceBay |-> GetServiceBayHandler,
     UpdateServiceBay |-> UpdateServiceBayHandler,
     ListServiceBayCapabilities |-> ListServiceBayCapabilitiesHandler,
     CreateServiceBayCapability |-> CreateServiceBayCapabilityHandler,
     DeleteServiceBayCapability |-> DeleteServiceBayCapabilityHandler,
     UpdateServiceBayCapability |-> UpdateServiceBayCapabilityHandler,
     ListServiceTypes |-> ListServiceTypesHandler,
     CreateServiceType |-> CreateServiceTypeHandler,
     DeleteServiceType |-> DeleteServiceTypeHandler,
     GetServiceType |-> GetServiceTypeHandler,
     UpdateServiceType |-> UpdateServiceTypeHandler,
     ListServiceTypeRequiredBayCapabilities |-> ListServiceTypeRequiredBayCapabilitiesHandler,
     CreateServiceTypeRequiredBayCapability |-> CreateServiceTypeRequiredBayCapabilityHandler,
     DeleteServiceTypeRequiredBayCapability |-> DeleteServiceTypeRequiredBayCapabilityHandler,
     UpdateServiceTypeRequiredBayCapability |-> UpdateServiceTypeRequiredBayCapabilityHandler,
     ListServiceTypeRequiredSkills |-> ListServiceTypeRequiredSkillsHandler,
     CreateServiceTypeRequiredSkill |-> CreateServiceTypeRequiredSkillHandler,
     DeleteServiceTypeRequiredSkill |-> DeleteServiceTypeRequiredSkillHandler,
     UpdateServiceTypeRequiredSkill |-> UpdateServiceTypeRequiredSkillHandler,
     ListTechnicianSchedules |-> ListTechnicianSchedulesHandler,
     ListTechnicians |-> ListTechniciansHandler,
     CreateTechnician |-> CreateTechnicianHandler,
     DeleteTechnician |-> DeleteTechnicianHandler,
     GetTechnician |-> GetTechnicianHandler,
     UpdateTechnician |-> UpdateTechnicianHandler,
     ListTechnicianShifts |-> ListTechnicianShiftsHandler,
     CreateTechnicianShift |-> CreateTechnicianShiftHandler,
     DeleteTechnicianShift |-> DeleteTechnicianShiftHandler,
     UpdateTechnicianShift |-> UpdateTechnicianShiftHandler,
     ListTechnicianSkills |-> ListTechnicianSkillsHandler,
     CreateTechnicianSkill |-> CreateTechnicianSkillHandler,
     DeleteTechnicianSkill |-> DeleteTechnicianSkillHandler,
     UpdateTechnicianSkill |-> UpdateTechnicianSkillHandler,
     ListTechnicianTimeOff |-> ListTechnicianTimeOffHandler,
     CreateTechnicianTimeOff |-> CreateTechnicianTimeOffHandler,
     DeleteTechnicianTimeOff |-> DeleteTechnicianTimeOffHandler,
     GetTechnicianTimeOff |-> GetTechnicianTimeOffHandler,
     UpdateTechnicianTimeOff |-> UpdateTechnicianTimeOffHandler,
     DeleteVehicle |-> DeleteVehicleHandler,
     GetVehicle |-> GetVehicleHandler,
     UpdateVehicle |-> UpdateVehicleHandler]

\* The GET and DELETE routes, which the idempotency middleware lets through.
SchedulerExempt ==
    {"ListAvailableServiceBays", "ListTechnicianSchedules",
     "ListDealershipAppointments", "ListDealershipOperationTimes",
     "DeleteDealershipOperationTime", "ListServiceBays", "DeleteServiceBay",
     "GetServiceBay", "ListServiceBayCapabilities",
     "DeleteServiceBayCapability", "ListServiceTypes", "DeleteServiceType",
     "GetServiceType", "ListServiceTypeRequiredSkills",
     "DeleteServiceTypeRequiredSkill", "ListServiceTypeRequiredBayCapabilities",
     "DeleteServiceTypeRequiredBayCapability", "SearchAuthUserByEmail",
     "ListDealerships", "GetCustomer", "SearchCustomers",
     "ListCustomerVehicles", "ListTechnicians", "DeleteTechnician",
     "GetTechnician", "ListTechnicianSkills", "DeleteTechnicianSkill",
     "ListTechnicianShifts", "DeleteTechnicianShift", "ListTechnicianTimeOff",
     "DeleteTechnicianTimeOff", "GetTechnicianTimeOff", "DeleteVehicle",
     "GetVehicle"}

\* HasFutureAppointmentsOutsideTechnicianShift names users.timezone, a column no
\* migration creates: the operations that run it never succeed.
SchedulerBroken == {"UpdateTechnicianShift", "DeleteTechnicianShift"}
=============================================================================
