--------------------------- MODULE AppointmentAPI ---------------------------
(* The HTTP operations on appointments, dealerships, their staff and hours, *)
(* customers and vehicles, laid out as SchedulerAPI explains.               *)
EXTENDS Answers

-----------------------------------------------------------------------------
(* Appointments *)

ScheduleAppointmentRequest == {"body"}
ScheduleAppointmentErrors == {400, 403, 404, 409, 422}
ScheduleAppointmentErrorResponse == Cases({400, 401, 403, 404, 409, 422})
ScheduleAppointmentResponses == {201, 400, 401, 403, 404, 409, 422, 500}
ScheduleAppointmentHandler ==
    Handler(ScheduleAppointmentRequest, 201, {}, ScheduleAppointmentErrors,
            ScheduleAppointmentErrorResponse, ScheduleAppointmentResponses)

CheckInAppointmentRequest == {"parameters", "body"}
ChangeAppointmentStatusErrors == {400, 403, 404, 409}
CheckInAppointmentErrorResponse == Cases({400, 403, 404, 409})
CheckInAppointmentResponses == {204, 400, 403, 404, 409, 500}
CheckInAppointmentHandler ==
    Handler(CheckInAppointmentRequest, 204, {}, ChangeAppointmentStatusErrors,
            CheckInAppointmentErrorResponse, CheckInAppointmentResponses)

StartAppointmentRequest == {"parameters", "body"}
StartAppointmentErrorResponse == Cases({400, 403, 404, 409})
StartAppointmentResponses == {204, 400, 403, 404, 409, 500}
StartAppointmentHandler ==
    Handler(StartAppointmentRequest, 204, {}, ChangeAppointmentStatusErrors,
            StartAppointmentErrorResponse, StartAppointmentResponses)

CompleteAppointmentRequest == {"parameters", "body"}
CompleteAppointmentErrorResponse == Cases({400, 403, 404, 409})
CompleteAppointmentResponses == {204, 400, 403, 404, 409, 500}
CompleteAppointmentHandler ==
    Handler(CompleteAppointmentRequest, 204, {}, ChangeAppointmentStatusErrors,
            CompleteAppointmentErrorResponse, CompleteAppointmentResponses)

CancelAppointmentRequest == {"parameters", "body"}
CancelAppointmentErrorResponse == Cases({400, 403, 404, 409})
CancelAppointmentResponses == {204, 400, 403, 404, 409, 500}
CancelAppointmentHandler ==
    Handler(CancelAppointmentRequest, 204, {}, ChangeAppointmentStatusErrors,
            CancelAppointmentErrorResponse, CancelAppointmentResponses)

ListDealershipAppointmentsRequest == {"parameters"}
ListDealershipAppointmentsErrors == {400, 403, 404}
ListDealershipAppointmentsErrorResponse == Cases({400, 401, 403, 404})
ListDealershipAppointmentsResponses == {200, 400, 401, 403, 404, 500}
ListDealershipAppointmentsHandler ==
    Handler(ListDealershipAppointmentsRequest, 200, {},
            ListDealershipAppointmentsErrors,
            ListDealershipAppointmentsErrorResponse,
            ListDealershipAppointmentsResponses)

-----------------------------------------------------------------------------
(* Dealerships and their staff *)

CreateDealershipRequest == {"body"}
CreateDealershipErrors == {400, 403, 409}
CreateDealershipErrorResponse == CasesOrError({400, 401, 403, 409})
CreateDealershipResponses == {201, 400, 401, 403, 409, 500}
CreateDealershipHandler ==
    Handler(CreateDealershipRequest, 201, {}, CreateDealershipErrors,
            CreateDealershipErrorResponse, CreateDealershipResponses)

ListDealershipsRequest == {}
ListDealershipsErrors == {403}
ListDealershipsErrorResponse == Cases({401, 403})
ListDealershipsResponses == {200, 401, 403, 500}
ListDealershipsHandler ==
    Handler(ListDealershipsRequest, 200, {}, ListDealershipsErrors,
            ListDealershipsErrorResponse, ListDealershipsResponses)

CreateDealershipAdminRequest == {"body"}
CreateDealershipAdminErrors == {400, 403, 404, 409}
CreateDealershipAdminErrorResponse == CasesOrError({400, 401, 403, 404, 409})
CreateDealershipAdminResponses == {201, 400, 401, 403, 404, 409, 500}
CreateDealershipAdminHandler ==
    Handler(CreateDealershipAdminRequest, 201, {403},
            CreateDealershipAdminErrors, CreateDealershipAdminErrorResponse,
            CreateDealershipAdminResponses)

CreateDealershipUserRequest == {"body"}
CreateDealershipUserErrors == {400, 403, 404, 409}
CreateDealershipUserErrorResponse == CasesOrError({400, 401, 403, 404, 409})
CreateDealershipUserResponses == {201, 400, 401, 403, 404, 409, 500}
CreateDealershipUserHandler ==
    Handler(CreateDealershipUserRequest, 201, {}, CreateDealershipUserErrors,
            CreateDealershipUserErrorResponse, CreateDealershipUserResponses)

SearchAuthUserByEmailRequest == {"parameters"}
SearchAuthUserByEmailErrors == {400, 403, 404}
SearchAuthUserByEmailErrorResponse == Cases({400, 401, 403, 404})
SearchAuthUserByEmailResponses == {200, 400, 401, 403, 404, 500}
SearchAuthUserByEmailHandler ==
    Handler(SearchAuthUserByEmailRequest, 200, {}, SearchAuthUserByEmailErrors,
            SearchAuthUserByEmailErrorResponse, SearchAuthUserByEmailResponses)

-----------------------------------------------------------------------------
(* Operating hours *)

ListDealershipOperationTimesRequest == {"parameters"}
ListDealershipOperationTimesErrors == {400, 403, 404}
ListDealershipOperationTimesErrorResponse == Cases({401, 403, 404})
ListDealershipOperationTimesResponses == {200, 401, 403, 404, 500}
ListDealershipOperationTimesHandler ==
    Handler(ListDealershipOperationTimesRequest, 200, {},
            ListDealershipOperationTimesErrors,
            ListDealershipOperationTimesErrorResponse,
            ListDealershipOperationTimesResponses)

CreateDealershipOperationTimeRequest == {"parameters", "body"}
CreateDealershipOperationTimeErrors == {400, 403, 404, 409, 422}
CreateDealershipOperationTimeErrorResponse == Cases({400, 401, 403, 404, 409, 422})
CreateDealershipOperationTimeResponses == {201, 400, 401, 403, 404, 409, 422, 500}
CreateDealershipOperationTimeHandler ==
    Handler(CreateDealershipOperationTimeRequest, 201, {400},
            CreateDealershipOperationTimeErrors,
            CreateDealershipOperationTimeErrorResponse,
            CreateDealershipOperationTimeResponses)

DeleteDealershipOperationTimeRequest == {"parameters"}
DeleteDealershipOperationTimeErrors == {400, 403, 404}
DeleteDealershipOperationTimeErrorResponse == Cases({401, 403, 404})
DeleteDealershipOperationTimeResponses == {204, 401, 403, 404, 500}
DeleteDealershipOperationTimeHandler ==
    Handler(DeleteDealershipOperationTimeRequest, 204, {},
            DeleteDealershipOperationTimeErrors,
            DeleteDealershipOperationTimeErrorResponse,
            DeleteDealershipOperationTimeResponses)

UpdateDealershipOperationTimeRequest == {"parameters", "body"}
UpdateDealershipOperationTimeErrors == {400, 403, 404, 409, 422}
UpdateDealershipOperationTimeErrorResponse == Cases({400, 401, 403, 404, 409, 422})
UpdateDealershipOperationTimeResponses == {200, 400, 401, 403, 404, 409, 422, 500}
UpdateDealershipOperationTimeHandler ==
    Handler(UpdateDealershipOperationTimeRequest, 200, {400},
            UpdateDealershipOperationTimeErrors,
            UpdateDealershipOperationTimeErrorResponse,
            UpdateDealershipOperationTimeResponses)

-----------------------------------------------------------------------------
(* Customers and vehicles *)

CreateCustomerRequest == {"body"}
CreateCustomerErrors == {400, 403, 409}
CreateCustomerErrorResponse == Cases({400, 401, 403, 409})
CreateCustomerResponses == {201, 400, 401, 403, 409, 500}
CreateCustomerHandler ==
    Handler(CreateCustomerRequest, 201, {}, CreateCustomerErrors,
            CreateCustomerErrorResponse, CreateCustomerResponses)

GetCustomerRequest == {"parameters"}
GetCustomerErrors == {400, 403, 404}
GetCustomerErrorResponse == Cases({400, 401, 403, 404})
GetCustomerResponses == {200, 400, 401, 403, 404, 500}
GetCustomerHandler ==
    Handler(GetCustomerRequest, 200, {}, GetCustomerErrors,
            GetCustomerErrorResponse, GetCustomerResponses)

UpdateCustomerRequest == {"parameters", "body"}
UpdateCustomerErrors == {400, 403, 404, 409}
UpdateCustomerErrorResponse == Cases({400, 401, 403, 404, 409})
UpdateCustomerResponses == {200, 400, 401, 403, 404, 409, 500}
UpdateCustomerHandler ==
    Handler(UpdateCustomerRequest, 200, {}, UpdateCustomerErrors,
            UpdateCustomerErrorResponse, UpdateCustomerResponses)

SearchCustomersRequest == {"parameters"}
SearchCustomersErrors == {400, 403}
SearchCustomersErrorResponse == Cases({400, 401, 403})
SearchCustomersResponses == {200, 400, 401, 403, 500}
SearchCustomersHandler ==
    Handler(SearchCustomersRequest, 200, {}, SearchCustomersErrors,
            SearchCustomersErrorResponse, SearchCustomersResponses)

ListCustomerVehiclesRequest == {"parameters"}
ListCustomerVehiclesErrors == {403, 404}
ListCustomerVehiclesErrorResponse == Cases({401, 403, 404})
ListCustomerVehiclesResponses == {200, 401, 403, 404, 500}
ListCustomerVehiclesHandler ==
    Handler(ListCustomerVehiclesRequest, 200, {}, ListCustomerVehiclesErrors,
            ListCustomerVehiclesErrorResponse, ListCustomerVehiclesResponses)

CreateVehicleRequest == {"parameters", "body"}
CreateVehicleErrors == {400, 403, 404, 409}
\* createVehicleErrorResponse without its case for a taken VIN.
CreateVehicleConflictForgotten == Cases({400, 401, 403, 404})
CreateVehicleErrorResponse == Cases({400, 401, 403, 404, 409})
CreateVehicleResponses == {201, 400, 401, 403, 404, 409, 500}
CreateVehicleHandler ==
    Handler(CreateVehicleRequest, 201, {}, CreateVehicleErrors,
            CreateVehicleErrorResponse, CreateVehicleResponses)

GetVehicleRequest == {"parameters"}
GetVehicleErrors == {403, 404}
GetVehicleErrorResponse == Cases({401, 403, 404})
GetVehicleResponses == {200, 401, 403, 404, 500}
GetVehicleHandler ==
    Handler(GetVehicleRequest, 200, {}, GetVehicleErrors,
            GetVehicleErrorResponse, GetVehicleResponses)

UpdateVehicleRequest == {"parameters", "body"}
UpdateVehicleErrors == {400, 403, 404, 409}
UpdateVehicleErrorResponse == Cases({400, 401, 403, 404, 409})
UpdateVehicleResponses == {200, 400, 401, 403, 404, 409, 500}
UpdateVehicleHandler ==
    Handler(UpdateVehicleRequest, 200, {400}, UpdateVehicleErrors,
            UpdateVehicleErrorResponse, UpdateVehicleResponses)

DeleteVehicleRequest == {"parameters"}
DeleteVehicleErrors == {403, 404}
DeleteVehicleErrorResponse == Cases({401, 403, 404, 409})
DeleteVehicleResponses == {204, 401, 403, 404, 409, 500}
DeleteVehicleHandler ==
    Handler(DeleteVehicleRequest, 204, {}, DeleteVehicleErrors,
            DeleteVehicleErrorResponse, DeleteVehicleResponses)
=============================================================================
