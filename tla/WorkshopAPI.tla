---------------------------- MODULE WorkshopAPI -----------------------------
(* The HTTP operations on service bays and service types, laid out as       *)
(* SchedulerAPI explains.                                                   *)
EXTENDS Answers

-----------------------------------------------------------------------------
(* Service bays *)

ListServiceBaysRequest == {"parameters"}
ListServiceBaysErrors == {400, 403}
ListServiceBaysErrorResponse == Cases({400, 401, 403})
ListServiceBaysResponses == {200, 400, 401, 403, 500}
ListServiceBaysHandler ==
    Handler(ListServiceBaysRequest, 200, {}, ListServiceBaysErrors,
            ListServiceBaysErrorResponse, ListServiceBaysResponses)

CreateServiceBayRequest == {"parameters", "body"}
CreateServiceBayErrors == {400, 403, 409}
CreateServiceBayErrorResponse == Cases({400, 401, 403, 409})
CreateServiceBayResponses == {201, 400, 401, 403, 409, 500}
CreateServiceBayHandler ==
    Handler(CreateServiceBayRequest, 201, {}, CreateServiceBayErrors,
            CreateServiceBayErrorResponse, CreateServiceBayResponses)

GetServiceBayRequest == {"parameters"}
GetServiceBayErrors == {400, 403, 404}
GetServiceBayErrorResponse == Cases({401, 403, 404})
GetServiceBayResponses == {200, 401, 403, 404, 500}
GetServiceBayHandler ==
    Handler(GetServiceBayRequest, 200, {}, GetServiceBayErrors,
            GetServiceBayErrorResponse, GetServiceBayResponses)

UpdateServiceBayRequest == {"parameters", "body"}
UpdateServiceBayErrors == {400, 403, 404, 409}
UpdateServiceBayErrorResponse == Cases({400, 401, 403, 404, 409})
UpdateServiceBayResponses == {200, 400, 401, 403, 404, 409, 500}
UpdateServiceBayHandler ==
    Handler(UpdateServiceBayRequest, 200, {400}, UpdateServiceBayErrors,
            UpdateServiceBayErrorResponse, UpdateServiceBayResponses)

DeleteServiceBayRequest == {"parameters"}
DeleteServiceBayErrors == {400, 403, 404, 409}
DeleteServiceBayErrorResponse == Cases({401, 403, 404, 409})
DeleteServiceBayResponses == {204, 401, 403, 404, 409, 500}
DeleteServiceBayHandler ==
    Handler(DeleteServiceBayRequest, 204, {}, DeleteServiceBayErrors,
            DeleteServiceBayErrorResponse, DeleteServiceBayResponses)

ListAvailableServiceBaysRequest == {"parameters"}
ListAvailableServiceBaysErrors == {400, 403, 404}
ListAvailableServiceBaysErrorResponse == Cases({400, 401, 403, 404})
ListAvailableServiceBaysResponses == {200, 400, 401, 403, 404, 500}
ListAvailableServiceBaysHandler ==
    Handler(ListAvailableServiceBaysRequest, 200, {},
            ListAvailableServiceBaysErrors,
            ListAvailableServiceBaysErrorResponse,
            ListAvailableServiceBaysResponses)

ListServiceBayCapabilitiesRequest == {"parameters"}
ListServiceBayCapabilitiesErrors == {400, 403, 404}
ListServiceBayCapabilitiesErrorResponse == Cases({401, 403, 404})
ListServiceBayCapabilitiesResponses == {200, 401, 403, 404, 500}
ListServiceBayCapabilitiesHandler ==
    Handler(ListServiceBayCapabilitiesRequest, 200, {},
            ListServiceBayCapabilitiesErrors,
            ListServiceBayCapabilitiesErrorResponse,
            ListServiceBayCapabilitiesResponses)

CreateServiceBayCapabilityRequest == {"parameters", "body"}
CreateServiceBayCapabilityErrors == {400, 403, 404, 409}
CreateServiceBayCapabilityErrorResponse == Cases({400, 401, 403, 404, 409})
CreateServiceBayCapabilityResponses == {201, 400, 401, 403, 404, 409, 500}
CreateServiceBayCapabilityHandler ==
    Handler(CreateServiceBayCapabilityRequest, 201, {},
            CreateServiceBayCapabilityErrors,
            CreateServiceBayCapabilityErrorResponse,
            CreateServiceBayCapabilityResponses)

DeleteServiceBayCapabilityRequest == {"parameters"}
DeleteServiceBayCapabilityErrors == {400, 403, 404}
DeleteServiceBayCapabilityErrorResponse == Cases({401, 403, 404})
DeleteServiceBayCapabilityResponses == {204, 401, 403, 404, 500}
DeleteServiceBayCapabilityHandler ==
    Handler(DeleteServiceBayCapabilityRequest, 204, {},
            DeleteServiceBayCapabilityErrors,
            DeleteServiceBayCapabilityErrorResponse,
            DeleteServiceBayCapabilityResponses)

UpdateServiceBayCapabilityRequest == {"parameters", "body"}
UpdateServiceBayCapabilityErrors == {400, 403, 404, 409}
UpdateServiceBayCapabilityErrorResponse == Cases({400, 401, 403, 404, 409})
UpdateServiceBayCapabilityResponses == {200, 400, 401, 403, 404, 409, 500}
UpdateServiceBayCapabilityHandler ==
    Handler(UpdateServiceBayCapabilityRequest, 200, {},
            UpdateServiceBayCapabilityErrors,
            UpdateServiceBayCapabilityErrorResponse,
            UpdateServiceBayCapabilityResponses)

-----------------------------------------------------------------------------
(* Service types *)

ListServiceTypesRequest == {"parameters"}
ListServiceTypesErrors == {400, 403}
ListServiceTypesErrorResponse == Cases({401, 403})
ListServiceTypesResponses == {200, 401, 403, 500}
ListServiceTypesHandler ==
    Handler(ListServiceTypesRequest, 200, {}, ListServiceTypesErrors,
            ListServiceTypesErrorResponse, ListServiceTypesResponses)

CreateServiceTypeRequest == {"parameters", "body"}
CreateServiceTypeErrors == {400, 403, 409}
CreateServiceTypeErrorResponse == Cases({400, 401, 403, 409})
CreateServiceTypeResponses == {201, 400, 401, 403, 409, 500}
CreateServiceTypeHandler ==
    Handler(CreateServiceTypeRequest, 201, {}, CreateServiceTypeErrors,
            CreateServiceTypeErrorResponse, CreateServiceTypeResponses)

GetServiceTypeRequest == {"parameters"}
GetServiceTypeErrors == {400, 403, 404}
GetServiceTypeErrorResponse == Cases({401, 403, 404})
GetServiceTypeResponses == {200, 401, 403, 404, 500}
GetServiceTypeHandler ==
    Handler(GetServiceTypeRequest, 200, {}, GetServiceTypeErrors,
            GetServiceTypeErrorResponse, GetServiceTypeResponses)

UpdateServiceTypeRequest == {"parameters", "body"}
UpdateServiceTypeErrors == {400, 403, 404, 409}
UpdateServiceTypeErrorResponse == Cases({400, 401, 403, 404, 409})
UpdateServiceTypeResponses == {200, 400, 401, 403, 404, 409, 500}
UpdateServiceTypeHandler ==
    Handler(UpdateServiceTypeRequest, 200, {400}, UpdateServiceTypeErrors,
            UpdateServiceTypeErrorResponse, UpdateServiceTypeResponses)

DeleteServiceTypeRequest == {"parameters"}
DeleteServiceTypeErrors == {400, 403, 404, 409}
DeleteServiceTypeErrorResponse == Cases({401, 403, 404, 409})
DeleteServiceTypeResponses == {204, 401, 403, 404, 409, 500}
DeleteServiceTypeHandler ==
    Handler(DeleteServiceTypeRequest, 204, {}, DeleteServiceTypeErrors,
            DeleteServiceTypeErrorResponse, DeleteServiceTypeResponses)

ListServiceTypeRequiredSkillsRequest == {"parameters"}
ListServiceTypeRequiredSkillsErrors == {400, 403, 404}
ListServiceTypeRequiredSkillsErrorResponse == Cases({401, 403, 404})
ListServiceTypeRequiredSkillsResponses == {200, 401, 403, 404, 500}
ListServiceTypeRequiredSkillsHandler ==
    Handler(ListServiceTypeRequiredSkillsRequest, 200, {},
            ListServiceTypeRequiredSkillsErrors,
            ListServiceTypeRequiredSkillsErrorResponse,
            ListServiceTypeRequiredSkillsResponses)

CreateServiceTypeRequiredSkillRequest == {"parameters", "body"}
CreateServiceTypeRequiredSkillErrors == {400, 403, 404, 409}
CreateServiceTypeRequiredSkillErrorResponse == Cases({400, 401, 403, 404, 409})
CreateServiceTypeRequiredSkillResponses == {201, 400, 401, 403, 404, 409, 500}
CreateServiceTypeRequiredSkillHandler ==
    Handler(CreateServiceTypeRequiredSkillRequest, 201, {},
            CreateServiceTypeRequiredSkillErrors,
            CreateServiceTypeRequiredSkillErrorResponse,
            CreateServiceTypeRequiredSkillResponses)

DeleteServiceTypeRequiredSkillRequest == {"parameters"}
DeleteServiceTypeRequiredSkillErrors == {400, 403, 404}
DeleteServiceTypeRequiredSkillErrorResponse == Cases({401, 403, 404})
DeleteServiceTypeRequiredSkillResponses == {204, 401, 403, 404, 500}
DeleteServiceTypeRequiredSkillHandler ==
    Handler(DeleteServiceTypeRequiredSkillRequest, 204, {},
            DeleteServiceTypeRequiredSkillErrors,
            DeleteServiceTypeRequiredSkillErrorResponse,
            DeleteServiceTypeRequiredSkillResponses)

UpdateServiceTypeRequiredSkillRequest == {"parameters", "body"}
UpdateServiceTypeRequiredSkillErrors == {400, 403, 404, 409}
UpdateServiceTypeRequiredSkillErrorResponse == Cases({400, 401, 403, 404, 409})
UpdateServiceTypeRequiredSkillResponses == {200, 400, 401, 403, 404, 409, 500}
UpdateServiceTypeRequiredSkillHandler ==
    Handler(UpdateServiceTypeRequiredSkillRequest, 200, {},
            UpdateServiceTypeRequiredSkillErrors,
            UpdateServiceTypeRequiredSkillErrorResponse,
            UpdateServiceTypeRequiredSkillResponses)

ListServiceTypeRequiredBayCapabilitiesRequest == {"parameters"}
ListServiceTypeRequiredBayCapabilitiesErrors == {400, 403, 404}
ListServiceTypeRequiredBayCapabilitiesErrorResponse == Cases({401, 403, 404})
ListServiceTypeRequiredBayCapabilitiesResponses == {200, 401, 403, 404, 500}
ListServiceTypeRequiredBayCapabilitiesHandler ==
    Handler(ListServiceTypeRequiredBayCapabilitiesRequest, 200, {},
            ListServiceTypeRequiredBayCapabilitiesErrors,
            ListServiceTypeRequiredBayCapabilitiesErrorResponse,
            ListServiceTypeRequiredBayCapabilitiesResponses)

CreateServiceTypeRequiredBayCapabilityRequest == {"parameters", "body"}
CreateServiceTypeRequiredBayCapabilityErrors == {400, 403, 404}
CreateServiceTypeRequiredBayCapabilityErrorResponse == Cases({400, 401, 403, 404, 409})
CreateServiceTypeRequiredBayCapabilityResponses == {201, 400, 401, 403, 404, 409, 500}
CreateServiceTypeRequiredBayCapabilityHandler ==
    Handler(CreateServiceTypeRequiredBayCapabilityRequest, 201, {},
            CreateServiceTypeRequiredBayCapabilityErrors,
            CreateServiceTypeRequiredBayCapabilityErrorResponse,
            CreateServiceTypeRequiredBayCapabilityResponses)

DeleteServiceTypeRequiredBayCapabilityRequest == {"parameters"}
DeleteServiceTypeRequiredBayCapabilityErrors == {400, 403, 404}
DeleteServiceTypeRequiredBayCapabilityErrorResponse == Cases({401, 403, 404})
DeleteServiceTypeRequiredBayCapabilityResponses == {204, 401, 403, 404, 500}
DeleteServiceTypeRequiredBayCapabilityHandler ==
    Handler(DeleteServiceTypeRequiredBayCapabilityRequest, 204, {},
            DeleteServiceTypeRequiredBayCapabilityErrors,
            DeleteServiceTypeRequiredBayCapabilityErrorResponse,
            DeleteServiceTypeRequiredBayCapabilityResponses)

UpdateServiceTypeRequiredBayCapabilityRequest == {"parameters", "body"}
UpdateServiceTypeRequiredBayCapabilityErrors == {400, 403, 404}
UpdateServiceTypeRequiredBayCapabilityErrorResponse == Cases({400, 401, 403, 404, 409})
UpdateServiceTypeRequiredBayCapabilityResponses == {200, 400, 401, 403, 404, 409, 500}
UpdateServiceTypeRequiredBayCapabilityHandler ==
    Handler(UpdateServiceTypeRequiredBayCapabilityRequest, 200, {},
            UpdateServiceTypeRequiredBayCapabilityErrors,
            UpdateServiceTypeRequiredBayCapabilityErrorResponse,
            UpdateServiceTypeRequiredBayCapabilityResponses)
=============================================================================
