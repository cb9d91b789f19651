--------------------------- MODULE TechnicianAPI ----------------------------
(* The HTTP operations on technicians, laid out as SchedulerAPI explains.   *)
EXTENDS Answers

-----------------------------------------------------------------------------
(* Technicians *)

ListTechniciansRequest == {"parameters"}
ListTechniciansErrors == {400, 403}
ListTechniciansErrorResponse == Cases({400, 401, 403})
ListTechniciansResponses == {200, 400, 401, 403, 500}
ListTechniciansHandler ==
    Handler(ListTechniciansRequest, 200, {}, ListTechniciansErrors,
            ListTechniciansErrorResponse, ListTechniciansResponses)

CreateTechnicianRequest == {"body"}
CreateTechnicianErrors == {400, 403, 422}
CreateTechnicianErrorResponse == Cases({400, 401, 403, 409, 422})
CreateTechnicianResponses == {201, 400, 401, 403, 409, 422, 500}
CreateTechnicianHandler ==
    Handler(CreateTechnicianRequest, 201, {}, CreateTechnicianErrors,
            CreateTechnicianErrorResponse, CreateTechnicianResponses)

GetTechnicianRequest == {"parameters"}
GetTechnicianErrors == {403, 404}
GetTechnicianErrorResponse == Cases({401, 403, 404})
GetTechnicianResponses == {200, 401, 403, 404, 500}
GetTechnicianHandler ==
    Handler(GetTechnicianRequest, 200, {}, GetTechnicianErrors,
            GetTechnicianErrorResponse, GetTechnicianResponses)

UpdateTechnicianRequest == {"parameters", "body"}
UpdateTechnicianErrors == {400, 403, 404, 422}
UpdateTechnicianErrorResponse == Cases({400, 401, 403, 404, 409, 422})
UpdateTechnicianResponses == {200, 400, 401, 403, 404, 409, 422, 500}
UpdateTechnicianHandler ==
    Handler(UpdateTechnicianRequest, 200, {400}, UpdateTechnicianErrors,
            UpdateTechnicianErrorResponse, UpdateTechnicianResponses)

DeleteTechnicianRequest == {"parameters"}
DeleteTechnicianErrors == {403, 404, 409}
DeleteTechnicianErrorResponse == Cases({401, 403, 404, 409})
DeleteTechnicianResponses == {204, 401, 403, 404, 409, 500}
DeleteTechnicianHandler ==
    Handler(DeleteTechnicianRequest, 204, {}, DeleteTechnicianErrors,
            DeleteTechnicianErrorResponse, DeleteTechnicianResponses)

ListTechnicianSchedulesRequest == {"parameters"}
ListTechnicianSchedulesErrors == {400, 403, 404}
ListTechnicianSchedulesErrorResponse == Cases({400, 401, 403, 404})
ListTechnicianSchedulesResponses == {200, 400, 401, 403, 404, 500}
ListTechnicianSchedulesHandler ==
    Handler(ListTechnicianSchedulesRequest, 200, {400},
            ListTechnicianSchedulesErrors, ListTechnicianSchedulesErrorResponse,
            ListTechnicianSchedulesResponses)

ListTechnicianSkillsRequest == {"parameters"}
ListTechnicianSkillsErrors == {403, 404}
ListTechnicianSkillsErrorResponse == Cases({400, 401, 403, 404})
ListTechnicianSkillsResponses == {200, 400, 401, 403, 404, 500}
ListTechnicianSkillsHandler ==
    Handler(ListTechnicianSkillsRequest, 200, {}, ListTechnicianSkillsErrors,
            ListTechnicianSkillsErrorResponse, ListTechnicianSkillsResponses)

CreateTechnicianSkillRequest == {"parameters", "body"}
CreateTechnicianSkillErrors == {400, 403, 404, 409}
CreateTechnicianSkillErrorResponse == Cases({400, 401, 403, 404, 409})
CreateTechnicianSkillResponses == {201, 400, 401, 403, 404, 409, 500}
CreateTechnicianSkillHandler ==
    Handler(CreateTechnicianSkillRequest, 201, {}, CreateTechnicianSkillErrors,
            CreateTechnicianSkillErrorResponse, CreateTechnicianSkillResponses)

DeleteTechnicianSkillRequest == {"parameters"}
DeleteTechnicianSkillErrors == {403, 404}
DeleteTechnicianSkillErrorResponse == Cases({401, 403, 404})
DeleteTechnicianSkillResponses == {204, 401, 403, 404, 500}
DeleteTechnicianSkillHandler ==
    Handler(DeleteTechnicianSkillRequest, 204, {}, DeleteTechnicianSkillErrors,
            DeleteTechnicianSkillErrorResponse, DeleteTechnicianSkillResponses)

UpdateTechnicianSkillRequest == {"parameters", "body"}
UpdateTechnicianSkillErrors == {400, 403, 404, 409}
UpdateTechnicianSkillErrorResponse == Cases({400, 401, 403, 404, 409})
UpdateTechnicianSkillResponses == {200, 400, 401, 403, 404, 409, 500}
UpdateTechnicianSkillHandler ==
    Handler(UpdateTechnicianSkillRequest, 200, {}, UpdateTechnicianSkillErrors,
            UpdateTechnicianSkillErrorResponse, UpdateTechnicianSkillResponses)

ListTechnicianShiftsRequest == {"parameters"}
ListTechnicianShiftsErrors == {403, 404}
ListTechnicianShiftsErrorResponse == Cases({401, 403, 404})
ListTechnicianShiftsResponses == {200, 401, 403, 404, 500}
ListTechnicianShiftsHandler ==
    Handler(ListTechnicianShiftsRequest, 200, {}, ListTechnicianShiftsErrors,
            ListTechnicianShiftsErrorResponse, ListTechnicianShiftsResponses)

CreateTechnicianShiftRequest == {"parameters", "body"}
CreateTechnicianShiftErrors == {403, 404, 409, 422}
CreateTechnicianShiftErrorResponse == [Cases({401, 403, 404, 409, 422}) EXCEPT ![400] = 422]
CreateTechnicianShiftResponses == {201, 401, 403, 404, 409, 422, 500}
CreateTechnicianShiftHandler ==
    Handler(CreateTechnicianShiftRequest, 201, {422},
            CreateTechnicianShiftErrors, CreateTechnicianShiftErrorResponse,
            CreateTechnicianShiftResponses)

DeleteTechnicianShiftRequest == {"parameters"}
DeleteTechnicianShiftErrors == {403, 404}
DeleteTechnicianShiftErrorResponse == Cases({401, 403, 404, 409})
DeleteTechnicianShiftResponses == {204, 401, 403, 404, 409, 500}
DeleteTechnicianShiftHandler ==
    Handler(DeleteTechnicianShiftRequest, 204, {}, DeleteTechnicianShiftErrors,
            DeleteTechnicianShiftErrorResponse, DeleteTechnicianShiftResponses)

UpdateTechnicianShiftRequest == {"parameters", "body"}
UpdateTechnicianShiftErrors == {403, 404, 422}
UpdateTechnicianShiftErrorResponse == [Cases({401, 403, 404, 409, 422}) EXCEPT ![400] = 422]
UpdateTechnicianShiftResponses == {200, 401, 403, 404, 409, 422, 500}
UpdateTechnicianShiftHandler ==
    Handler(UpdateTechnicianShiftRequest, 200, {422},
            UpdateTechnicianShiftErrors, UpdateTechnicianShiftErrorResponse,
            UpdateTechnicianShiftResponses)

ListTechnicianTimeOffRequest == {"parameters"}
ListTechnicianTimeOffErrors == {403, 404}
ListTechnicianTimeOffErrorResponse == Cases({400, 401, 403, 404})
ListTechnicianTimeOffResponses == {200, 400, 401, 403, 404, 500}
ListTechnicianTimeOffHandler ==
    Handler(ListTechnicianTimeOffRequest, 200, {400},
            ListTechnicianTimeOffErrors, ListTechnicianTimeOffErrorResponse,
            ListTechnicianTimeOffResponses)

CreateTechnicianTimeOffRequest == {"parameters", "body"}
CreateTechnicianTimeOffErrors == {400, 403, 404, 409}
CreateTechnicianTimeOffErrorResponse == Cases({400, 401, 403, 404, 409})
CreateTechnicianTimeOffResponses == {201, 400, 401, 403, 404, 409, 500}
CreateTechnicianTimeOffHandler ==
    Handler(CreateTechnicianTimeOffRequest, 201, {},
            CreateTechnicianTimeOffErrors, CreateTechnicianTimeOffErrorResponse,
            CreateTechnicianTimeOffResponses)

DeleteTechnicianTimeOffRequest == {"parameters"}
DeleteTechnicianTimeOffErrors == {403, 404}
DeleteTechnicianTimeOffErrorResponse == Cases({401, 403, 404})
DeleteTechnicianTimeOffResponses == {204, 401, 403, 404, 500}
DeleteTechnicianTimeOffHandler ==
    Handler(DeleteTechnicianTimeOffRequest, 204, {},
            DeleteTechnicianTimeOffErrors, DeleteTechnicianTimeOffErrorResponse,
            DeleteTechnicianTimeOffResponses)

GetTechnicianTimeOffRequest == {"parameters"}
GetTechnicianTimeOffErrors == {403, 404}
GetTechnicianTimeOffErrorResponse == Cases({401, 403, 404})
GetTechnicianTimeOffResponses == {200, 401, 403, 404, 500}
GetTechnicianTimeOffHandler ==
    Handler(GetTechnicianTimeOffRequest, 200, {}, GetTechnicianTimeOffErrors,
            GetTechnicianTimeOffErrorResponse, GetTechnicianTimeOffResponses)

UpdateTechnicianTimeOffRequest == {"parameters", "body"}
UpdateTechnicianTimeOffErrors == {400, 403, 404, 409}
UpdateTechnicianTimeOffErrorResponse == Cases({400, 401, 403, 404, 409})
UpdateTechnicianTimeOffResponses == {200, 400, 401, 403, 404, 409, 500}
UpdateTechnicianTimeOffHandler ==
    Handler(UpdateTechnicianTimeOffRequest, 200, {400},
            UpdateTechnicianTimeOffErrors, UpdateTechnicianTimeOffErrorResponse,
            UpdateTechnicianTimeOffResponses)
=============================================================================
