------------------------------ MODULE AuthAPI ------------------------------
(***************************************************************************)
(* The operations of the auth module's HTTP interface, laid out as those   *)
(* of SchedulerAPI.  Errors stand for what they mean to a caller: 403 is   *)
(* ErrForbidden, 404 ErrNotFound, 401 ErrInvalidCredentials, 409           *)
(* ErrEmailTaken or an existing account, 400 any refused input.            *)
(***************************************************************************)
EXTENDS Answers

-----------------------------------------------------------------------------
SignUpRequest == {"body"}
CreateUserErrors == {400, 409}
SignUpErrorResponse == CasesElse({409}, 400)
SignUpResponses == {201, 400, 409}
SignUpHandler ==
    Handler(SignUpRequest, 201, {}, CreateUserErrors, SignUpErrorResponse,
            SignUpResponses)

CreateSuperadminRequest == {"body"}
CreateSuperadminErrorResponse == CasesOrError({400, 409})
CreateSuperadminResponses == {201, 400, 409, 500}
CreateSuperadminHandler ==
    Handler(CreateSuperadminRequest, 201, {}, CreateUserErrors,
            CreateSuperadminErrorResponse, CreateSuperadminResponses)

SignInRequest == {"body"}
SignInErrors == {401}
SignInErrorResponse == CasesElse({}, 401)
SignInResponses == {200, 400, 401}
SignInHandler ==
    Handler(SignInRequest, 200, {}, SignInErrors, SignInErrorResponse,
            SignInResponses)

RefreshTokenRequest == {}
RefreshErrors == {401}
RefreshTokenErrorResponse == CasesElse({}, 401)
RefreshTokenResponses == {200, 401}
RefreshTokenHandler ==
    Handler(RefreshTokenRequest, 200, {401}, RefreshErrors,
            RefreshTokenErrorResponse, RefreshTokenResponses)

SignOutAllDevicesRequest == {}
SignOutAllDevicesErrors == {401}
SignOutAllDevicesErrorResponse == CasesElse({}, 401)
SignOutAllDevicesResponses == {204, 401}
SignOutAllDevicesHandler ==
    Handler(SignOutAllDevicesRequest, 204, {}, SignOutAllDevicesErrors,
            SignOutAllDevicesErrorResponse, SignOutAllDevicesResponses)

ChangePasswordRequest == {"parameters", "body"}
ChangePasswordErrors == {400, 401, 403, 404}
ChangePasswordErrorResponse == CasesElse({401, 403, 404}, 400)
ChangePasswordResponses == {204, 400, 401, 403, 404}
ChangePasswordHandler ==
    Handler(ChangePasswordRequest, 204, {}, ChangePasswordErrors,
            ChangePasswordErrorResponse, ChangePasswordResponses)

UpdateFullNameRequest == {"parameters", "body"}
UpdateFullNameErrors == {400, 403, 404}
UpdateFullNameErrorResponse == CasesElse({403, 404}, 400)
UpdateFullNameResponses == {204, 400, 401, 403, 404}
UpdateFullNameHandler ==
    Handler(UpdateFullNameRequest, 204, {}, UpdateFullNameErrors,
            UpdateFullNameErrorResponse, UpdateFullNameResponses)

UpdateUserStatusRequest == {"parameters", "body"}
UpdateStatusErrors == {400, 403, 404}
UpdateUserStatusErrorResponse == CasesElse({403, 404}, 400)
UpdateUserStatusResponses == {204, 400, 401, 403, 404}
UpdateUserStatusHandler ==
    Handler(UpdateUserStatusRequest, 204, {}, UpdateStatusErrors,
            UpdateUserStatusErrorResponse, UpdateUserStatusResponses)

UpdateUserRoleRequest == {"parameters", "body"}
UpdateRoleErrors == {400, 403, 404}
UpdateUserRoleErrorResponse == CasesElse({403, 404}, 400)
UpdateUserRoleResponses == {204, 400, 401, 403, 404}
UpdateUserRoleHandler ==
    Handler(UpdateUserRoleRequest, 204, {}, UpdateRoleErrors,
            UpdateUserRoleErrorResponse, UpdateUserRoleResponses)
-----------------------------------------------------------------------------
(* The table of operations *)

AuthOperations ==
    [SignUp |-> SignUpHandler,
     CreateSuperadmin |-> CreateSuperadminHandler,
     SignIn |-> SignInHandler,
     RefreshToken |-> RefreshTokenHandler,
     SignOutAllDevices |-> SignOutAllDevicesHandler,
     ChangePassword |-> ChangePasswordHandler,
     UpdateFullName |-> UpdateFullNameHandler,
     UpdateUserStatus |-> UpdateUserStatusHandler,
     UpdateUserRole |-> UpdateUserRoleHandler]

\* The routes without requireIdentity.
AuthPublic == {"CreateSuperadmin", "SignUp", "SignIn", "RefreshToken"}
=============================================================================
