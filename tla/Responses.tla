----------------------------- MODULE Responses ------------------------------
(***************************************************************************)
(* What a client is answered: the codes the handlers give (pkg/code), the  *)
(* HTTP status each is registered with, and the routes with the codes the  *)
(* handler of a route may give.                                            *)
(***************************************************************************)
EXTENDS Naturals

Codes ==
    {"ErrSuccess", "ErrUnknown", "ErrBind", "ErrValidation",
     "ErrTokenInvalid", "ErrHttpHeaderInvalid", "ErrDatabase", "ErrEncrypt",
     "ErrSignatureInvalid", "ErrExpired", "ErrInvalidAuthHeader",
     "ErrMissingHeader", "ErrPasswordIncorrect", "ErrPermissionDenied",
     "ErrTokenGenerationFailed", "ErrEncodingFailed", "ErrDecodingFailed",
     "ErrInvalidJSON", "ErrEncodingJSON", "ErrDecodingJSON",
     "ErrInvalidYaml", "ErrEncodingYaml", "ErrDecodingYaml"}

\* Slip: registered with its code where its status belongs.
RegisteredByCode == [c \in Codes |-> IF c = "ErrSuccess" THEN 200 ELSE 100001]

\* register() of every code, by status.
Registered ==
    [c \in Codes |->
        CASE c = "ErrSuccess" -> 200
          [] c \in {"ErrBind", "ErrValidation", "ErrHttpHeaderInvalid"} -> 400
          [] c \in {"ErrTokenInvalid", "ErrEncrypt", "ErrSignatureInvalid",
                    "ErrExpired", "ErrInvalidAuthHeader", "ErrMissingHeader",
                    "ErrPasswordIncorrect"} -> 401
          [] c = "ErrPermissionDenied" -> 403
          [] OTHER -> 500]

\* An unknown code is an internal error.
ParseCoder(c) == IF c \in DOMAIN Registered THEN Registered[c] ELSE 500

\* Only the answer to a success carries nothing but data.
WriteResponse(c) == [status |-> ParseCoder(c),
                     coded |-> ParseCoder(c) # 200]

\* The codes the handler of a route gives besides ErrSuccess.  No route is
\* behind the JWT middleware.
Routes ==
    [r \in {"GET /ping", "GET /p_ping", "GET /user/verificationcode/:phone",
            "POST /user/login", "GET /shop_type", "GET /shop/:id",
            "DELETE /shop/:id", "POST /shop/create", "POST /shop/update",
            "POST /voucher/create", "POST /voucher/seckill"} |->
        CASE r \in {"GET /ping", "GET /p_ping"} -> {}
          [] r = "POST /user/login" ->
                {"ErrBind", "ErrValidation", "ErrDatabase",
                 "ErrTokenGenerationFailed"}
          [] r = "GET /shop_type" -> {"ErrDatabase"}
          [] r \in {"GET /user/verificationcode/:phone", "GET /shop/:id",
                    "DELETE /shop/:id"} -> {"ErrValidation", "ErrDatabase"}
          [] r \in {"POST /shop/create", "POST /shop/update",
                    "POST /voucher/create"} -> {"ErrBind", "ErrDatabase"}
          [] r = "POST /voucher/seckill" ->
                {"ErrBind", "ErrValidation", "ErrDatabase"}]

Login == "POST /user/login"
=============================================================================
