--------------------------- MODULE Authentication ---------------------------
(***************************************************************************)
(* A login that is authenticated: routes/router/authMiddleware.go around   *)
(* login/platformlogin.go, as router/game.go and cmd/root.go choose it.    *)
(*                                                                         *)
(* AuthMiddleware forwards the login to the official server, then asks it  *)
(* for the user's items, then lets Platformlogin (next) answer, and at     *)
(* last, deferred, logs out there.  doRequest answers the client itself    *)
(* when a request goes wrong: with the cached authentication, if there is  *)
(* one, which means with next, or with an error.  An answer that carries   *)
(* an error code is written through as it is; doRequest then counts as     *)
(* successful, the handler goes on, and panics where it takes that answer  *)
(* apart; what is deferred is done all the same.                           *)
(*                                                                         *)
(* Without connectivity, which is looked at when the server starts, there  *)
(* is only the cached authentication.  One user, whose logins follow one   *)
(* another; what a login does to the sessions is their number.             *)
(***************************************************************************)
EXTENDS Naturals

CONSTANTS
  AuthModes,   \* of "required", "cached" and "offline" (cached without connectivity)
  Validity,    \* authCacheValidity, in ticks
  MaxTime,     \* how far the clock goes
  MaxLogins    \* how many logins there are

ASSUME AuthAssumption == Validity \in Nat /\ MaxTime \in Nat \ {0} /\ MaxLogins \in Nat

VARIABLES
  mode,        \* internal.Authentication and internal.Connectivity
  now,         \* the clock
  deadline,    \* the user's auth value, 0 for none
  logins,      \* the requests so far
  authStep,    \* where the present one is, "none" without
  begun,       \* when it arrived: r.Context()'s time
  answers,     \* how many answers were written to it
  served,      \* history: whether the login was let through in it
  accepted,    \* history: whether the official server accepted it
  wrong,       \* history: whether the logout at the official server went wrong
  heardAt,     \* history: when the official server last answered a login, 0 never
  itemsAsked   \* history: whether the items were replaced by the official ones

authVars == <<mode, now, deadline, logins, authStep, begun, answers, served, accepted,
              wrong, heardAt, itemsAsked>>
clockVars == <<mode, now>>

AuthInit ==
  /\ mode \in AuthModes
  /\ now = 1 /\ deadline = 0 /\ logins = 0
  /\ authStep = "none" /\ begun = 1 /\ answers = 0
  /\ served = FALSE /\ accepted = FALSE /\ wrong = FALSE
  /\ heardAt = 0 /\ itemsAsked = FALSE

Tick == now < MaxTime /\ now' = now + 1

AuthTick ==
  /\ Tick
  /\ UNCHANGED <<mode, deadline, logins, authStep, begun, answers, served, accepted, wrong,
                 heardAt, itemsAsked>>

\* A mutant of Valid: any deadline there is.
EverValid == deadline # 0

\* The check of AuthMiddlewareOffline.
Valid == deadline # 0 /\ deadline > begun

\* An answer by next, and one with an error.
LetThrough == answers' = answers + 1 /\ served' = TRUE
LoginError == answers' = answers + 1 /\ UNCHANGED served

OfflineAnswer == IF Valid THEN LetThrough ELSE LoginError

\* errorHandler.
ErrorHandler == IF mode = "cached" THEN OfflineAnswer ELSE LoginError

Arrive ==
  /\ authStep = "none" /\ logins < MaxLogins
  /\ logins' = logins + 1
  /\ authStep' = IF mode = "offline" THEN "offline" ELSE "login"
  /\ begun' = now /\ answers' = 0
  /\ served' = FALSE /\ accepted' = FALSE /\ wrong' = FALSE /\ itemsAsked' = FALSE
  /\ UNCHANGED <<clockVars, deadline, heardAt>>

AuthenticateOffline ==
  /\ authStep = "offline" /\ OfflineAnswer
  /\ authStep' = "done"
  /\ UNCHANGED <<clockVars, deadline, logins, begun, accepted, wrong, heardAt, itemsAsked>>

\* The login goes wrong: no answer in time, none that can be read, or another status.
UpstreamLoginFails ==
  /\ authStep = "login" /\ ErrorHandler
  /\ authStep' = "done"
  /\ UNCHANGED <<clockVars, deadline, logins, begun, accepted, wrong, heardAt, itemsAsked>>

\* It is answered, with an error code or without: the deadline is the same.
UpstreamLoginAnswers(code) ==
  /\ authStep = "login"
  /\ IF code THEN LoginError ELSE UNCHANGED <<answers, served>>
  /\ deadline' = IF mode = "cached" THEN begun + Validity ELSE deadline
  /\ heardAt' = begun /\ accepted' = ~code
  /\ authStep' = IF code THEN "logout" ELSE "items"
  /\ UNCHANGED <<clockVars, logins, begun, wrong, itemsAsked>>

UpstreamItemsFail ==
  /\ authStep = "items" /\ ErrorHandler
  /\ authStep' = "logout"
  /\ UNCHANGED <<clockVars, deadline, logins, begun, accepted, wrong, heardAt, itemsAsked>>

\* A mutant of UpstreamItemsAnswer: the answer with a code is not written through.
UpstreamItemsUnwritten(code) ==
  /\ authStep = "items"
  /\ IF code THEN UNCHANGED <<answers, served>> ELSE LetThrough
  /\ itemsAsked' = ~code
  /\ authStep' = "logout"
  /\ UNCHANGED <<clockVars, deadline, logins, begun, accepted, wrong, heardAt>>

UpstreamItemsAnswer(code) ==
  /\ authStep = "items"
  /\ IF code THEN LoginError ELSE LetThrough
  /\ itemsAsked' = ~code
  /\ authStep' = "logout"
  /\ UNCHANGED <<clockVars, deadline, logins, begun, accepted, wrong, heardAt>>

\* The deferred logout: if it goes wrong, its answer is added to the one there is.
UpstreamLogout(outcome) ==
  /\ authStep = "logout"
  /\ CASE outcome = "success" -> UNCHANGED <<answers, served>>
       [] outcome = "code" -> LoginError
       [] outcome = "fails" -> ErrorHandler
  /\ wrong' = (outcome # "success")
  /\ authStep' = "done"
  /\ UNCHANGED <<clockVars, deadline, logins, begun, accepted, heardAt, itemsAsked>>

AuthDone ==
  /\ authStep = "done" /\ authStep' = "none"
  /\ UNCHANGED <<clockVars, deadline, logins, begun, answers, served, accepted, wrong,
                 heardAt, itemsAsked>>

AuthNext ==
  \/ AuthTick \/ Arrive \/ AuthenticateOffline \/ UpstreamLoginFails \/ UpstreamItemsFail
  \/ \E code \in BOOLEAN : UpstreamLoginAnswers(code) \/ UpstreamItemsAnswer(code)
  \/ \E outcome \in {"success", "code", "fails"} : UpstreamLogout(outcome)
  \/ AuthDone

AuthSpec == AuthInit /\ [][AuthNext]_authVars

------------------------------------------------------------------------------
(* Properties *)

AuthTypeOK ==
  /\ mode \in AuthModes
  /\ now \in 1 .. MaxTime /\ begun \in 1 .. MaxTime /\ heardAt \in 0 .. MaxTime
  /\ deadline \in 0 .. MaxTime + Validity
  /\ logins \in 0 .. MaxLogins
  /\ authStep \in {"none", "offline", "login", "items", "logout", "done"}
  /\ answers \in 0 .. 2
  /\ served \in BOOLEAN /\ accepted \in BOOLEAN
  /\ wrong \in BOOLEAN /\ itemsAsked \in BOOLEAN

\* A login is let through only if the official server accepted it, or, with the cached
\* authentication, answered a login of the user at all less than the validity before, be it
\* with an error code (AuthMiddleware, AuthMiddlewareOffline).
LetThroughIsKnown ==
  served => \/ accepted
            \/ mode # "required" /\ heardAt # 0 /\ begun < heardAt + Validity

\* A login gets an answer whatever went wrong at the official server, and exactly one unless
\* it was the deferred logout that did (doRequest, errorHandler).
AnsweredOnce ==
  authStep = "done" => answers = IF wrong THEN 2 ELSE 1

==============================================================================
