---------------------------- MODULE AuthorizeStack ----------------------------
(***************************************************************************)
(* Requests that go through a stack of HTTP layers (src/axum.rs): the      *)
(* crate's JWT and authorization layers, the application's own, a limit of *)
(* concurrent requests, and the handler at the bottom with its extractor.  *)
(* A request carries a header and the extensions that layers write; a      *)
(* layer answers, or awaits the readiness of the next one and calls it.    *)
(* An engine is what it decides: the set of what is granted, which others  *)
(* change while requests wait.                                             *)
(***************************************************************************)
EXTENDS Naturals, Sequences, FiniteSets, FiniteSetsExt

CONSTANTS
  Requests,
  TenantSubjects, PlatformSubjects, NoOne,   \* AuthSubject, PlatformSubject, None
  Permissions,
  ClaimTypes,        \* the types C of JwtAuth<C>; AuthContext extracts the default
  Tokens, SigningKey, ClaimedSubject,        \* what a token says, per claims type
  Undecodable, BadId,                        \* claims of another shape, of bad ids
  Expiring,          \* the tokens whose exp may pass
  Absent, NotBearer,                         \* headers that hold no token
  Stacks,            \* sequences of layers, the outermost first
  InitialGrants, EditablePairs,
  MaxEdits           \* bound on the edits of what is granted

Subjects == TenantSubjects \cup PlatformSubjects
Headers == Tokens \cup {Absent, NotBearer}

(* The key under which an extension lies is its type; JwtAuth<C> lies at C. *)
TenantContexts == {"AuthContext", "AuthSubject"}
PlatformContexts == {"PlatformAuthContext", "PlatformSubject"}
ExtensionTypes == TenantContexts \cup PlatformContexts \cup ClaimTypes

JwtAuthLayer(state) == [kind |-> "jwt", state |-> state]
TenantAuthorizeLayer(permission) == [kind |-> "tenant", permission |-> permission]
PlatformAuthorizeLayer(permission) == [kind |-> "platform", permission |-> permission]
InsertLayer(what, subject) == [kind |-> "insert", what |-> what, subject |-> subject]
LimitLayer(permits) == [kind |-> "limit", permits |-> permits]
Handler(extractor, state) == [kind |-> "handler", extractor |-> extractor, state |-> state]

JwtAuthState(claims, key) == [claims |-> claims, key |-> key]
JwtStates == [claims : ClaimTypes, key : {SigningKey[t] : t \in Tokens}]
Layers ==
  [kind : {"jwt"}, state : JwtStates]
  \cup [kind : {"tenant", "platform"}, permission : Permissions]
  \cup [kind : {"insert"}, what : TenantContexts, subject : TenantSubjects]
  \cup [kind : {"insert"}, what : PlatformContexts, subject : PlatformSubjects]
  \cup [kind : {"limit"}, permits : Nat \ {0}]
  \cup [kind : {"handler"}, extractor : {"JwtAuth", "AuthSubject", "none"}, state : JwtStates]

ASSUME RequestsAssumption == IsFiniteSet(Requests)
ASSUME EditsAssumption == MaxEdits \in Nat
ASSUME NoOneAssumption == NoOne \notin Subjects
(* AuthSubject and PlatformSubject are different types.                     *)
ASSUME SubjectsAssumption == TenantSubjects \cap PlatformSubjects = {}
ASSUME TypesAssumption == ClaimTypes \cap (TenantContexts \cup PlatformContexts) = {}
ASSUME TokensAssumption ==
  /\ Tokens \cap {Absent, NotBearer} = {}
  /\ ClaimedSubject \in [Tokens -> [ClaimTypes -> TenantSubjects \cup {Undecodable, BadId}]]
  /\ {Undecodable, BadId} \cap TenantSubjects = {}
  /\ Expiring \subseteq Tokens
(* A stack ends in its only handler; no limit wraps another directly.       *)
ASSUME StacksAssumption ==
  \A s \in Stacks :
    /\ s \in Seq(Layers) /\ s # << >>
    /\ \A i \in 1 .. Len(s) : s[i].kind = "handler" <=> i = Len(s)
    /\ \A i \in 1 .. Len(s) - 1 : s[i].kind = "limit" => s[i + 1].kind # "limit"
ASSUME GrantsAssumption ==
  InitialGrants \subseteq SUBSET (Subjects \X Permissions)
  /\ EditablePairs \subseteq Subjects \X Permissions

VARIABLES
  stack,     \* the application's layers
  granted,   \* what the engines allow at this moment
  expired,   \* the tokens past their exp
  edits,
  req        \* per request: where it is and what it carries
vars == <<stack, granted, expired, edits, req>>

Stages == {"idle", "waiting", "called", "deciding", "handling", "answered"}
AuthErrors == {"MissingAuthorization", "InvalidAuthorization", "InvalidToken", "InvalidId"}
NoAnswer == "none"
Answers == {"ok", "unauthenticated", "forbidden", "auth_error", "inner_error",
            "missing_extension", "dropped"} \cup AuthErrors

(* asked, ever and always are history: the tenant's subjects that layers    *)
(* have authorized, and what was granted at some moment, and at every       *)
(* moment, since the request came.                                          *)
RequestType ==
  [stage : Stages, at : Nat, header : Headers,
   ext : [ExtensionTypes -> Subjects \cup {NoOne}], seen : Subjects \cup {NoOne},
   holds : SUBSET Nat, answer : Answers \cup {NoAnswer}, asked : SUBSET TenantSubjects,
   ever : SUBSET (Subjects \X Permissions), always : SUBSET (Subjects \X Permissions)]

TypeOK ==
  /\ stack \in Stacks
  /\ granted \subseteq Subjects \X Permissions
  /\ expired \subseteq Expiring
  /\ edits \in 0 .. MaxEdits
  /\ req \in [Requests -> RequestType]
  /\ \A r \in Requests :
       /\ req[r].at \in 0 .. Len(stack)
       /\ req[r].stage \in {"called", "deciding", "handling"} => req[r].at > 0
       /\ req[r].stage = "waiting" => req[r].at < Len(stack)
       /\ req[r].stage = "answered" <=> req[r].answer # NoAnswer

NoExtensions == [t \in ExtensionTypes |-> NoOne]
Idle ==
  [stage |-> "idle", at |-> 0, header |-> Absent, ext |-> NoExtensions, seen |-> NoOne,
   holds |-> {}, answer |-> NoAnswer, asked |-> {}, ever |-> {}, always |-> {}]

Init ==
  /\ stack \in Stacks
  /\ granted \in InitialGrants
  /\ expired = {} /\ edits = 0
  /\ req = [r \in Requests |-> Idle]

-------------------------------------------------------------------------------
(* What a layer computes.                                                   *)

Verified(header, state) ==
  /\ header \in Tokens
  /\ SigningKey[header] = state.key
  /\ ClaimedSubject[header][state.claims] \in TenantSubjects

(* Variant: the claimed ids are taken as they are.                          *)
DecodeError_ids_unchecked(header, state) ==
  IF Verified(header, state) /\ header \notin expired THEN NoAnswer
  ELSE IF header \in Tokens /\ ClaimedSubject[header][state.claims] = BadId
  THEN NoAnswer ELSE "InvalidToken"

(* decode_from_headers and from_claims: the first of the checks that fails. *)
DecodeError(header, state) ==
  IF header = Absent THEN "MissingAuthorization"
  ELSE IF header = NotBearer THEN "InvalidAuthorization"
  ELSE IF \/ SigningKey[header] # state.key \/ header \in expired
          \/ ClaimedSubject[header][state.claims] = Undecodable THEN "InvalidToken"
  ELSE IF ClaimedSubject[header][state.claims] = BadId THEN "InvalidId" ELSE NoAnswer

Decoded(header, state) == ClaimedSubject[header][state.claims]

Authenticated(ext, claims, subject) ==
  [ext EXCEPT !["AuthSubject"] = subject, !["AuthContext"] = subject, ![claims] = subject]

ContextOf(kind) == IF kind = "tenant" THEN "AuthContext" ELSE "PlatformAuthContext"
SubjectOf(kind) == IF kind = "tenant" THEN "AuthSubject" ELSE "PlatformSubject"

(* Variant: a bare subject is taken before a context.                       *)
SubjectFor_subject_first(kind, ext) ==
  IF ext[SubjectOf(kind)] # NoOne THEN ext[SubjectOf(kind)] ELSE ext[ContextOf(kind)]

SubjectFor(kind, ext) ==
  IF ext[ContextOf(kind)] # NoOne THEN ext[ContextOf(kind)] ELSE ext[SubjectOf(kind)]

-------------------------------------------------------------------------------
(* The steps of a request.                                                  *)

Layer(r) == stack[req[r].at]
Called(r, kinds) == req[r].stage = "called" /\ Layer(r).kind \in kinds

Step(r, after) ==
  /\ req' = [req EXCEPT ![r] = after]
  /\ UNCHANGED <<stack, granted, expired, edits>>

(* The response; with it go the request and the permits its futures hold.   *)
Answer(r, a) == Step(r, [Idle EXCEPT !.stage = "answered", !.answer = a])

(* The layer awaits the readiness of the clone it will call.                *)
CallInner(r, ext) == Step(r, [req[r] EXCEPT !.stage = "waiting", !.ext = ext])

Arrive(r, header) ==
  /\ req[r].stage = "idle"
  /\ Step(r, [Idle EXCEPT !.stage = "waiting", !.header = header,
                          !.ever = granted, !.always = granted])

Holders(i) == {r \in Requests : i \in req[r].holds}

(* Variant: the next layer is called without being asked for readiness.     *)
BecomesReady_unasked(r) ==
  /\ req[r].stage = "waiting"
  /\ Step(r, [req[r] EXCEPT !.stage = "called", !.at = @ + 1])

(* The layers of this crate are always ready; a limit when a permit is      *)
(* free, which the caller then holds. The inner service is called at once.  *)
BecomesReady(r) ==
  LET next == req[r].at + 1 IN
  /\ req[r].stage = "waiting"
  /\ stack[next].kind = "limit" => Cardinality(Holders(next)) < stack[next].permits
  /\ Step(r, [req[r] EXCEPT !.stage = "called", !.at = next,
                !.holds = IF stack[next].kind = "limit" THEN @ \cup {next} ELSE @])

ReadinessFails(r) ==
  /\ req[r].stage = "waiting" /\ stack[req[r].at + 1].kind = "limit"
  /\ Answer(r, "inner_error")

Authenticate(r) ==
  LET state == Layer(r).state
      error == DecodeError(req[r].header, state)
  IN  /\ Called(r, {"jwt"})
      /\ IF error = NoAnswer
         THEN CallInner(r, Authenticated(req[r].ext, state.claims,
                                         Decoded(req[r].header, state)))
         ELSE Answer(r, error)

(* Variant: a request without a subject is left to the layers below.        *)
Authorize_anonymous(r) ==
  /\ Called(r, {"tenant", "platform"})
  /\ IF SubjectFor(Layer(r).kind, req[r].ext) = NoOne
     THEN CallInner(r, req[r].ext)
     ELSE Step(r, [req[r] EXCEPT !.stage = "deciding"])

Authorize(r) ==
  /\ Called(r, {"tenant", "platform"})
  /\ IF SubjectFor(Layer(r).kind, req[r].ext) = NoOne
     THEN Answer(r, "unauthenticated")
     ELSE Step(r, [req[r] EXCEPT !.stage = "deciding"])

Asked(r) == <<SubjectFor(Layer(r).kind, req[r].ext), Layer(r).permission>>

Decide(r) ==
  /\ req[r].stage = "deciding"
  /\ IF Asked(r) \in granted
     THEN Step(r, [req[r] EXCEPT !.stage = "waiting",
                     !.asked = @ \cup ({Asked(r)[1]} \cap TenantSubjects)])
     ELSE Answer(r, "forbidden")

(* Variants: a failing engine denies; a failing engine is asked again.      *)
EngineFails_denies(r) == req[r].stage = "deciding" /\ Answer(r, "forbidden")
EngineFails_retried(r) ==
  req[r].stage = "deciding" /\ Step(r, [req[r] EXCEPT !.stage = "called"])

EngineFails(r) == req[r].stage = "deciding" /\ Answer(r, "auth_error")

Insert(r) ==
  /\ Called(r, {"insert"})
  /\ CallInner(r, [req[r].ext EXCEPT ![Layer(r).what] = Layer(r).subject])

(* It has asked the next layer for readiness when it was asked itself.      *)
PassLimit(r) == Called(r, {"limit"}) /\ Step(r, [req[r] EXCEPT !.at = @ + 1])

Handle(r, ext, subject) ==
  Step(r, [req[r] EXCEPT !.stage = "handling", !.ext = ext, !.seen = subject])

Extracts(r, extractors) == Called(r, {"handler"}) /\ Layer(r).extractor \in extractors

ExtractNothing(r) == Extracts(r, {"none"}) /\ Handle(r, req[r].ext, NoOne)

ExtractSubject(r) ==
  /\ Extracts(r, {"AuthSubject"})
  /\ IF req[r].ext["AuthSubject"] = NoOne
     THEN Answer(r, "missing_extension")
     ELSE Handle(r, req[r].ext, req[r].ext["AuthSubject"])

(* Variant: the token is decoded again.                                     *)
FromRequestParts_again(r) ==
  LET state == Layer(r).state
      error == DecodeError(req[r].header, state)
  IN  /\ Extracts(r, {"JwtAuth"})
      /\ IF error = NoAnswer
         THEN Handle(r, req[r].ext, Decoded(req[r].header, state))
         ELSE Answer(r, error)

(* The extractors JwtAuth<C> and, with the default claims, AuthContext.     *)
FromRequestParts(r) ==
  LET state == Layer(r).state
      existing == req[r].ext[state.claims]
      error == DecodeError(req[r].header, state)
      subject == Decoded(req[r].header, state)
  IN  /\ Extracts(r, {"JwtAuth"})
      /\ IF existing # NoOne THEN Handle(r, req[r].ext, existing)
         ELSE IF error = NoAnswer
         THEN Handle(r, Authenticated(req[r].ext, state.claims, subject), subject)
         ELSE Answer(r, error)

HandlerEnds(r) == req[r].stage = "handling" /\ Answer(r, "ok")

(* The client goes away at an await.                                        *)
Dropped(r) ==
  req[r].stage \in {"waiting", "deciding", "handling"} /\ Answer(r, "dropped")

-------------------------------------------------------------------------------
(* What others do meanwhile.                                                *)

Active(r) == req[r].stage \notin {"idle", "answered"}

Edit(pair) ==
  LET edited == IF pair \in granted THEN granted \ {pair} ELSE granted \cup {pair} IN
  /\ edits < MaxEdits /\ edits' = edits + 1
  /\ granted' = edited
  /\ req' = [r \in Requests |->
       IF Active(r)
       THEN [req[r] EXCEPT !.ever = @ \cup edited, !.always = @ \cap edited]
       ELSE req[r]]
  /\ UNCHANGED <<stack, expired>>

Expire(token) ==
  /\ token \notin expired /\ expired' = expired \cup {token}
  /\ UNCHANGED <<stack, granted, edits, req>>

Progress(r) ==
  \/ Authenticate(r) \/ Authorize(r) \/ Decide(r) \/ EngineFails(r) \/ Insert(r)
  \/ PassLimit(r) \/ ExtractNothing(r) \/ ExtractSubject(r) \/ FromRequestParts(r)
  \/ HandlerEnds(r)

Next ==
  \/ \E r \in Requests, h \in Headers : Arrive(r, h)
  \/ \E r \in Requests : Progress(r) \/ BecomesReady(r) \/ ReadinessFails(r) \/ Dropped(r)
  \/ \E pair \in EditablePairs : Edit(pair)
  \/ \E token \in Expiring : Expire(token)

Spec == Init /\ [][Next]_vars

(* A task is polled until it is done, engines and handlers answer, and the  *)
(* permits of a limit go to those who wait for them in their order.         *)
FairSpec ==
  Spec /\ \A r \in Requests : WF_vars(Progress(r)) /\ SF_vars(BecomesReady(r))

-------------------------------------------------------------------------------
(* Whom a layer should take the request to come from, by the layers above   *)
(* it: what the lowest of them that writes a context says.                  *)

Writers(i, what) ==
  {j \in 1 .. i - 1 : \/ stack[j].kind = "jwt" /\ what \in TenantContexts
                      \/ stack[j].kind = "insert" /\ stack[j].what = what}
Written(j, header) ==
  IF stack[j].kind = "jwt" THEN Decoded(header, stack[j].state) ELSE stack[j].subject
LastWritten(i, what, header) ==
  IF Writers(i, what) = {} THEN NoOne
  ELSE Written(Max(Writers(i, what)), header)

Identity(i, header) ==
  LET context == ContextOf(stack[i].kind)
  IN  IF Writers(i, context) # {} THEN LastWritten(i, context, header)
      ELSE LastWritten(i, SubjectOf(stack[i].kind), header)

Of(kinds) == {i \in 1 .. Len(stack) : stack[i].kind \in kinds}
Authorizing == Of({"tenant", "platform"})
Bottom == stack[Len(stack)]

(* One source says who the tenant's subject is, and the handler asks it:    *)
(* the context of the token, read as the extractor's claims above whatever  *)
(* authorizes, or the only layer that writes a subject at all.              *)
OneSource ==
  \/ /\ Bottom.extractor = "JwtAuth"
     /\ \A i \in Of({"tenant"}) : \E j \in Of({"jwt"}) : j < i
     /\ \A j \in Of({"jwt"}) : stack[j].state.claims = Bottom.state.claims
     /\ \A j \in Of({"insert"}) : stack[j].what # "AuthContext"
  \/ /\ Bottom.extractor = "AuthSubject"
     /\ \A j, k \in Of({"jwt", "insert"}) :
          (stack[j].kind = "insert" /\ stack[j].what \in PlatformContexts) \/ j = k
     /\ \A j \in Of({"insert"}) : stack[j].what # "AuthContext"

-------------------------------------------------------------------------------
(* Properties.                                                              *)

(* The handler runs only for a request that every JWT layer has verified    *)
(* and that every authorization layer was right to pass: what it protects   *)
(* was granted, at some moment since the request came, to the subject the   *)
(* layers above it say the request is from. No decision for another subject,*)
(* another request or another time is used, whatever is edited meanwhile.   *)
ServedIfGranted ==
  \A r \in Requests : req[r].stage = "handling" =>
    /\ \A i \in Authorizing :
         <<Identity(i, req[r].header), stack[i].permission>> \in req[r].ever
    /\ \A j \in Of({"jwt"}) : Verified(req[r].header, stack[j].state)

Responds(r, answers) == Active(r) /\ req'[r].answer \in answers

(* The status tells the truth (docs/06-axum-integration.md): 403 only of a  *)
(* subject that did lack the permission at some moment, never of a failing  *)
(* source; 401 only of a request without an identity or with a token that   *)
(* does not verify or has expired.                                          *)
StatusTellsWhy ==
  [][\A r \in Requests :
       /\ Responds(r, {"forbidden"}) =>
            \E i \in Authorizing :
              /\ Identity(i, req[r].header) \in Subjects
              /\ <<Identity(i, req[r].header), stack[i].permission>> \notin req[r].always
       /\ Responds(r, {"unauthenticated"}) =>
            \E i \in Authorizing : Identity(i, req[r].header) = NoOne
       /\ Responds(r, AuthErrors) =>
            \/ req[r].header \in expired
            \/ \E j \in Of({"jwt", "handler"}) : ~ Verified(req[r].header, stack[j].state)
    ]_vars

(* With one source of identity the handler sees the very subject whom each  *)
(* tenant layer has asked the engine about, a subject that the application  *)
(* puts in beside the token's context notwithstanding.                      *)
SeesAuthorized ==
  \A r \in Requests : req[r].stage = "handling" /\ OneSource =>
    req[r].asked \subseteq {req[r].seen}

(* Who has passed a JWT layer is not turned away by an extractor of the     *)
(* same claims, although the token may expire while a decision or a permit  *)
(* is awaited.                                                              *)
AuthenticatedStaysSo ==
  [][\A r \in Requests : Responds(r, AuthErrors) /\ req[r].at = Len(stack) =>
       \A j \in Of({"jwt"}) : stack[j].state.claims # Bottom.state.claims]_vars

(* No more requests are below a limit than it has permits: each service     *)
(* calls the clone that it awaited the readiness of.                        *)
WithinLimit ==
  \A i \in Of({"limit"}) :
    Cardinality({r \in Requests : Active(r) /\ req[r].at >= i}) <= stack[i].permits

(* Every request is answered or dropped.                                    *)
RequestsEnd == \A r \in Requests : Active(r) ~> req[r].stage = "answered"
===============================================================================
