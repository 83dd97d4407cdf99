------------------------- MODULE AuthorizeStackProofs -------------------------
(***************************************************************************)
(* For any stacks, requests and grants: a request is served only by right  *)
(* of what was granted to whom the layers say it is from, no limit is      *)
(* exceeded, and who was authenticated stays so.                           *)
(***************************************************************************)
EXTENDS AuthorizeStack, SequenceLemmas, FiniteSetTheorems

Contexts == TenantContexts \cup PlatformContexts
IsActive(q) == q.stage \notin {"idle", "answered"}

(* What TypeOK says of one request.                                         *)
Placed(q) ==
  /\ q \in RequestType
  /\ q.at \in 0 .. Len(stack)
  /\ q.stage \in {"called", "deciding", "handling"} => q.at > 0
  /\ q.stage = "waiting" => q.at < Len(stack)
  /\ q.stage = "answered" <=> q.answer # NoAnswer

(* The layers whose work on a request is done, and that it is in order: the *)
(* extensions are what they wrote, and they were right to pass it on.       *)
Passed(q) == IF q.stage = "waiting" THEN q.at ELSE q.at - 1

PassedRightly(q, i) ==
  /\ stack[i].kind \in {"tenant", "platform"} =>
       <<Identity(i, q.header), stack[i].permission>> \in q.ever
  /\ stack[i].kind = "jwt" => Verified(q.header, stack[i].state)
  /\ stack[i].kind = "jwt" /\ q.stage # "handling" => q.ext[stack[i].state.claims] # NoOne

Good(q) ==
  IsActive(q) =>
    /\ granted \subseteq q.ever /\ q.always \subseteq granted
    /\ q.stage = "handling" => q.at = Len(stack)
    /\ q.stage = "deciding" =>
         /\ stack[q.at].kind \in {"tenant", "platform"}
         /\ SubjectFor(stack[q.at].kind, q.ext) # NoOne
    /\ \A i \in Of({"limit"}) : i <= q.at => i \in q.holds
    /\ \A i \in 1 .. Passed(q) : PassedRightly(q, i)
    /\ q.stage # "handling" =>
         \A what \in Contexts : q.ext[what] = LastWritten(Passed(q) + 1, what, q.header)

PermitsKept == \A i \in Of({"limit"}) : Cardinality(Holders(i)) <= stack[i].permits

Inv ==
  /\ TypeOK
  /\ \A r \in Requests : Good(req[r])
  /\ PermitsKept

-------------------------------------------------------------------------------
(* Stacks                                                                   *)

LEMMA LayerType ==
  ASSUME TypeOK, NEW i \in 1 .. Len(stack)
  PROVE  /\ stack[i] \in Layers /\ Len(stack) \in Nat \ {0}
         /\ stack[i].kind = "handler" <=> i = Len(stack)
         /\ stack[i].kind = "limit" /\ i < Len(stack) => stack[i + 1].kind # "limit"
<1>1. stack \in Stacks
  BY DEF TypeOK
<1>2. stack \in Seq(Layers) /\ stack # << >>
  BY <1>1, StacksAssumption
<1>3. stack[i] \in Layers
  BY <1>2
<1>4. Len(stack) \in Nat \ {0}
  BY <1>2
<1>5. stack[i].kind = "handler" <=> i = Len(stack)
  BY <1>1, StacksAssumption
<1>6. i < Len(stack) => i \in 1 .. Len(stack) - 1
  BY <1>4
<1>7. stack[i].kind = "limit" /\ i < Len(stack) => stack[i + 1].kind # "limit"
  BY <1>1, <1>6, StacksAssumption
<1> QED
  BY <1>3, <1>4, <1>5, <1>7

LEMMA LayerFields ==
  ASSUME NEW layer \in Layers
  PROVE  /\ layer.kind \in {"jwt", "tenant", "platform", "insert", "limit", "handler"}
         /\ layer.kind \in {"jwt", "handler"} => layer.state \in JwtStates
         /\ layer.kind \in {"tenant", "platform"} => layer.permission \in Permissions
         /\ layer.kind = "insert" =>
              \/ layer.what \in TenantContexts /\ layer.subject \in TenantSubjects
              \/ layer.what \in PlatformContexts /\ layer.subject \in PlatformSubjects
         /\ layer.kind = "limit" => layer.permits \in Nat
BY DEF Layers

LEMMA DecodeSucceeds ==
  ASSUME NEW header \in Headers, NEW state \in JwtStates,
         DecodeError(header, state) = NoAnswer
  PROVE  Verified(header, state) /\ Decoded(header, state) \in TenantSubjects
<1>1. header # Absent /\ header # NotBearer
  BY DEF DecodeError, NoAnswer
<1>2. header \in Tokens
  BY <1>1 DEF Headers
<1>3. /\ SigningKey[header] = state.key
      /\ ClaimedSubject[header][state.claims] \notin {Undecodable, BadId}
  BY <1>1 DEF DecodeError, NoAnswer
<1>4. state.claims \in ClaimTypes
  BY DEF JwtStates
<1>5. ClaimedSubject[header][state.claims] \in TenantSubjects \cup {Undecodable, BadId}
  BY <1>2, <1>4, TokensAssumption
<1> QED
  BY <1>2, <1>3, <1>5 DEF Verified, Decoded

Writes(k, what) ==
  \/ stack[k].kind = "jwt" /\ what \in TenantContexts
  \/ stack[k].kind = "insert" /\ stack[k].what = what

LEMMA LargestWriter ==
  ASSUME NEW i \in Nat, NEW what, Writers(i, what) # {}
  PROVE  Max(Writers(i, what)) \in Writers(i, what)
<1>1. Writers(i, what) \in SUBSET (1 .. i - 1)
  BY DEF Writers
<1>2. PICK gap \in {i - x : x \in Writers(i, what)} :
        \A y \in {i - x : x \in Writers(i, what)} : gap <= y
  <2>1. {i - x : x \in Writers(i, what)} \in SUBSET Nat /\ {i - x : x \in Writers(i, what)} # {}
    BY <1>1
  <2> QED
    BY <2>1, SmallestNat
<1>3. PICK j \in Writers(i, what) : gap = i - j
  BY <1>2
<1>4. \A k \in Writers(i, what) : i - j <= i - k
  BY <1>2, <1>3
<1>5. \A k \in Writers(i, what) : j >= k
  BY <1>1, <1>3, <1>4
<1> QED
  BY <1>5 DEF Max

(* One layer further, what was written last is what the layer writes.       *)
LEMMA LastWrittenNext ==
  ASSUME NEW k \in Nat, k >= 1, NEW what, NEW header
  PROVE  LastWritten(k + 1, what, header) =
           IF Writes(k, what) THEN Written(k, header) ELSE LastWritten(k, what, header)
<1>1. Writers(k + 1, what) = IF Writes(k, what) THEN Writers(k, what) \cup {k} ELSE Writers(k, what)
  BY DEF Writers, Writes
<1>2. CASE Writes(k, what)
  <2>1. \A j \in Writers(k + 1, what) : j <= k
    BY DEF Writers
  <2>2. k \in Writers(k + 1, what) /\ Writers(k + 1, what) \in SUBSET Nat
    BY <1>1, <1>2 DEF Writers
  <2>3. Max(Writers(k + 1, what)) = k
    <3>1. Max(Writers(k + 1, what)) \in Writers(k + 1, what)
      BY <2>2, LargestWriter
    <3>2. \A j \in Writers(k + 1, what) : k >= j
      BY <2>1, <2>2
    <3>3. \A j \in Writers(k + 1, what) : Max(Writers(k + 1, what)) >= j
      BY <2>2, <3>2 DEF Max
    <3> QED
      BY <2>1, <2>2, <3>1, <3>3
  <2> QED
    BY <1>2, <2>2, <2>3 DEF LastWritten
<1>3. CASE ~ Writes(k, what)
  <2>1. Writers(k + 1, what) = Writers(k, what)
    BY <1>1, <1>3
  <2> QED
    BY <1>3, <2>1 DEF LastWritten
<1> QED
  BY <1>2, <1>3

(* If the layers above were passed rightly, what they wrote is a subject.   *)
LEMMA LastWrittenSubject ==
  ASSUME TypeOK, NEW q, NEW k \in 1 .. Len(stack), NEW what \in Contexts,
         \A i \in 1 .. k - 1 : PassedRightly(q, i), Writers(k, what) # {}
  PROVE  LastWritten(k, what, q.header) \in Subjects
<1> DEFINE last == Max(Writers(k, what))
<1>1. last \in Writers(k, what)
  BY LargestWriter
<1>2. LastWritten(k, what, q.header) = Written(last, q.header)
  BY DEF LastWritten
<1> HIDE DEF last
<1>3. last \in 1 .. k - 1 /\ last \in 1 .. Len(stack) /\ stack[last].kind \in {"jwt", "insert"}
  BY <1>1, LayerType DEF Writers
<1>4. CASE stack[last].kind = "jwt"
  <2>1. Verified(q.header, stack[last].state)
    BY <1>3, <1>4 DEF PassedRightly
  <2> QED
    BY <1>2, <1>4, <2>1 DEF Verified, Written, Decoded, Subjects
<1>5. CASE stack[last].kind = "insert"
  <2>1. stack[last].subject \in Subjects
    BY <1>3, <1>5, LayerType, LayerFields DEF Subjects
  <2> QED
    BY <1>2, <1>5, <2>1 DEF Written
<1> QED
  BY <1>3, <1>4, <1>5

(* Whom a layer takes a request to come from is whom it should.             *)
LEMMA SubjectIsIdentity ==
  ASSUME Inv, NEW r \in Requests, req[r].stage \in {"called", "deciding"},
         stack[req[r].at].kind \in {"tenant", "platform"}
  PROVE  SubjectFor(stack[req[r].at].kind, req[r].ext) = Identity(req[r].at, req[r].header)
<1> DEFINE k == req[r].at
           context == ContextOf(stack[k].kind)
           subject == SubjectOf(stack[k].kind)
<1>1. TypeOK /\ Good(req[r]) /\ k \in 1 .. Len(stack)
  BY DEF Inv, TypeOK
<1>2. context \in Contexts /\ subject \in Contexts
  BY DEF ContextOf, SubjectOf, Contexts, TenantContexts, PlatformContexts
<1>3. Passed(req[r]) = k - 1 /\ IsActive(req[r]) /\ req[r].stage # "handling" /\ k - 1 + 1 = k
  BY <1>1 DEF Passed, IsActive
<1>4. \A what \in Contexts : req[r].ext[what] = LastWritten(k, what, req[r].header)
  BY <1>1, <1>3 DEF Good
<1>5. \A i \in 1 .. k - 1 : PassedRightly(req[r], i)
  BY <1>1, <1>3 DEF Good
<1>6. \A what \in Contexts :
        Writers(k, what) # {} <=> LastWritten(k, what, req[r].header) # NoOne
  <2> TAKE what \in Contexts
  <2>1. Writers(k, what) # {} => LastWritten(k, what, req[r].header) \in Subjects
    BY <1>1, <1>5, LastWrittenSubject
  <2>2. Writers(k, what) = {} => LastWritten(k, what, req[r].header) = NoOne
    BY DEF LastWritten
  <2> QED
    BY <2>1, <2>2, NoOneAssumption
<1> QED
  BY <1>2, <1>4, <1>6 DEF SubjectFor, Identity

-------------------------------------------------------------------------------
(* Steps of one request                                                     *)

LEMMA IdleType ==
  /\ NoExtensions \in [ExtensionTypes -> Subjects \cup {NoOne}]
  /\ Idle \in RequestType /\ Idle.holds = {} /\ Idle.stage = "idle" /\ Idle.at = 0
<1>1. NoExtensions \in [ExtensionTypes -> Subjects \cup {NoOne}]
  BY DEF NoExtensions
<1>2. Absent \in Headers
  BY DEF Headers
<1>3. Idle.stage \in Stages /\ Idle.answer \in Answers \cup {NoAnswer}
  BY DEF Idle, Stages
<1> QED
  BY <1>1, <1>2, <1>3 DEF Idle, RequestType

(* The stack does not change, so what its layers write does not either.     *)
LEMMA SameStack ==
  ASSUME UNCHANGED stack
  PROVE  /\ \A i, what, header : LastWritten(i, what, header)' = LastWritten(i, what, header)
         /\ \A i, header : Identity(i, header)' = Identity(i, header)
         /\ \A q, i : PassedRightly(q, i)' <=> PassedRightly(q, i)
         /\ \A kinds : Of(kinds)' = Of(kinds)
<1>1. \A i, what : Writers(i, what)' = Writers(i, what)
  BY DEF Writers
<1>2. \A j, header : Written(j, header)' = Written(j, header)
  BY DEF Written, Decoded
<1>3. \A i, what, header : LastWritten(i, what, header)' = LastWritten(i, what, header)
  BY <1>1, <1>2 DEF LastWritten
<1>4. \A i, header : Identity(i, header)' = Identity(i, header)
  BY <1>1, <1>3 DEF Identity
<1>5. \A q, i : PassedRightly(q, i)' <=> PassedRightly(q, i)
  BY <1>4 DEF PassedRightly
<1>6. \A kinds : Of(kinds)' = Of(kinds)
  BY DEF Of
<1> QED
  BY <1>3, <1>4, <1>5, <1>6

LEMMA StepInv ==
  ASSUME Inv, NEW r \in Requests, NEW after, Step(r, after), Placed(after), Good(after),
         after.holds \subseteq req[r].holds
  PROVE  Inv'
<1>1. /\ req \in [Requests -> RequestType]
      /\ req' = [req EXCEPT ![r] = after]
      /\ UNCHANGED <<stack, granted, expired, edits>>
  BY DEF Step, Inv, TypeOK
<1>2. after \in RequestType
  BY DEF Placed
<1>3. \A x \in Requests : req'[x] = IF x = r THEN after ELSE req[x]
  BY <1>1
<1>4. TypeOK'
  BY <1>1, <1>2, <1>3 DEF Inv, TypeOK, Placed
<1>5. \A x \in Requests : Good(req[x])'
  <2> TAKE x \in Requests
  <2>1. Good(req'[x])
    BY <1>3 DEF Inv
  <2> QED
    BY <1>1, <2>1, SameStack DEF Good
<1>6. PermitsKept'
  <2> SUFFICES ASSUME NEW i \in Of({"limit"}) PROVE Cardinality(Holders(i)') <= stack[i].permits
    BY <1>1 DEF PermitsKept, Of
  <2>1. Holders(i)' \subseteq Holders(i)
    BY <1>3 DEF Holders
  <2>2. IsFiniteSet(Holders(i))
    BY RequestsAssumption, FS_Subset DEF Holders
  <2>3. Cardinality(Holders(i)') <= Cardinality(Holders(i))
        /\ Cardinality(Holders(i)') \in Nat /\ Cardinality(Holders(i)) \in Nat
    BY <2>1, <2>2, FS_Subset, FS_CardinalityType
  <2>4. Cardinality(Holders(i)) <= stack[i].permits
    BY DEF Inv, PermitsKept
  <2>5. stack[i].permits \in Nat
    <3>1. i \in 1 .. Len(stack) /\ stack[i].kind = "limit"
      BY DEF Of
    <3> QED
      BY <3>1, LayerType, LayerFields DEF Inv
  <2> QED
    BY <2>3, <2>4, <2>5
<1> QED
  BY <1>4, <1>5, <1>6 DEF Inv

LEMMA AnswerInv ==
  ASSUME Inv, NEW r \in Requests, NEW a \in Answers, Answer(r, a)
  PROVE  Inv'
<1> DEFINE after == [Idle EXCEPT !.stage = "answered", !.answer = a]
<1>1. /\ after \in RequestType /\ after.stage = "answered" /\ after.answer = a
      /\ after.at = 0 /\ after.holds = {}
  BY IdleType DEF RequestType, Stages
<1>2. a # NoAnswer
  BY DEF Answers, AuthErrors, NoAnswer
<1>3. Len(stack) \in Nat
  BY StacksAssumption DEF Inv, TypeOK
<1>4. Placed(after)
  BY <1>1, <1>2, <1>3 DEF Placed
<1>5. Good(after)
  BY <1>1 DEF Good, IsActive
<1>6. Step(r, after)
  BY DEF Answer
<1> HIDE DEF after
<1> QED
  BY <1>1, <1>4, <1>5, <1>6, StepInv

(* A request that a layer has passed on and that waits for the next one.    *)
LEMMA PassOnInv ==
  ASSUME Inv, NEW r \in Requests, NEW after \in RequestType, Step(r, after),
         req[r].stage \in {"called", "deciding"}, req[r].at < Len(stack),
         after.stage = "waiting", after.at = req[r].at, after.header = req[r].header,
         after.ever = req[r].ever, after.always = req[r].always, after.holds = req[r].holds, after.answer = req[r].answer,
         \A i \in 1 .. req[r].at - 1 :
           stack[i].kind = "jwt" => after.ext[stack[i].state.claims] # NoOne,
         PassedRightly(after, req[r].at),
         \A what \in Contexts :
           after.ext[what] = LastWritten(req[r].at + 1, what, req[r].header)
  PROVE  Inv'
<1>1. TypeOK /\ Good(req[r]) /\ req[r] \in RequestType /\ Placed(req[r])
  BY DEF Inv, TypeOK, Placed
<1>2. /\ req[r].at \in 1 .. Len(stack) /\ Len(stack) \in Nat
      /\ IsActive(req[r]) /\ Passed(req[r]) = req[r].at - 1 /\ req[r].stage # "handling"
  BY <1>1, StacksAssumption DEF TypeOK, IsActive, Passed
<1>3. Placed(after)
  BY <1>1, <1>2 DEF Placed
<1>4. \A i \in 1 .. Passed(after) : PassedRightly(after, i)
  <2> SUFFICES ASSUME NEW i \in 1 .. req[r].at PROVE PassedRightly(after, i)
    BY DEF Passed
  <2>1. CASE i = req[r].at
    BY <2>1
  <2>2. CASE i # req[r].at
    <3>1. i \in 1 .. req[r].at - 1
      BY <1>2, <2>2
    <3>2. PassedRightly(req[r], i)
      BY <1>1, <1>2, <3>1 DEF Good
    <3> QED
      BY <3>1, <3>2 DEF PassedRightly
  <2> QED
    BY <2>1, <2>2
<1>5. Good(after)
  <2>1. granted \subseteq after.ever /\ after.always \subseteq granted /\ \A i \in Of({"limit"}) : i <= after.at => i \in after.holds
    BY <1>1, <1>2 DEF Good
  <2>2. \A what \in Contexts : after.ext[what] = LastWritten(Passed(after) + 1, what, after.header)
    BY DEF Passed
  <2> QED
    BY <2>1, <2>2, <1>4 DEF Good
<1> QED
  BY <1>3, <1>5, StepInv

LEMMA HandleInv ==
  ASSUME Inv, NEW r \in Requests, NEW ext \in [ExtensionTypes -> Subjects \cup {NoOne}],
         NEW subject \in Subjects \cup {NoOne},
         Called(r, {"handler"}), Handle(r, ext, subject)
  PROVE  Inv'
<1> DEFINE after == [req[r] EXCEPT !.stage = "handling", !.ext = ext, !.seen = subject]
<1>1. TypeOK /\ Good(req[r]) /\ req[r] \in RequestType /\ Placed(req[r])
  BY DEF Inv, TypeOK, Placed
<1>2. /\ after \in RequestType /\ after.stage = "handling" /\ after.at = req[r].at
      /\ after.header = req[r].header /\ after.ever = req[r].ever /\ after.always = req[r].always
      /\ after.holds = req[r].holds /\ after.answer = req[r].answer
  BY <1>1 DEF RequestType, Stages
<1>3. req[r].stage = "called" /\ stack[req[r].at].kind = "handler"
  BY DEF Called, Layer
<1>4. req[r].at \in 1 .. Len(stack)
  BY <1>1, <1>3 DEF TypeOK
<1>5. req[r].at = Len(stack)
  BY <1>1, <1>3, <1>4, LayerType
<1>6. Step(r, after)
  BY DEF Handle
<1> HIDE DEF after
<1>7. Placed(after)
  BY <1>1, <1>2, <1>3, <1>4 DEF Placed
<1>8. Passed(after) = req[r].at - 1 /\ Passed(req[r]) = req[r].at - 1 /\ IsActive(req[r])
  BY <1>2, <1>3 DEF Passed, IsActive
<1>9. \A i \in 1 .. Passed(after) : PassedRightly(after, i)
  BY <1>1, <1>2, <1>8 DEF Good, PassedRightly
<1>10. Good(after)
  BY <1>1, <1>2, <1>5, <1>8, <1>9 DEF Good
<1> QED
  BY <1>2, <1>6, <1>7, <1>10, StepInv

LEMMA InitInv == Init => Inv
<1> SUFFICES ASSUME Init PROVE Inv
  OBVIOUS
<1>1. /\ stack \in Stacks /\ granted \in InitialGrants /\ expired = {} /\ edits = 0
      /\ req = [r \in Requests |-> Idle]
  BY DEF Init
<1>2. Len(stack) \in Nat /\ MaxEdits \in Nat
  BY <1>1, StacksAssumption, EditsAssumption
<1>3. Idle.answer = NoAnswer
  BY DEF Idle
<1>4. \A r \in Requests : req[r] = Idle
  BY <1>1
<1>5. TypeOK
  <2>1. req \in [Requests -> RequestType]
    BY <1>1, IdleType
  <2>2. granted \subseteq Subjects \X Permissions
    BY <1>1, GrantsAssumption
  <2> QED
    BY <1>1, <1>2, <1>3, <1>4, <2>1, <2>2, IdleType DEF TypeOK
<1>6. \A r \in Requests : Good(req[r])
  BY <1>4, IdleType DEF Good, IsActive
<1>7. PermitsKept
  <2> SUFFICES ASSUME NEW i \in Of({"limit"}) PROVE Cardinality(Holders(i)) <= stack[i].permits
    BY DEF PermitsKept
  <2>1. Holders(i) = {}
    BY <1>4, IdleType DEF Holders
  <2>2. stack[i].permits \in Nat
    <3>1. i \in 1 .. Len(stack) /\ stack[i].kind = "limit"
      BY DEF Of
    <3> QED
      BY <1>5, <3>1, LayerType, LayerFields
  <2> QED
    BY <2>1, <2>2, FS_EmptySet
<1> QED
  BY <1>5, <1>6, <1>7 DEF Inv

LEMMA ArriveInv ==
  ASSUME Inv, NEW r \in Requests, NEW header \in Headers, Arrive(r, header)
  PROVE  Inv'
<1> DEFINE after == [Idle EXCEPT !.stage = "waiting", !.header = header,
                                 !.ever = granted, !.always = granted]
<1>1. TypeOK
  BY DEF Inv
<1>2. /\ after \in RequestType /\ after.stage = "waiting" /\ after.at = 0
      /\ after.holds = {} /\ after.ever = granted /\ after.always = granted /\ after.answer = NoAnswer
      /\ after.ext = NoExtensions
  <2>1. Idle.answer = NoAnswer /\ Idle.ext = NoExtensions
    BY DEF Idle
  <2> QED
    BY <1>1, <2>1, IdleType DEF TypeOK, RequestType, Stages
<1>3. Step(r, after)
  BY DEF Arrive
<1> HIDE DEF after
<1>4. Len(stack) \in Nat \ {0}
  BY <1>1, StacksAssumption DEF TypeOK
<1>5. Placed(after)
  BY <1>2, <1>4 DEF Placed
<1>6. \A what \in Contexts : after.ext[what] = LastWritten(1, what, after.header)
  <2> TAKE what \in Contexts
  <2>1. after.ext[what] = NoOne
    BY <1>2 DEF NoExtensions, Contexts, ExtensionTypes
  <2>2. Writers(1, what) = {}
    BY DEF Writers
  <2> QED
    BY <2>1, <2>2 DEF LastWritten
<1>7. Good(after)
  <2>1. Passed(after) = 0
    BY <1>2 DEF Passed
  <2>2. \A i \in Of({"limit"}) : ~ (i <= after.at)
    BY <1>2, <1>4 DEF Of
  <2> QED
    BY <1>2, <1>6, <2>1, <2>2 DEF Good
<1> QED
  BY <1>2, <1>3, <1>5, <1>7, StepInv

(* A request that goes one layer further, which may be a limit with room.   *)
LEMMA BecomesReadyInv ==
  ASSUME Inv, NEW r \in Requests, BecomesReady(r)
  PROVE  Inv'
<1> DEFINE next == req[r].at + 1
           limit == stack[next].kind = "limit"
           after == [req[r] EXCEPT !.stage = "called", !.at = next,
                       !.holds = IF limit THEN @ \cup {next} ELSE @]
<1>1. TypeOK /\ Good(req[r]) /\ req[r] \in RequestType /\ Placed(req[r])
  BY DEF Inv, TypeOK, Placed
<1>2. /\ req[r].stage = "waiting" /\ Step(r, after)
      /\ limit => Cardinality(Holders(next)) < stack[next].permits
  BY DEF BecomesReady
<1>3. next \in 1 .. Len(stack) /\ Len(stack) \in Nat /\ req[r].at \in Nat
  BY <1>1, <1>2, StacksAssumption DEF Placed, TypeOK
<1>4. /\ after \in RequestType /\ after.stage = "called" /\ after.at = next
      /\ after.header = req[r].header /\ after.ever = req[r].ever /\ after.always = req[r].always /\ after.ext = req[r].ext
      /\ after.answer = req[r].answer
      /\ after.holds = IF limit THEN req[r].holds \cup {next} ELSE req[r].holds
  <2> DEFINE held == IF limit THEN req[r].holds \cup {next} ELSE req[r].holds
  <2>1. held \in SUBSET Nat /\ "called" \in Stages /\ next \in Nat
    BY <1>1, <1>3 DEF RequestType, Stages
  <2>2. after = [req[r] EXCEPT !.stage = "called", !.at = next, !.holds = held]
    OBVIOUS
  <2> HIDE DEF held, after
  <2>3. /\ after \in RequestType /\ after.stage = "called" /\ after.at = next
        /\ after.header = req[r].header /\ after.ever = req[r].ever /\ after.always = req[r].always /\ after.ext = req[r].ext
        /\ after.answer = req[r].answer /\ after.holds = held
    BY <1>1, <2>1, <2>2 DEF RequestType
  <2> QED
    BY <2>3 DEF held
<1> HIDE DEF after
<1>5. Placed(after)
  BY <1>1, <1>2, <1>3, <1>4 DEF Placed
<1>6. Passed(after) = req[r].at /\ Passed(req[r]) = req[r].at /\ IsActive(req[r])
  BY <1>2, <1>3, <1>4 DEF Passed, IsActive
<1>7. Good(after)
  <2>1. \A i \in Of({"limit"}) : i <= after.at => i \in after.holds
    <3> SUFFICES ASSUME NEW i \in Of({"limit"}), i <= next PROVE i \in after.holds
      BY <1>4
    <3>1. i \in 1 .. Len(stack) /\ stack[i].kind = "limit"
      BY DEF Of
    <3>2. CASE i = next
      BY <1>4, <3>1, <3>2
    <3>3. CASE i # next
      BY <1>1, <1>3, <1>4, <1>6, <3>1, <3>3 DEF Good
    <3> QED
      BY <3>2, <3>3
  <2>2. \A i \in 1 .. Passed(after) : PassedRightly(after, i)
    BY <1>1, <1>2, <1>4, <1>6 DEF Good, PassedRightly
  <2>3. \A what \in Contexts :
          after.ext[what] = LastWritten(Passed(after) + 1, what, after.header)
    BY <1>1, <1>2, <1>4, <1>6 DEF Good
  <2> QED
    BY <1>1, <1>4, <1>6, <2>1, <2>2, <2>3 DEF Good
<1>8. CASE ~ limit
  BY <1>2, <1>4, <1>5, <1>7, <1>8, StepInv
<1>9. CASE limit
  <2>1. /\ req \in [Requests -> RequestType] /\ req' = [req EXCEPT ![r] = after]
        /\ UNCHANGED <<stack, granted, expired, edits>>
    BY <1>1, <1>2 DEF Step, TypeOK
  <2>2. \A x \in Requests : req'[x] = IF x = r THEN after ELSE req[x]
    BY <2>1
  <2>3. TypeOK'
    BY <1>1, <1>4, <1>5, <2>1, <2>2 DEF TypeOK, Placed
  <2>4. \A x \in Requests : Good(req[x])'
    <3> TAKE x \in Requests
    <3>1. Good(req'[x])
      BY <1>7, <2>2 DEF Inv
    <3> QED
      BY <2>1, <3>1, SameStack DEF Good
  <2>5. PermitsKept'
    <3> SUFFICES ASSUME NEW i \in Of({"limit"}) PROVE Cardinality(Holders(i)') <= stack[i].permits
      BY <2>1 DEF PermitsKept, Of
    <3>1. IsFiniteSet(Holders(i))
      BY RequestsAssumption, FS_Subset DEF Holders
    <3>2. Cardinality(Holders(i)) <= stack[i].permits
      BY DEF Inv, PermitsKept
    <3>3. CASE i # next
      <4>1. Holders(i)' = Holders(i)
        BY <1>4, <2>2, <3>3 DEF Holders
      <4> QED
        BY <3>2, <4>1
    <3>4. CASE i = next
      <4>1. Holders(i)' = Holders(i) \cup {r}
        BY <1>4, <1>9, <2>2, <3>4 DEF Holders
      <4>2. Cardinality(Holders(i)) \in Nat /\ Cardinality(Holders(i)') <= Cardinality(Holders(i)) + 1
        <5>1. Cardinality(Holders(i)) \in Nat
          BY <3>1, FS_CardinalityType
        <5>2. Cardinality(Holders(i) \cup {r}) =
                IF r \in Holders(i) THEN Cardinality(Holders(i)) ELSE Cardinality(Holders(i)) + 1
          BY <3>1, FS_AddElement
        <5> QED
          BY <4>1, <5>1, <5>2
      <4>3. stack[i].permits \in Nat /\ Cardinality(Holders(i)) < stack[i].permits
        BY <1>1, <1>2, <1>3, <1>9, <3>4, LayerType, LayerFields
      <4>4. Cardinality(Holders(i)') \in Nat
        BY <3>1, <4>1, FS_AddElement, FS_CardinalityType
      <4> QED
        BY <4>2, <4>3, <4>4
    <3> QED
      BY <3>3, <3>4
  <2> QED
    BY <2>3, <2>4, <2>5 DEF Inv
<1> QED
  BY <1>8, <1>9

(* A layer that has been called and is not the handler at the bottom.       *)
LEMMA AtLayer ==
  ASSUME Inv, NEW r \in Requests, req[r].stage \in {"called", "deciding"}
  PROVE  /\ TypeOK /\ Good(req[r]) /\ req[r] \in RequestType /\ Placed(req[r])
         /\ req[r].at \in 1 .. Len(stack) /\ Len(stack) \in Nat /\ IsActive(req[r])
         /\ Passed(req[r]) = req[r].at - 1 /\ Passed(req[r]) + 1 = req[r].at
         /\ Layer(r) \in Layers /\ Layer(r) = stack[req[r].at]
         /\ Layer(r).kind # "handler" => req[r].at < Len(stack)
<1>1. TypeOK /\ Good(req[r]) /\ req[r] \in RequestType /\ Placed(req[r])
  BY DEF Inv, TypeOK, Placed
<1>2. req[r].at \in 1 .. Len(stack) /\ Len(stack) \in Nat
  BY <1>1, StacksAssumption DEF TypeOK, Placed
<1>3. IsActive(req[r]) /\ Passed(req[r]) = req[r].at - 1 /\ Passed(req[r]) + 1 = req[r].at
  BY <1>2 DEF IsActive, Passed
<1>4. Layer(r) \in Layers /\ Layer(r) = stack[req[r].at]
  BY <1>1, <1>2, LayerType DEF Layer
<1>5. Layer(r).kind # "handler" => req[r].at < Len(stack)
  BY <1>1, <1>2, <1>4, LayerType
<1> QED
  BY <1>1, <1>2, <1>3, <1>4, <1>5

LEMMA AuthenticateInv ==
  ASSUME Inv, NEW r \in Requests, Authenticate(r)
  PROVE  Inv'
<1> DEFINE k == req[r].at
           state == Layer(r).state
           error == DecodeError(req[r].header, state)
           subject == Decoded(req[r].header, state)
           ext == Authenticated(req[r].ext, state.claims, subject)
           after == [req[r] EXCEPT !.stage = "waiting", !.ext = ext]
<1>1. req[r].stage = "called" /\ Layer(r).kind = "jwt"
  BY DEF Authenticate, Called
<1>2. /\ TypeOK /\ Good(req[r]) /\ req[r] \in RequestType /\ k \in 1 .. Len(stack)
      /\ IsActive(req[r]) /\ Passed(req[r]) = k - 1 /\ Passed(req[r]) + 1 = k
      /\ Layer(r) = stack[k] /\ k < Len(stack) /\ Len(stack) \in Nat /\ state \in JwtStates
  BY <1>1, AtLayer, LayerFields
<1>3. CASE error # NoAnswer
  <2>1. Answer(r, error)
    BY <1>3 DEF Authenticate
  <2>2. error \in Answers
    BY <1>3 DEF DecodeError, Answers, AuthErrors
  <2> QED
    BY <2>1, <2>2, AnswerInv
<1>4. CASE error = NoAnswer
  <2>1. Step(r, after)
    BY <1>4 DEF Authenticate, CallInner
  <2>2. Verified(req[r].header, state) /\ subject \in TenantSubjects
    BY <1>2, <1>4, DecodeSucceeds DEF RequestType
  <2>3. /\ req[r].ext \in [ExtensionTypes -> Subjects \cup {NoOne}]
        /\ state.claims \in ClaimTypes /\ subject \in Subjects
    BY <1>2, <2>2 DEF RequestType, JwtStates, Subjects
  <2>4. /\ ext \in [ExtensionTypes -> Subjects \cup {NoOne}]
        /\ \A what \in TenantContexts : ext[what] = subject
        /\ \A what \in PlatformContexts : ext[what] = req[r].ext[what]
        /\ \A claims \in ClaimTypes :
             ext[claims] = IF claims = state.claims THEN subject ELSE req[r].ext[claims]
    <3> HIDE DEF subject, state
    <3>1. "AuthContext" \in ExtensionTypes /\ "AuthSubject" \in ExtensionTypes
          /\ TenantContexts = {"AuthContext", "AuthSubject"}
          /\ PlatformContexts = {"PlatformAuthContext", "PlatformSubject"}
          /\ PlatformContexts \subseteq ExtensionTypes /\ ClaimTypes \subseteq ExtensionTypes
      BY DEF ExtensionTypes, TenantContexts, PlatformContexts
    <3> QED
      BY <2>3, <3>1, TypesAssumption DEF Authenticated
  <2> HIDE DEF ext
  <2>5. /\ after \in RequestType /\ after.stage = "waiting" /\ after.at = k
        /\ after.header = req[r].header /\ after.ever = req[r].ever /\ after.always = req[r].always
        /\ after.holds = req[r].holds /\ after.answer = req[r].answer /\ after.ext = ext
    BY <1>2, <2>4 DEF RequestType, Stages
  <2> HIDE DEF after
  <2>6. ASSUME NEW i \in 1 .. k - 1, stack[i].kind = "jwt"
        PROVE  after.ext[stack[i].state.claims] # NoOne
    <3>0. i \in 1 .. Len(stack) /\ PassedRightly(req[r], i)
      BY <1>2 DEF Good
    <3>1. i \in 1 .. Len(stack) /\ req[r].ext[stack[i].state.claims] # NoOne
      BY <1>1, <2>6, <3>0 DEF PassedRightly
    <3>2. stack[i].state \in JwtStates
      BY <1>2, <2>6, <3>1, LayerType, LayerFields
    <3>3. stack[i].state.claims \in ClaimTypes
      BY <3>2 DEF JwtStates
    <3> QED
      BY <2>3, <2>4, <2>5, <3>1, <3>3, NoOneAssumption
  <2>7. PassedRightly(after, k)
    BY <1>1, <1>2, <2>2, <2>3, <2>4, <2>5, NoOneAssumption DEF PassedRightly
  <2>8. \A what \in Contexts : after.ext[what] = LastWritten(k + 1, what, req[r].header)
    <3> TAKE what \in Contexts
    <3>1. req[r].ext[what] = LastWritten(k, what, req[r].header)
      BY <1>1, <1>2 DEF Good
    <3>2. Writes(k, what) <=> what \in TenantContexts
      BY <1>1, <1>2 DEF Writes
    <3>3. Written(k, req[r].header) = subject
      BY <1>1, <1>2 DEF Written
    <3>4. LastWritten(k + 1, what, req[r].header) =
            IF Writes(k, what) THEN Written(k, req[r].header) ELSE LastWritten(k, what, req[r].header)
      <4>1. k \in Nat /\ k >= 1
        BY <1>2
      <4> QED
        BY <4>1, LastWrittenNext
    <3> QED
      BY <2>4, <2>5, <3>1, <3>2, <3>3, <3>4 DEF Contexts
  <2>9. req[r].stage \in {"called", "deciding"}
    BY <1>1
  <2> QED
    BY <1>2, <2>1, <2>5, <2>6, <2>7, <2>8, <2>9, PassOnInv
<1> QED
  BY <1>3, <1>4

(* A layer that writes no context passes on what it was given.              *)
LEMMA UnchangedInv ==
  ASSUME Inv, NEW r \in Requests, req[r].stage \in {"called", "deciding"},
         NEW after \in RequestType, Step(r, after), Layer(r).kind \in {"tenant", "platform"},
         after.stage = "waiting", after.at = req[r].at, after.header = req[r].header,
         after.ever = req[r].ever, after.always = req[r].always, after.holds = req[r].holds, after.answer = req[r].answer,
         after.ext = req[r].ext, PassedRightly(after, req[r].at)
  PROVE  Inv'
<1>1. /\ TypeOK /\ Good(req[r]) /\ req[r].at \in 1 .. Len(stack)
      /\ IsActive(req[r]) /\ Passed(req[r]) = req[r].at - 1 /\ Passed(req[r]) + 1 = req[r].at
      /\ Layer(r) = stack[req[r].at] /\ req[r].at < Len(stack)
  BY AtLayer
<1>2. \A i \in 1 .. req[r].at - 1 :
        stack[i].kind = "jwt" => after.ext[stack[i].state.claims] # NoOne
  BY <1>1 DEF Good, PassedRightly
<1>3. \A what \in Contexts : after.ext[what] = LastWritten(req[r].at + 1, what, req[r].header)
  <2> TAKE what \in Contexts
  <2>1. after.ext[what] = LastWritten(req[r].at, what, req[r].header)
    BY <1>1 DEF Good
  <2>2. ~ Writes(req[r].at, what)
    BY <1>1 DEF Writes
  <2> QED
    BY <1>1, <2>1, <2>2, LastWrittenNext
<1> QED
  BY <1>1, <1>2, <1>3, PassOnInv

LEMMA DecideInv ==
  ASSUME Inv, NEW r \in Requests, Decide(r)
  PROVE  Inv'
<1>0. req[r].stage = "deciding"
  BY DEF Decide
<1>1. req[r].stage = "deciding" /\ Layer(r).kind \in {"tenant", "platform"}
  BY <1>0, AtLayer DEF Good
<1>2. /\ TypeOK /\ Good(req[r]) /\ req[r] \in RequestType /\ req[r].at \in 1 .. Len(stack)
      /\ IsActive(req[r]) /\ Layer(r) = stack[req[r].at]
  BY <1>1, AtLayer
<1>3. CASE Asked(r) \notin granted
  <2>1. Answer(r, "forbidden") /\ "forbidden" \in Answers
    BY <1>3 DEF Decide, Answers
  <2> QED
    BY <2>1, AnswerInv
<1>4. CASE Asked(r) \in granted
  <2> DEFINE asked == req[r].asked \cup ({Asked(r)[1]} \cap TenantSubjects)
             after == [req[r] EXCEPT !.stage = "waiting", !.asked = asked]
  <2>1. Step(r, after)
    BY <1>4 DEF Decide
  <2>2. asked \in SUBSET TenantSubjects
    BY <1>2 DEF RequestType
  <2> HIDE DEF asked
  <2>3. /\ after \in RequestType /\ after.stage = "waiting" /\ after.at = req[r].at
        /\ after.header = req[r].header /\ after.ever = req[r].ever /\ after.always = req[r].always
        /\ after.holds = req[r].holds /\ after.answer = req[r].answer /\ after.ext = req[r].ext
    BY <1>2, <2>2 DEF RequestType, Stages
  <2> HIDE DEF after
  <2>4. Asked(r) = <<Identity(req[r].at, req[r].header), stack[req[r].at].permission>>
    BY <1>1, <1>2, SubjectIsIdentity DEF Asked
  <2>5. PassedRightly(after, req[r].at)
    BY <1>1, <1>2, <1>4, <2>3, <2>4 DEF PassedRightly, Good
  <2> QED
    BY <1>1, <2>1, <2>3, <2>5, UnchangedInv
<1> QED
  BY <1>3, <1>4

LEMMA InsertInv ==
  ASSUME Inv, NEW r \in Requests, Insert(r)
  PROVE  Inv'
<1> DEFINE k == req[r].at
           ext == [req[r].ext EXCEPT ![Layer(r).what] = Layer(r).subject]
           after == [req[r] EXCEPT !.stage = "waiting", !.ext = ext]
<1>1. req[r].stage = "called" /\ Layer(r).kind = "insert" /\ Step(r, after)
  BY DEF Insert, Called, CallInner
<1>2. /\ TypeOK /\ Good(req[r]) /\ req[r] \in RequestType /\ k \in 1 .. Len(stack)
      /\ IsActive(req[r]) /\ Passed(req[r]) = k - 1 /\ Passed(req[r]) + 1 = k
      /\ Layer(r) = stack[k] /\ k < Len(stack) /\ Len(stack) \in Nat
      /\ Layer(r).what \in Contexts /\ Layer(r).subject \in Subjects
  BY <1>1, AtLayer, LayerFields DEF Contexts, Subjects
<1>3. /\ ext \in [ExtensionTypes -> Subjects \cup {NoOne}]
      /\ \A what \in Contexts :
           ext[what] = IF what = stack[k].what THEN stack[k].subject ELSE req[r].ext[what]
      /\ \A claims \in ClaimTypes : ext[claims] = req[r].ext[claims]
  <2>1. req[r].ext \in [ExtensionTypes -> Subjects \cup {NoOne}]
    BY <1>2 DEF RequestType
  <2>2. Contexts \subseteq ExtensionTypes /\ ClaimTypes \subseteq ExtensionTypes
        /\ ClaimTypes \cap Contexts = {}
    BY TypesAssumption DEF ExtensionTypes, Contexts
  <2> QED
    BY <1>2, <2>1, <2>2
<1> HIDE DEF ext
<1>4. /\ after \in RequestType /\ after.stage = "waiting" /\ after.at = k
      /\ after.header = req[r].header /\ after.ever = req[r].ever /\ after.always = req[r].always
      /\ after.holds = req[r].holds /\ after.answer = req[r].answer /\ after.ext = ext
  BY <1>2, <1>3 DEF RequestType, Stages
<1> HIDE DEF after
<1>5. ASSUME NEW i \in 1 .. k - 1, stack[i].kind = "jwt"
      PROVE  after.ext[stack[i].state.claims] # NoOne
  <2>0. i \in 1 .. Len(stack) /\ PassedRightly(req[r], i)
    BY <1>2 DEF Good
  <2>1. i \in 1 .. Len(stack) /\ req[r].ext[stack[i].state.claims] # NoOne
    BY <1>1, <1>5, <2>0 DEF PassedRightly
  <2>2. stack[i].state \in JwtStates
    BY <1>2, <1>5, <2>1, LayerType, LayerFields
  <2>3. stack[i].state.claims \in ClaimTypes
    BY <2>2 DEF JwtStates
  <2> QED
    BY <1>3, <1>4, <2>1, <2>3
<1>6. PassedRightly(after, k)
  BY <1>1, <1>2 DEF PassedRightly
<1>7. \A what \in Contexts : after.ext[what] = LastWritten(k + 1, what, req[r].header)
  <2> TAKE what \in Contexts
  <2>1. req[r].ext[what] = LastWritten(k, what, req[r].header)
    BY <1>1, <1>2 DEF Good
  <2>2. Writes(k, what) <=> what = stack[k].what
    BY <1>1, <1>2 DEF Writes
  <2>3. Written(k, req[r].header) = stack[k].subject
    BY <1>1, <1>2 DEF Written
  <2>4. LastWritten(k + 1, what, req[r].header) =
          IF Writes(k, what) THEN Written(k, req[r].header) ELSE LastWritten(k, what, req[r].header)
    BY <1>2, LastWrittenNext
  <2> QED
    BY <1>3, <1>4, <2>1, <2>2, <2>3, <2>4
<1>8. req[r].stage \in {"called", "deciding"}
  BY <1>1
<1> QED
  BY <1>1, <1>2, <1>4, <1>5, <1>6, <1>7, <1>8, PassOnInv

LEMMA AuthorizeInv ==
  ASSUME Inv, NEW r \in Requests, Authorize(r)
  PROVE  Inv'
<1> DEFINE after == [req[r] EXCEPT !.stage = "deciding"]
<1>1. req[r].stage = "called" /\ Layer(r).kind \in {"tenant", "platform"}
  BY DEF Authorize, Called
<1>2. CASE SubjectFor(Layer(r).kind, req[r].ext) = NoOne
  <2>1. Answer(r, "unauthenticated") /\ "unauthenticated" \in Answers
    BY <1>2 DEF Authorize, Answers
  <2> QED
    BY <2>1, AnswerInv
<1>3. CASE SubjectFor(Layer(r).kind, req[r].ext) # NoOne
  <2>1. Step(r, after)
    BY <1>3 DEF Authorize
  <2>2. /\ Good(req[r]) /\ req[r] \in RequestType /\ Placed(req[r]) /\ IsActive(req[r])
        /\ req[r].at \in 1 .. Len(stack) /\ Layer(r) = stack[req[r].at]
        /\ Passed(req[r]) = req[r].at - 1
    BY <1>1, AtLayer
  <2>3. /\ after \in RequestType /\ after.stage = "deciding" /\ after.at = req[r].at
        /\ after.header = req[r].header /\ after.ever = req[r].ever /\ after.always = req[r].always
        /\ after.holds = req[r].holds /\ after.answer = req[r].answer /\ after.ext = req[r].ext
    BY <2>2 DEF RequestType, Stages
  <2> HIDE DEF after
  <2>4. Placed(after)
    BY <1>1, <2>2, <2>3 DEF Placed
  <2>5. Passed(after) = req[r].at - 1
    BY <2>3 DEF Passed
  <2>6. \A i \in 1 .. Passed(after) : PassedRightly(after, i)
    BY <1>1, <2>2, <2>3, <2>5 DEF Good, PassedRightly
  <2>7. Good(after)
    BY <1>1, <1>3, <2>2, <2>3, <2>5, <2>6 DEF Good
  <2> QED
    BY <2>1, <2>3, <2>4, <2>7, StepInv
<1> QED
  BY <1>2, <1>3

(* A limit does not stand over another, so what it passes on needs no permit*)
LEMMA PassLimitInv ==
  ASSUME Inv, NEW r \in Requests, PassLimit(r)
  PROVE  Inv'
<1> DEFINE k == req[r].at
           after == [req[r] EXCEPT !.at = @ + 1]
<1>1. req[r].stage = "called" /\ Layer(r).kind = "limit" /\ Step(r, after)
  BY DEF PassLimit, Called
<1>2. /\ TypeOK /\ Good(req[r]) /\ req[r] \in RequestType /\ Placed(req[r])
      /\ k \in 1 .. Len(stack) /\ IsActive(req[r]) /\ Passed(req[r]) = k - 1
      /\ Passed(req[r]) + 1 = k
      /\ Layer(r) = stack[k] /\ k < Len(stack) /\ Len(stack) \in Nat
  BY <1>1, AtLayer
<1>3. /\ after \in RequestType /\ after.stage = "called" /\ after.at = k + 1
      /\ after.header = req[r].header /\ after.ever = req[r].ever /\ after.always = req[r].always
      /\ after.holds = req[r].holds /\ after.answer = req[r].answer /\ after.ext = req[r].ext
  <2> DEFINE next == k + 1
  <2>1. next \in Nat /\ after = [req[r] EXCEPT !.at = next]
    BY <1>2
  <2> HIDE DEF next, after
  <2>2. /\ after \in RequestType /\ after.stage = "called" /\ after.at = next
        /\ after.header = req[r].header /\ after.ever = req[r].ever /\ after.always = req[r].always
        /\ after.holds = req[r].holds /\ after.answer = req[r].answer /\ after.ext = req[r].ext
    BY <1>1, <1>2, <2>1 DEF RequestType
  <2> QED
    BY <2>2 DEF next
<1> HIDE DEF after
<1>4. Placed(after)
  BY <1>1, <1>2, <1>3 DEF Placed
<1>5. Passed(after) = k
  BY <1>2, <1>3 DEF Passed
<1>6. \A i \in 1 .. Passed(after) : PassedRightly(after, i)
  <2> SUFFICES ASSUME NEW i \in 1 .. k PROVE PassedRightly(after, i)
    BY <1>5
  <2>1. CASE i = k
    BY <1>1, <1>2, <2>1 DEF PassedRightly
  <2>2. CASE i # k
    <3>1. i \in 1 .. k - 1
      BY <1>2, <2>2
    <3>2. PassedRightly(req[r], i)
      BY <1>2, <3>1 DEF Good
    <3> QED
      BY <1>1, <1>3, <3>2 DEF PassedRightly
  <2> QED
    BY <2>1, <2>2
<1>7. \A what \in Contexts : after.ext[what] = LastWritten(Passed(after) + 1, what, after.header)
  <2> TAKE what \in Contexts
  <2>1. req[r].ext[what] = LastWritten(k, what, req[r].header)
    BY <1>1, <1>2 DEF Good
  <2>2. ~ Writes(k, what)
    BY <1>1, <1>2 DEF Writes
  <2>3. LastWritten(k + 1, what, req[r].header) = LastWritten(k, what, req[r].header)
    BY <1>2, <2>2, LastWrittenNext
  <2> QED
    BY <1>3, <1>5, <2>1, <2>3
<1>8. \A i \in Of({"limit"}) : i <= after.at => i \in after.holds
  <2> SUFFICES ASSUME NEW i \in Of({"limit"}), i <= k + 1 PROVE i \in req[r].holds
    BY <1>3
  <2>1. i \in 1 .. Len(stack) /\ stack[i].kind = "limit"
    BY DEF Of
  <2>2. i # k + 1
    BY <1>1, <1>2, <2>1, LayerType
  <2>3. i <= k
    BY <1>2, <2>1, <2>2
  <2> QED
    BY <1>2, <2>3 DEF Good
<1>9. Good(after)
  BY <1>2, <1>3, <1>6, <1>7, <1>8 DEF Good
<1> QED
  BY <1>1, <1>3, <1>4, <1>9, StepInv

LEMMA ExtractInv ==
  ASSUME Inv, NEW r \in Requests, ExtractNothing(r) \/ ExtractSubject(r) \/ FromRequestParts(r)
  PROVE  Inv'
<1>1. Called(r, {"handler"})
  BY DEF ExtractNothing, ExtractSubject, FromRequestParts, Extracts
<1>2. req[r].stage = "called" /\ Layer(r).kind = "handler"
  BY <1>1 DEF Called
<1>3. /\ req[r] \in RequestType /\ Layer(r).state \in JwtStates
      /\ req[r].ext \in [ExtensionTypes -> Subjects \cup {NoOne}] /\ req[r].header \in Headers
  BY <1>2, AtLayer, LayerFields DEF RequestType
<1>4. CASE ExtractNothing(r)
  BY <1>1, <1>3, <1>4, HandleInv DEF ExtractNothing
<1>5. CASE ExtractSubject(r)
  <2>1. "AuthSubject" \in ExtensionTypes /\ "missing_extension" \in Answers
    BY DEF ExtensionTypes, TenantContexts, Answers
  <2>2. req[r].ext["AuthSubject"] \in Subjects \cup {NoOne}
    BY <1>3, <2>1
  <2> QED
    BY <1>1, <1>3, <1>5, <2>1, <2>2, HandleInv, AnswerInv DEF ExtractSubject
<1>6. CASE FromRequestParts(r)
  <2> DEFINE state == Layer(r).state
             existing == req[r].ext[state.claims]
             error == DecodeError(req[r].header, state)
             subject == Decoded(req[r].header, state)
  <2>1. state.claims \in ClaimTypes /\ state.claims \in ExtensionTypes
    BY <1>3 DEF JwtStates, ExtensionTypes
  <2>2. CASE existing # NoOne
    <3>1. existing \in Subjects \cup {NoOne} /\ Handle(r, req[r].ext, existing)
      BY <1>3, <1>6, <2>1, <2>2 DEF FromRequestParts
    <3> QED
      BY <1>1, <1>3, <3>1, HandleInv
  <2>3. CASE existing = NoOne /\ error = NoAnswer
    <3>1. subject \in Subjects
      BY <1>3, <2>3, DecodeSucceeds DEF Subjects
    <3>2. Handle(r, Authenticated(req[r].ext, state.claims, subject), subject)
      BY <1>6, <2>3 DEF FromRequestParts
    <3>3. Authenticated(req[r].ext, state.claims, subject) \in [ExtensionTypes -> Subjects \cup {NoOne}]
      <4> HIDE DEF subject, state
      <4> QED
        BY <1>3, <3>1 DEF Authenticated
    <3> QED
      BY <1>1, <3>1, <3>2, <3>3, HandleInv
  <2>4. CASE existing = NoOne /\ error # NoAnswer
    <3>1. Answer(r, error)
      BY <1>6, <2>4 DEF FromRequestParts
    <3>2. error \in Answers
      BY <2>4 DEF DecodeError, Answers, AuthErrors
    <3> QED
      BY <3>1, <3>2, AnswerInv
  <2> QED
    BY <2>2, <2>3, <2>4
<1> QED
  BY <1>4, <1>5, <1>6

LEMMA OtherAnswersInv ==
  ASSUME Inv, NEW r \in Requests,
         EngineFails(r) \/ HandlerEnds(r) \/ Dropped(r) \/ ReadinessFails(r)
  PROVE  Inv'
<1>1. PICK a \in {"auth_error", "ok", "dropped", "inner_error"} : Answer(r, a)
  BY DEF EngineFails, HandlerEnds, Dropped, ReadinessFails
<1>2. a \in Answers
  BY DEF Answers
<1> QED
  BY <1>1, <1>2, AnswerInv

-------------------------------------------------------------------------------
(* What others do                                                           *)

LEMMA EditInv ==
  ASSUME Inv, NEW pair \in EditablePairs, Edit(pair)
  PROVE  Inv'
<1>1. PICK edited : /\ edited \in {granted \ {pair}, granted \cup {pair}}
                    /\ granted' = edited
                    /\ req' = [r \in Requests |->
                         IF Active(r)
                         THEN [req[r] EXCEPT !.ever = @ \cup edited, !.always = @ \cap edited]
                         ELSE req[r]]
  BY DEF Edit
<1>2. edits < MaxEdits /\ edits' = edits + 1 /\ UNCHANGED <<stack, expired>>
  BY DEF Edit
<1>3. TypeOK /\ PermitsKept /\ edited \subseteq Subjects \X Permissions
  <2>1. TypeOK /\ PermitsKept
    BY DEF Inv
  <2>2. granted \subseteq Subjects \X Permissions
    BY <2>1 DEF TypeOK
  <2>3. pair \in Subjects \X Permissions
    BY GrantsAssumption
  <2> HIDE DEF TypeOK, PermitsKept, Subjects
  <2> QED
    BY <1>1, <2>1, <2>2, <2>3
<1>4. ASSUME NEW r \in Requests
      PROVE  /\ req'[r] \in RequestType
             /\ req'[r].stage = req[r].stage /\ req'[r].at = req[r].at
             /\ req'[r].header = req[r].header /\ req'[r].ext = req[r].ext
             /\ req'[r].holds = req[r].holds /\ req'[r].answer = req[r].answer
             /\ Active(r) => /\ req'[r].ever = req[r].ever \cup edited
                             /\ req'[r].always = req[r].always \cap edited
  <2>1. req[r] \in RequestType
    BY <1>3 DEF TypeOK
  <2>2. CASE Active(r)
    <3> DEFINE ever == req[r].ever \cup edited
               always == req[r].always \cap edited
    <3>1. ever \in SUBSET (Subjects \X Permissions) /\ always \in SUBSET (Subjects \X Permissions)
      BY <1>3, <2>1 DEF RequestType
    <3>2. req'[r] = [req[r] EXCEPT !.ever = ever, !.always = always]
      BY <1>1, <2>2
    <3> HIDE DEF ever, always
    <3>3. /\ req'[r] \in RequestType
          /\ req'[r].stage = req[r].stage /\ req'[r].at = req[r].at
          /\ req'[r].header = req[r].header /\ req'[r].ext = req[r].ext
          /\ req'[r].holds = req[r].holds /\ req'[r].answer = req[r].answer
          /\ req'[r].ever = ever /\ req'[r].always = always
      BY <2>1, <3>1, <3>2 DEF RequestType
    <3> QED
      BY <3>3 DEF ever, always
  <2>3. CASE ~ Active(r)
    BY <1>1, <2>1, <2>3
  <2> QED
    BY <2>2, <2>3
<1>5. TypeOK'
  <2>1. req' \in [Requests -> RequestType]
    BY <1>1, <1>4
  <2>2. edits' \in 0 .. MaxEdits
    BY <1>2, <1>3, EditsAssumption DEF TypeOK
  <2> QED
    BY <1>1, <1>2, <1>3, <1>4, <2>1, <2>2 DEF TypeOK
<1>6. \A r \in Requests : Good(req[r])'
  <2> SUFFICES ASSUME NEW r \in Requests, IsActive(req'[r]) PROVE Good(req[r])'
    BY DEF Good, IsActive
  <2>1. IsActive(req[r]) /\ Active(r) /\ Good(req[r])
    BY <1>4 DEF IsActive, Active, Inv
  <2>2. Passed(req'[r]) = Passed(req[r])
    BY <1>4 DEF Passed
  <2>3. granted' \subseteq req'[r].ever /\ req'[r].always \subseteq granted'
    BY <1>1, <1>4, <2>1
  <2>4. \A i \in 1 .. Passed(req'[r]) : PassedRightly(req'[r], i)
    BY <1>4, <2>1, <2>2 DEF Good, PassedRightly
  <2>6. /\ req'[r].stage = "handling" => req'[r].at = Len(stack)
        /\ req'[r].stage = "deciding" =>
             /\ stack[req'[r].at].kind \in {"tenant", "platform"}
             /\ SubjectFor(stack[req'[r].at].kind, req'[r].ext) # NoOne
        /\ \A i \in Of({"limit"}) : i <= req'[r].at => i \in req'[r].holds
        /\ req'[r].stage # "handling" =>
             \A what \in Contexts :
               req'[r].ext[what] = LastWritten(Passed(req'[r]) + 1, what, req'[r].header)
    BY <1>4, <2>1, <2>2 DEF Good
  <2> QED
    BY <1>2, <2>3, <2>4, <2>6, SameStack DEF Good
<1>7. PermitsKept'
  <2>1. \A i : Holders(i)' = Holders(i)
    BY <1>4 DEF Holders
  <2> QED
    BY <1>2, <1>3, <2>1 DEF PermitsKept, Of
<1> QED
  BY <1>5, <1>6, <1>7 DEF Inv

LEMMA SameRequestsInv ==
  ASSUME Inv, UNCHANGED <<stack, granted, edits, req>>, expired' \subseteq Expiring
  PROVE  Inv'
<1>1. TypeOK'
  BY DEF Inv, TypeOK
<1>2. \A r \in Requests : Good(req[r])'
  BY SameStack DEF Inv, Good
<1>3. PermitsKept'
  BY DEF Inv, PermitsKept, Of, Holders
<1> QED
  BY <1>1, <1>2, <1>3 DEF Inv

LEMMA NextInv == Inv /\ [Next]_vars => Inv'
<1> SUFFICES ASSUME Inv, [Next]_vars PROVE Inv'
  OBVIOUS
<1>1. ASSUME NEW r \in Requests, Progress(r) PROVE Inv'
  BY <1>1, AuthenticateInv, AuthorizeInv, DecideInv, OtherAnswersInv, InsertInv, PassLimitInv,
     ExtractInv DEF Progress
<1>2. ASSUME NEW token \in Expiring, Expire(token) PROVE Inv'
  <2>1. expired \subseteq Expiring
    BY DEF Inv, TypeOK
  <2> QED
    BY <1>2, <2>1, SameRequestsInv DEF Expire
<1>3. CASE UNCHANGED vars
  <2>1. expired' \subseteq Expiring
    BY <1>3 DEF vars, Inv, TypeOK
  <2> QED
    BY <1>3, <2>1, SameRequestsInv DEF vars
<1> QED
  BY <1>1, <1>2, <1>3, ArriveInv, BecomesReadyInv, OtherAnswersInv, EditInv DEF Next

LEMMA Invariance == Spec => []Inv
BY InitInv, NextInv, PTL DEF Spec

-------------------------------------------------------------------------------
(* Theorems                                                                 *)

(* Every state is one of the model's states: an id that does not parse does *)
(* not become a subject, and an answer ends a request.                      *)
THEOREM TypesKept == Spec => []TypeOK
<1>1. Inv => TypeOK
  BY DEF Inv
<1> QED
  BY Invariance, <1>1, PTL

(* A handler runs only for requests that every layer above was right to     *)
(* pass, whatever the stack and whatever is edited meanwhile.               *)
THEOREM ServedByRight == Spec => []ServedIfGranted
<1>1. Inv => ServedIfGranted
  <2> SUFFICES ASSUME Inv, NEW r \in Requests, req[r].stage = "handling"
               PROVE  /\ \A i \in Authorizing :
                           <<Identity(i, req[r].header), stack[i].permission>> \in req[r].ever
                      /\ \A j \in Of({"jwt"}) : Verified(req[r].header, stack[j].state)
    BY DEF ServedIfGranted
  <2>1. TypeOK /\ Good(req[r]) /\ IsActive(req[r])
    BY DEF Inv, IsActive
  <2>2. Len(stack) \in Nat /\ req[r].at = Len(stack) /\ Passed(req[r]) = Len(stack) - 1
    BY <2>1, StacksAssumption DEF Good, Passed, TypeOK
  <2>3. ASSUME NEW i \in 1 .. Len(stack), stack[i].kind # "handler"
        PROVE  PassedRightly(req[r], i)
    <3>1. i # Len(stack)
      BY <2>1, <2>3, LayerType
    <3>2. i \in 1 .. Len(stack) - 1
      BY <2>2, <3>1
    <3> QED
      BY <2>1, <2>2, <3>2 DEF Good
  <2> QED
    BY <2>3 DEF Authorizing, Of, PassedRightly
<1> QED
  BY Invariance, <1>1, PTL

(* No limit is ever exceeded, wherever it stands in the stack.              *)
THEOREM LimitsHold == Spec => []WithinLimit
<1>1. Inv => WithinLimit
  <2> SUFFICES ASSUME Inv, NEW i \in Of({"limit"})
               PROVE  Cardinality({r \in Requests : Active(r) /\ req[r].at >= i}) <= stack[i].permits
    BY DEF WithinLimit
  <2> DEFINE below == {r \in Requests : Active(r) /\ req[r].at >= i}
  <2>1. i \in 1 .. Len(stack) /\ stack[i].kind = "limit" /\ TypeOK
    BY DEF Of, Inv
  <2>2. below \subseteq Holders(i)
    <3> SUFFICES ASSUME NEW r \in Requests, Active(r), req[r].at >= i PROVE r \in Holders(i)
      OBVIOUS
    <3>1. Good(req[r]) /\ IsActive(req[r]) /\ req[r].at \in Nat
      BY <2>1 DEF Inv, Active, IsActive, TypeOK, RequestType
    <3>2. i <= req[r].at
      BY <2>1, <3>1
    <3> QED
      BY <3>1, <3>2 DEF Good, Holders
  <2>3. IsFiniteSet(Holders(i))
    BY RequestsAssumption, FS_Subset DEF Holders
  <2>4. Cardinality(below) <= Cardinality(Holders(i)) /\ Cardinality(below) \in Nat
        /\ Cardinality(Holders(i)) \in Nat
    BY <2>2, <2>3, FS_Subset, FS_CardinalityType
  <2>5. Cardinality(Holders(i)) <= stack[i].permits /\ stack[i].permits \in Nat
    BY <2>1, LayerType, LayerFields DEF Inv, PermitsKept
  <2> QED
    BY <2>4, <2>5
<1> QED
  BY Invariance, <1>1, PTL

(* What a step answers, and to which request.                               *)
LEMMA RespondsBy ==
  ASSUME TypeOK, NEW r \in Requests, NEW answers \in SUBSET Answers, [Next]_vars,
         Responds(r, answers)
  PROVE  \E a \in answers :
           \/ Authenticate(r) /\ a = DecodeError(req[r].header, Layer(r).state) /\ a # NoAnswer
           \/ Authorize(r) /\ a = "unauthenticated" /\ SubjectFor(Layer(r).kind, req[r].ext) = NoOne
           \/ Decide(r) /\ a = "forbidden" /\ Asked(r) \notin granted
           \/ /\ FromRequestParts(r) /\ req[r].ext[Layer(r).state.claims] = NoOne
              /\ a = DecodeError(req[r].header, Layer(r).state) /\ a # NoAnswer
           \/ a \in {"auth_error", "inner_error", "missing_extension", "ok", "dropped"}
<1> DEFINE a == req'[r].answer
<1>1. Active(r) /\ a \in answers /\ a # NoAnswer /\ req \in [Requests -> RequestType]
  BY DEF Responds, TypeOK, Answers, AuthErrors, NoAnswer
<1>2. req[r].answer = NoAnswer /\ a # req[r].answer
  BY <1>1 DEF TypeOK, Active
<1> HIDE DEF a
<1>3. \A x \in Requests : \A after : Step(x, after) => x = r /\ a = after.answer
  BY <1>1, <1>2 DEF Step, a
<1>4. \A x \in Requests : \A b : Answer(x, b) => x = r /\ a = b
  <2> SUFFICES ASSUME NEW x \in Requests, NEW b, Answer(x, b) PROVE x = r /\ a = b
    OBVIOUS
  <2>1. [Idle EXCEPT !.stage = "answered", !.answer = b].answer = b
    BY DEF Idle
  <2> QED
    BY <1>3, <2>1 DEF Answer
<1> DEFINE Cause(x) ==
      \/ Authenticate(x) /\ a = DecodeError(req[x].header, Layer(x).state) /\ a # NoAnswer
      \/ Authorize(x) /\ a = "unauthenticated" /\ SubjectFor(Layer(x).kind, req[x].ext) = NoOne
      \/ Decide(x) /\ a = "forbidden" /\ Asked(x) \notin granted
      \/ /\ FromRequestParts(x) /\ req[x].ext[Layer(x).state.claims] = NoOne
         /\ a = DecodeError(req[x].header, Layer(x).state) /\ a # NoAnswer
      \/ a \in {"auth_error", "inner_error", "missing_extension", "ok", "dropped"}
<1>5. ASSUME NEW x \in Requests, NEW after, Step(x, after), after.answer = req[x].answer PROVE FALSE
  BY <1>2, <1>3, <1>5
<1>6. \A x \in Requests : req[x] \in RequestType
  BY <1>1
<1>7. \A x \in Requests : \A ext : ~ CallInner(x, ext)
  <2> SUFFICES ASSUME NEW x \in Requests, NEW ext, CallInner(x, ext) PROVE FALSE
    OBVIOUS
  <2>1. [req[x] EXCEPT !.stage = "waiting", !.ext = ext].answer = req[x].answer
    BY <1>6 DEF RequestType
  <2> QED
    BY <1>5, <2>1 DEF CallInner
<1>8. \A x \in Requests : \A ext, subject : ~ Handle(x, ext, subject)
  <2> SUFFICES ASSUME NEW x \in Requests, NEW ext, NEW subject, Handle(x, ext, subject) PROVE FALSE
    OBVIOUS
  <2>1. [req[x] EXCEPT !.stage = "handling", !.ext = ext, !.seen = subject].answer = req[x].answer
    BY <1>6 DEF RequestType
  <2> QED
    BY <1>5, <2>1 DEF Handle
<1>9. ASSUME NEW x \in Requests, Progress(x) PROVE x = r /\ Cause(x)
  <2>1. CASE Authenticate(x)
    BY <1>4, <1>7, <2>1 DEF Authenticate
  <2>2. CASE Authorize(x)
    <3>1. SubjectFor(Layer(x).kind, req[x].ext) = NoOne
      <4> SUFFICES ASSUME SubjectFor(Layer(x).kind, req[x].ext) # NoOne PROVE FALSE
        OBVIOUS
      <4>1. Step(x, [req[x] EXCEPT !.stage = "deciding"])
        BY <2>2 DEF Authorize
      <4>2. [req[x] EXCEPT !.stage = "deciding"].answer = req[x].answer
        BY <1>6 DEF RequestType
      <4> QED
        BY <1>5, <4>1, <4>2
    <3> QED
      BY <1>4, <2>2, <3>1 DEF Authorize
  <2>3. CASE Decide(x)
    <3>1. Asked(x) \notin granted
      <4> SUFFICES ASSUME Asked(x) \in granted PROVE FALSE
        OBVIOUS
      <4> DEFINE asked == req[x].asked \cup ({Asked(x)[1]} \cap TenantSubjects)
      <4>1. Step(x, [req[x] EXCEPT !.stage = "waiting", !.asked = asked])
        BY <2>3 DEF Decide
      <4> HIDE DEF asked
      <4>2. [req[x] EXCEPT !.stage = "waiting", !.asked = asked].answer = req[x].answer
        BY <1>6 DEF RequestType
      <4> QED
        BY <1>5, <4>1, <4>2
    <3> QED
      BY <1>4, <2>3, <3>1 DEF Decide
  <2>4. CASE EngineFails(x)
    BY <1>4, <2>4 DEF EngineFails
  <2>5. CASE Insert(x)
    BY <1>7, <2>5 DEF Insert
  <2>6. CASE PassLimit(x)
    <3> DEFINE after == [req[x] EXCEPT !.at = @ + 1]
    <3>1. after.answer = req[x].answer /\ Step(x, after)
      BY <1>6, <2>6 DEF RequestType, PassLimit
    <3> HIDE DEF after
    <3> QED
      BY <1>5, <3>1
  <2>7. CASE ExtractNothing(x)
    BY <1>8, <2>7 DEF ExtractNothing
  <2>8. CASE ExtractSubject(x)
    BY <1>4, <1>8, <2>8 DEF ExtractSubject
  <2>9. CASE FromRequestParts(x)
    BY <1>4, <1>8, <2>9 DEF FromRequestParts
  <2>10. CASE HandlerEnds(x)
    BY <1>4, <2>10 DEF HandlerEnds
  <2> QED
    BY <1>9, <2>1, <2>2, <2>3, <2>4, <2>5, <2>6, <2>7, <2>8, <2>9, <2>10 DEF Progress
<1>10. ASSUME NEW x \in Requests, NEW h \in Headers, Arrive(x, h) PROVE FALSE
  <2> DEFINE after == [Idle EXCEPT !.stage = "waiting", !.header = h,
                                   !.ever = granted, !.always = granted]
  <2>1. after.answer = NoAnswer /\ Step(x, after)
    BY <1>10 DEF Arrive, Idle
  <2> HIDE DEF after
  <2> QED
    BY <1>1, <1>3, <2>1
<1>11. ASSUME NEW x \in Requests, BecomesReady(x) PROVE FALSE
  <2> DEFINE next == req[x].at + 1
             held == IF stack[next].kind = "limit" THEN req[x].holds \cup {next} ELSE req[x].holds
  <2>1. Step(x, [req[x] EXCEPT !.stage = "called", !.at = next, !.holds = held])
    BY <1>11 DEF BecomesReady
  <2> HIDE DEF next, held
  <2>2. [req[x] EXCEPT !.stage = "called", !.at = next, !.holds = held].answer = req[x].answer
    BY <1>6 DEF RequestType
  <2> QED
    BY <1>5, <2>1, <2>2
<1>12. ASSUME NEW x \in Requests, ReadinessFails(x) \/ Dropped(x) PROVE x = r /\ Cause(x)
  BY <1>4, <1>12 DEF ReadinessFails, Dropped
<1>13. ASSUME NEW pair \in EditablePairs, Edit(pair) PROVE FALSE
  <2>1. PICK edited : req' = [x \in Requests |->
                        IF Active(x)
                        THEN [req[x] EXCEPT !.ever = @ \cup edited, !.always = @ \cap edited]
                        ELSE req[x]]
    BY <1>13 DEF Edit
  <2> DEFINE ever == req[r].ever \cup edited
             always == req[r].always \cap edited
  <2>2. req'[r] = [req[r] EXCEPT !.ever = ever, !.always = always]
    BY <1>1, <2>1
  <2> HIDE DEF ever, always
  <2>3. req'[r].answer = req[r].answer
    BY <1>6, <2>2 DEF RequestType
  <2> QED
    BY <1>2, <2>3 DEF a
<1>14. ASSUME NEW token \in Expiring, Expire(token) PROVE FALSE
  BY <1>2, <1>14 DEF Expire, a
<1>15. ASSUME UNCHANGED vars PROVE FALSE
  BY <1>2, <1>15 DEF vars, a
<1>16. PICK x \in Requests : x = r /\ Cause(x)
  BY <1>9, <1>10, <1>11, <1>12, <1>13, <1>14, <1>15 DEF Next
<1> QED
  BY <1>1, <1>16

LEMMA DecodeFails ==
  ASSUME NEW header, NEW state, DecodeError(header, state) # NoAnswer, header \notin expired
  PROVE  ~ Verified(header, state)
<1> SUFFICES ASSUME Verified(header, state) PROVE FALSE
  OBVIOUS
<1>1. header # Absent /\ header # NotBearer /\ SigningKey[header] = state.key
  BY TokensAssumption DEF Verified
<1>2. ClaimedSubject[header][state.claims] \notin {Undecodable, BadId}
  BY TokensAssumption DEF Verified
<1> QED
  BY <1>1, <1>2 DEF DecodeError

LEMMA SubjectForType ==
  ASSUME NEW ext \in [ExtensionTypes -> Subjects \cup {NoOne}], NEW kind
  PROVE  SubjectFor(kind, ext) \in Subjects \cup {NoOne}
<1>1. ContextOf(kind) \in ExtensionTypes /\ SubjectOf(kind) \in ExtensionTypes
  BY DEF ContextOf, SubjectOf, ExtensionTypes, TenantContexts, PlatformContexts
<1> QED
  BY <1>1 DEF SubjectFor

(* An extractor does not turn away whom a JWT layer of the same claims has  *)
(* authenticated (AuthenticatedStaysSo), for any stack: it finds what that  *)
(* layer has written and does not look at the token again.                  *)
THEOREM AuthenticatedStay == Spec => AuthenticatedStaysSo
<1> DEFINE Stays ==
      \A r \in Requests : Responds(r, AuthErrors) /\ req[r].at = Len(stack) =>
        \A j \in Of({"jwt"}) : stack[j].state.claims # Bottom.state.claims
<1>1. Inv /\ [Next]_vars => Stays
  <2> SUFFICES ASSUME Inv, [Next]_vars, NEW r \in Requests, Responds(r, AuthErrors),
                      req[r].at = Len(stack), NEW j \in Of({"jwt"}),
                      stack[j].state.claims = Bottom.state.claims
               PROVE  FALSE
    OBVIOUS
  <2>1. TypeOK /\ AuthErrors \in SUBSET Answers
    BY DEF Inv, Answers
  <2>2. \/ Authenticate(r)
        \/ FromRequestParts(r) /\ req[r].ext[Layer(r).state.claims] = NoOne
    BY <2>1, RespondsBy DEF AuthErrors
  <2>3. req[r].stage = "called" /\ Layer(r).kind \in {"jwt", "handler"}
    BY <2>2 DEF Authenticate, FromRequestParts, Extracts, Called
  <2>4. /\ Good(req[r]) /\ IsActive(req[r]) /\ Layer(r) = stack[req[r].at]
        /\ Passed(req[r]) = req[r].at - 1 /\ Len(stack) \in Nat
        /\ Layer(r).kind # "handler" => req[r].at < Len(stack)
    BY <2>3, AtLayer
  <2>5. Layer(r).kind = "handler" /\ Layer(r) = Bottom
    BY <2>3, <2>4 DEF Bottom
  <2>6. req[r].ext[Bottom.state.claims] = NoOne
    BY <2>2, <2>5 DEF Authenticate, Called
  <2>7. j \in 1 .. Len(stack) - 1 /\ stack[j].kind = "jwt"
    BY <2>1, <2>4, LayerType DEF Of
  <2>8. PassedRightly(req[r], j)
    BY <2>4, <2>7 DEF Good
  <2> QED
    BY <2>3, <2>6, <2>7, <2>8 DEF PassedRightly
<1>2. Inv /\ [Next]_vars => [Stays]_vars
  BY <1>1
<1> QED
  BY Invariance, <1>2, PTL DEF Spec, AuthenticatedStaysSo

(* A status tells why (StatusTellsWhy), whatever is edited and whichever    *)
(* tokens expire meanwhile: 403 only of an identity that lacked what it was *)
(* asked for, 401 only of a request without an identity or of a token that  *)
(* does not verify or has expired.                                          *)
THEOREM StatusIsTrue == Spec => StatusTellsWhy
<1> DEFINE Told(r) ==
      /\ Responds(r, {"forbidden"}) =>
           \E i \in Authorizing :
             /\ Identity(i, req[r].header) \in Subjects
             /\ <<Identity(i, req[r].header), stack[i].permission>> \notin req[r].always
      /\ Responds(r, {"unauthenticated"}) =>
           \E i \in Authorizing : Identity(i, req[r].header) = NoOne
      /\ Responds(r, AuthErrors) =>
           \/ req[r].header \in expired
           \/ \E j \in Of({"jwt", "handler"}) : ~ Verified(req[r].header, stack[j].state)
<1>1. ASSUME Inv, [Next]_vars, NEW r \in Requests PROVE Told(r)
  <2>1. TypeOK
    BY <1>1 DEF Inv
  <2>2. ASSUME Responds(r, {"forbidden"})
        PROVE  \E i \in Authorizing :
                 /\ Identity(i, req[r].header) \in Subjects
                 /\ <<Identity(i, req[r].header), stack[i].permission>> \notin req[r].always
    <3>1. Decide(r) /\ Asked(r) \notin granted
      <4>1. {"forbidden"} \in SUBSET Answers
        BY DEF Answers
      <4> QED
        BY <1>1, <2>1, <2>2, <4>1, RespondsBy DEF DecodeError, NoAnswer
    <3>2. req[r].stage = "deciding"
      BY <3>1 DEF Decide
    <3>3. /\ Good(req[r]) /\ IsActive(req[r]) /\ req[r] \in RequestType
          /\ req[r].at \in 1 .. Len(stack) /\ Layer(r) = stack[req[r].at]
      BY <1>1, <3>2, AtLayer
    <3>4. /\ Layer(r).kind \in {"tenant", "platform"}
          /\ SubjectFor(Layer(r).kind, req[r].ext) # NoOne
          /\ req[r].always \subseteq granted
      BY <3>2, <3>3 DEF Good
    <3>5. SubjectFor(Layer(r).kind, req[r].ext) = Identity(req[r].at, req[r].header)
      BY <1>1, <3>2, <3>3, <3>4, SubjectIsIdentity
    <3>6. Identity(req[r].at, req[r].header) \in Subjects
      BY <3>3, <3>4, <3>5, SubjectForType DEF RequestType
    <3>7. req[r].at \in Authorizing
      BY <3>3, <3>4 DEF Authorizing, Of
    <3>8. <<Identity(req[r].at, req[r].header), Layer(r).permission>> \notin req[r].always
      BY <3>1, <3>4, <3>5 DEF Asked
    <3> QED
      BY <3>3, <3>6, <3>7, <3>8
  <2>3. ASSUME Responds(r, {"unauthenticated"})
        PROVE  \E i \in Authorizing : Identity(i, req[r].header) = NoOne
    <3>1. Authorize(r) /\ SubjectFor(Layer(r).kind, req[r].ext) = NoOne
      <4>1. {"unauthenticated"} \in SUBSET Answers
        BY DEF Answers
      <4> QED
        BY <1>1, <2>1, <2>3, <4>1, RespondsBy DEF DecodeError, NoAnswer
    <3>2. req[r].stage = "called" /\ Layer(r).kind \in {"tenant", "platform"}
      BY <3>1 DEF Authorize, Called
    <3>3. req[r].at \in 1 .. Len(stack) /\ Layer(r) = stack[req[r].at]
      BY <1>1, <3>2, AtLayer
    <3>4. SubjectFor(Layer(r).kind, req[r].ext) = Identity(req[r].at, req[r].header)
      BY <1>1, <3>2, <3>3, SubjectIsIdentity
    <3>5. req[r].at \in Authorizing
      BY <3>2, <3>3 DEF Authorizing, Of
    <3> QED
      BY <3>1, <3>4, <3>5
  <2>4. ASSUME Responds(r, AuthErrors), req[r].header \notin expired
        PROVE  \E j \in Of({"jwt", "handler"}) : ~ Verified(req[r].header, stack[j].state)
    <3>1. \/ Authenticate(r) /\ DecodeError(req[r].header, Layer(r).state) # NoAnswer
          \/ FromRequestParts(r) /\ DecodeError(req[r].header, Layer(r).state) # NoAnswer
      <4>1. AuthErrors \in SUBSET Answers
        BY DEF Answers
      <4> QED
        BY <1>1, <2>1, <2>4, <4>1, RespondsBy DEF AuthErrors
    <3>2. req[r].stage = "called" /\ Layer(r).kind \in {"jwt", "handler"}
      BY <3>1 DEF Authenticate, FromRequestParts, Extracts, Called
    <3>3. req[r].at \in 1 .. Len(stack) /\ Layer(r) = stack[req[r].at]
      BY <1>1, <3>2, AtLayer
    <3>4. ~ Verified(req[r].header, Layer(r).state)
      BY <2>4, <3>1, DecodeFails
    <3>5. req[r].at \in Of({"jwt", "handler"})
      BY <3>2, <3>3 DEF Of
    <3> QED
      BY <3>3, <3>4, <3>5
  <2> QED
    BY <2>2, <2>3, <2>4
<1>2. Inv /\ [Next]_vars => [\A r \in Requests : Told(r)]_vars
  BY <1>1
<1> QED
  BY Invariance, <1>2, PTL DEF Spec, StatusTellsWhy

-------------------------------------------------------------------------------
(* Whom the layers have asked about, and whom the handler sees.             *)

(* A request's tenant layers have asked about whom the layers above them    *)
(* say it is from; what lies at a claims type is what the token says there. *)
Asks(q) ==
  IsActive(q) =>
    /\ \A x \in q.asked : \E i \in Of({"tenant"}) :
         i <= Passed(q) /\ x = Identity(i, q.header)
    /\ \A claims \in ClaimTypes :
         q.ext[claims] # NoOne => q.ext[claims] = ClaimedSubject[q.header][claims]
    /\ q.stage = "handling" =>
         /\ Bottom.extractor = "AuthSubject" =>
              q.seen = LastWritten(Len(stack), "AuthSubject", q.header)
         /\ Bottom.extractor = "JwtAuth" =>
              q.seen = ClaimedSubject[q.header][Bottom.state.claims]

AskInv == \A r \in Requests : Asks(req[r])

LEMMA SameAsks ==
  ASSUME UNCHANGED stack
  PROVE  \A q : Asks(q)' <=> Asks(q)
BY SameStack DEF Asks, Bottom

LEMMA StepAsks ==
  ASSUME Inv, AskInv, NEW r \in Requests, NEW after, Step(r, after), Asks(after)
  PROVE  AskInv'
<1>1. /\ req' = [req EXCEPT ![r] = after] /\ UNCHANGED stack
      /\ req \in [Requests -> RequestType]
  BY DEF Step, Inv, TypeOK
<1>2. \A x \in Requests : Asks(req'[x])
  BY <1>1 DEF AskInv
<1> QED
  BY <1>1, <1>2, SameAsks DEF AskInv

LEMMA AnswerAsks ==
  ASSUME Inv, AskInv, NEW r \in Requests, NEW a, Answer(r, a)
  PROVE  AskInv'
<1> DEFINE after == [Idle EXCEPT !.stage = "answered", !.answer = a]
<1>1. after.stage = "answered"
  BY DEF Idle
<1>2. Step(r, after)
  BY DEF Answer
<1> HIDE DEF after
<1>3. Asks(after)
  BY <1>1 DEF Asks, IsActive
<1> QED
  BY <1>2, <1>3, StepAsks

(* A request that goes on with what it has been asked for and what lies at  *)
(* the claims types.                                                        *)
LEMMA GoOnAsks ==
  ASSUME Inv, AskInv, NEW r \in Requests, NEW after, Step(r, after), IsActive(req[r]),
         after.asked = req[r].asked, after.header = req[r].header,
         Passed(req[r]) <= Passed(after), Passed(req[r]) \in Int, Passed(after) \in Int,
         after.stage # "handling",
         \A claims \in ClaimTypes : after.ext[claims] = req[r].ext[claims]
  PROVE  AskInv'
<1>1. Asks(req[r])
  BY DEF AskInv
<1>2. \A i \in Of({"tenant"}) : i <= Passed(req[r]) => i <= Passed(after)
  BY DEF Of
<1>3. Asks(after)
  BY <1>1, <1>2 DEF Asks
<1> QED
  BY <1>3, StepAsks

LEMMA ArriveAsks ==
  ASSUME Inv, AskInv, NEW r \in Requests, NEW header \in Headers, Arrive(r, header)
  PROVE  AskInv'
<1> DEFINE after == [Idle EXCEPT !.stage = "waiting", !.header = header,
                                 !.ever = granted, !.always = granted]
<1>1. after.stage = "waiting" /\ after.asked = {} /\ after.ext = NoExtensions
  BY DEF Idle
<1>2. Step(r, after)
  BY DEF Arrive
<1> HIDE DEF after
<1>3. \A claims \in ClaimTypes : after.ext[claims] = NoOne
  BY <1>1 DEF NoExtensions, ExtensionTypes
<1>4. Asks(after)
  BY <1>1, <1>3 DEF Asks
<1> QED
  BY <1>2, <1>4, StepAsks

LEMMA ReadyAsks ==
  ASSUME Inv, AskInv, NEW r \in Requests, BecomesReady(r)
  PROVE  AskInv'
<1>1. /\ req[r] \in RequestType /\ req[r].stage = "waiting" /\ req[r].at \in Nat
      /\ IsActive(req[r])
  BY DEF BecomesReady, Inv, TypeOK, RequestType, IsActive
<1>2. PICK holds : Step(r, [req[r] EXCEPT !.stage = "called", !.at = req[r].at + 1,
                                          !.holds = holds])
  BY DEF BecomesReady
<1> DEFINE next == req[r].at + 1
           after == [req[r] EXCEPT !.stage = "called", !.at = next, !.holds = holds]
<1>3. Step(r, after)
  BY <1>2
<1>4. next \in Nat /\ next - 1 = req[r].at
  BY <1>1
<1> HIDE DEF next
<1>5. /\ after.stage = "called" /\ after.at = next /\ after.asked = req[r].asked
      /\ after.header = req[r].header /\ after.ext = req[r].ext
  BY <1>1 DEF RequestType
<1> HIDE DEF after
<1>6. Passed(req[r]) = req[r].at /\ Passed(after) = req[r].at
  BY <1>1, <1>4, <1>5 DEF Passed
<1> QED
  BY <1>1, <1>3, <1>5, <1>6, GoOnAsks

LEMMA AuthenticateAsks ==
  ASSUME Inv, AskInv, NEW r \in Requests, Authenticate(r)
  PROVE  AskInv'
<1> DEFINE k == req[r].at
           state == Layer(r).state
           error == DecodeError(req[r].header, state)
           subject == Decoded(req[r].header, state)
           ext == Authenticated(req[r].ext, state.claims, subject)
           after == [req[r] EXCEPT !.stage = "waiting", !.ext = ext]
<1>1. req[r].stage = "called" /\ Layer(r).kind = "jwt"
  BY DEF Authenticate, Called
<1>2. /\ TypeOK /\ req[r] \in RequestType /\ k \in 1 .. Len(stack) /\ IsActive(req[r])
      /\ Passed(req[r]) = k - 1 /\ Len(stack) \in Nat /\ state \in JwtStates
  BY <1>1, AtLayer, LayerFields
<1>3. CASE error # NoAnswer
  BY <1>3, AnswerAsks DEF Authenticate
<1>4. CASE error = NoAnswer
  <2>1. Step(r, after)
    BY <1>4 DEF Authenticate, CallInner
  <2>2. /\ req[r].ext \in [ExtensionTypes -> Subjects \cup {NoOne}]
        /\ subject = ClaimedSubject[req[r].header][state.claims]
        /\ state.claims \in ClaimTypes
    BY <1>2 DEF RequestType, Decoded, JwtStates
  <2>3. \A claims \in ClaimTypes :
          ext[claims] = IF claims = state.claims THEN subject ELSE req[r].ext[claims]
    <3> HIDE DEF subject, state
    <3>1. TenantContexts = {"AuthContext", "AuthSubject"} /\ ClaimTypes \subseteq ExtensionTypes
      BY DEF ExtensionTypes, TenantContexts
    <3> QED
      BY <2>2, <3>1, TypesAssumption DEF Authenticated
  <2> HIDE DEF ext, subject, state
  <2>4. /\ after.stage = "waiting" /\ after.at = k /\ after.asked = req[r].asked
        /\ after.header = req[r].header /\ after.ext = ext
    BY <1>2 DEF RequestType
  <2> HIDE DEF after
  <2>5. Passed(after) = k
    BY <2>4 DEF Passed
  <2>6. Asks(req[r])
    BY DEF AskInv
  <2>7. Asks(after)
    <3>1. \A i \in Of({"tenant"}) : i <= k - 1 => i <= k
      BY <1>2 DEF Of
    <3>2. \A x \in after.asked : \E i \in Of({"tenant"}) :
            i <= Passed(after) /\ x = Identity(i, after.header)
      BY <1>2, <2>4, <2>5, <2>6, <3>1 DEF Asks
    <3>3. \A claims \in ClaimTypes :
            after.ext[claims] # NoOne =>
              after.ext[claims] = ClaimedSubject[after.header][claims]
      BY <1>2, <2>2, <2>3, <2>4, <2>6 DEF Asks
    <3> QED
      BY <2>4, <3>2, <3>3 DEF Asks
  <2> QED
    BY <2>1, <2>7, StepAsks
<1> QED
  BY <1>3, <1>4

LEMMA AuthorizeAsks ==
  ASSUME Inv, AskInv, NEW r \in Requests, Authorize(r)
  PROVE  AskInv'
<1> DEFINE after == [req[r] EXCEPT !.stage = "deciding"]
<1>1. /\ req[r].stage = "called"
      /\ Answer(r, "unauthenticated") \/ Step(r, after)
  BY DEF Authorize, Called
<1>2. /\ req[r] \in RequestType /\ IsActive(req[r]) /\ req[r].at \in Nat
      /\ Passed(req[r]) = req[r].at - 1
  BY <1>1, AtLayer
<1>3. /\ after.stage = "deciding" /\ after.at = req[r].at /\ after.asked = req[r].asked
      /\ after.header = req[r].header /\ after.ext = req[r].ext
  BY <1>2 DEF RequestType
<1> HIDE DEF after
<1>4. Passed(after) = req[r].at - 1
  BY <1>3 DEF Passed
<1>5. CASE Step(r, after)
  BY <1>2, <1>3, <1>4, <1>5, GoOnAsks
<1> QED
  BY <1>1, <1>5, AnswerAsks

(* A platform's layer takes a request to come from the platform's staff.    *)
LEMMA PlatformIdentity ==
  ASSUME TypeOK, NEW k \in 1 .. Len(stack), stack[k].kind = "platform", NEW header
  PROVE  Identity(k, header) \in PlatformSubjects \cup {NoOne}
<1>1. ASSUME NEW what \in PlatformContexts
      PROVE  LastWritten(k, what, header) \in PlatformSubjects \cup {NoOne}
  <2>1. CASE Writers(k, what) = {}
    BY <2>1 DEF LastWritten
  <2>2. CASE Writers(k, what) # {}
    <3>1. PICK j \in Writers(k, what) : LastWritten(k, what, header) = Written(j, header)
      BY <2>2, LargestWriter DEF LastWritten
    <3>2. /\ j \in 1 .. Len(stack) /\ stack[j].kind = "insert" /\ stack[j].what = what
      BY <1>1, <3>1 DEF Writers, TenantContexts, PlatformContexts
    <3>3. stack[j].subject \in PlatformSubjects
      BY <1>1, <3>2, LayerType, LayerFields DEF TenantContexts, PlatformContexts
    <3> QED
      BY <3>1, <3>2, <3>3 DEF Written
  <2> QED
    BY <2>1, <2>2
<1>2. {ContextOf("platform"), SubjectOf("platform")} \subseteq PlatformContexts
  BY DEF ContextOf, SubjectOf, PlatformContexts
<1> QED
  BY <1>1, <1>2 DEF Identity

LEMMA DecideAsks ==
  ASSUME Inv, AskInv, NEW r \in Requests, Decide(r)
  PROVE  AskInv'
<1> DEFINE k == req[r].at
           asked == req[r].asked \cup ({Asked(r)[1]} \cap TenantSubjects)
           after == [req[r] EXCEPT !.stage = "waiting", !.asked = asked]
<1>1. /\ req[r].stage = "deciding"
      /\ Answer(r, "forbidden") \/ Step(r, after)
  BY DEF Decide
<1>2. /\ TypeOK /\ req[r] \in RequestType /\ k \in 1 .. Len(stack) /\ Len(stack) \in Nat
      /\ IsActive(req[r]) /\ Layer(r) = stack[k] /\ Passed(req[r]) = k - 1
      /\ stack[k].kind \in {"tenant", "platform"}
  BY <1>1, AtLayer DEF Good
<1>3. Asked(r)[1] = Identity(k, req[r].header)
  BY <1>1, <1>2, SubjectIsIdentity DEF Asked
<1>4. asked \subseteq req[r].asked \cup {Identity(k, req[r].header)}
      /\ (stack[k].kind = "platform" => asked = req[r].asked)
  <2>1. stack[k].kind = "platform" => Identity(k, req[r].header) \notin TenantSubjects
    BY <1>2, PlatformIdentity, SubjectsAssumption, NoOneAssumption DEF Subjects
  <2> QED
    BY <1>3, <2>1
<1> HIDE DEF asked
<1>5. /\ after.stage = "waiting" /\ after.at = k /\ after.asked = asked
      /\ after.header = req[r].header /\ after.ext = req[r].ext
  BY <1>2 DEF RequestType
<1> HIDE DEF after
<1>6. Passed(after) = k
  BY <1>5 DEF Passed
<1>7. Asks(req[r])
  BY DEF AskInv
<1>8. ASSUME NEW x \in after.asked
      PROVE  \E i \in Of({"tenant"}) : i <= Passed(after) /\ x = Identity(i, after.header)
  <2>1. CASE x \in req[r].asked
    <3>1. PICK i \in Of({"tenant"}) : i <= k - 1 /\ x = Identity(i, req[r].header)
      BY <1>2, <1>7, <2>1 DEF Asks
    <3>2. i <= k
      BY <1>2, <3>1 DEF Of
    <3> QED
      BY <1>5, <1>6, <3>1, <3>2
  <2>2. CASE x = Identity(k, req[r].header) /\ stack[k].kind = "tenant"
    <3>1. k \in Of({"tenant"}) /\ k <= k
      BY <1>2, <2>2 DEF Of
    <3> QED
      BY <1>5, <1>6, <2>2, <3>1
  <2> QED
    BY <1>2, <1>4, <1>5, <2>1, <2>2
<1>9. Asks(after)
  BY <1>2, <1>5, <1>7, <1>8 DEF Asks
<1> QED
  BY <1>1, <1>9, StepAsks, AnswerAsks

LEMMA InsertAsks ==
  ASSUME Inv, AskInv, NEW r \in Requests, Insert(r)
  PROVE  AskInv'
<1> DEFINE k == req[r].at
           ext == [req[r].ext EXCEPT ![Layer(r).what] = Layer(r).subject]
           after == [req[r] EXCEPT !.stage = "waiting", !.ext = ext]
<1>1. req[r].stage = "called" /\ Layer(r).kind = "insert" /\ Step(r, after)
  BY DEF Insert, Called, CallInner
<1>2. /\ req[r] \in RequestType /\ k \in Nat /\ IsActive(req[r]) /\ Passed(req[r]) = k - 1
      /\ Layer(r).what \in Contexts
  BY <1>1, AtLayer, LayerFields DEF Contexts
<1>3. \A claims \in ClaimTypes : ext[claims] = req[r].ext[claims]
  <2>1. req[r].ext \in [ExtensionTypes -> Subjects \cup {NoOne}]
    BY <1>2 DEF RequestType
  <2>2. ClaimTypes \subseteq ExtensionTypes /\ ClaimTypes \cap Contexts = {}
    BY TypesAssumption DEF ExtensionTypes, Contexts
  <2> QED
    BY <1>2, <2>1, <2>2
<1> HIDE DEF ext
<1>4. /\ after.stage = "waiting" /\ after.at = k /\ after.asked = req[r].asked
      /\ after.header = req[r].header /\ after.ext = ext
  BY <1>2 DEF RequestType
<1> HIDE DEF after
<1>5. Passed(after) = k
  BY <1>4 DEF Passed
<1> QED
  BY <1>1, <1>2, <1>3, <1>4, <1>5, GoOnAsks

LEMMA PassLimitAsks ==
  ASSUME Inv, AskInv, NEW r \in Requests, PassLimit(r)
  PROVE  AskInv'
<1> DEFINE k == req[r].at
           next == k + 1
           after == [req[r] EXCEPT !.at = next]
<1>1. req[r].stage = "called" /\ Step(r, after)
  BY DEF PassLimit, Called
<1>2. req[r] \in RequestType /\ k \in Nat /\ IsActive(req[r]) /\ Passed(req[r]) = k - 1
  BY <1>1, AtLayer
<1>3. next \in Nat /\ next = k + 1
  BY <1>2
<1> HIDE DEF next
<1>4. /\ after.stage = "called" /\ after.at = next /\ after.asked = req[r].asked
      /\ after.header = req[r].header /\ after.ext = req[r].ext
  BY <1>1, <1>2 DEF RequestType
<1> HIDE DEF after
<1>5. Passed(after) = k
  BY <1>2, <1>3, <1>4 DEF Passed
<1> QED
  BY <1>1, <1>2, <1>4, <1>5, GoOnAsks

(* A handler is given what its extractor finds, or decodes again.           *)
LEMMA ExtractAsks ==
  ASSUME Inv, AskInv, NEW r \in Requests,
         ExtractNothing(r) \/ ExtractSubject(r) \/ FromRequestParts(r)
  PROVE  AskInv'
<1> DEFINE state == Layer(r).state
           existing == req[r].ext[state.claims]
           subject == Decoded(req[r].header, state)
           context == req[r].ext["AuthSubject"]
<1>1. req[r].stage = "called" /\ Layer(r).kind = "handler"
  BY DEF ExtractNothing, ExtractSubject, FromRequestParts, Extracts, Called
<1>2. /\ TypeOK /\ Good(req[r]) /\ req[r] \in RequestType /\ req[r].at \in 1 .. Len(stack)
      /\ IsActive(req[r]) /\ Layer(r) = stack[req[r].at] /\ Len(stack) \in Nat
      /\ Passed(req[r]) = req[r].at - 1 /\ Passed(req[r]) + 1 = req[r].at
      /\ state \in JwtStates
  BY <1>1, AtLayer, LayerFields
<1>3. req[r].at = Len(stack) /\ Layer(r) = Bottom
  BY <1>1, <1>2, LayerType DEF Bottom
<1>4. Asks(req[r]) /\ state.claims \in ClaimTypes
  BY <1>2 DEF AskInv, JwtStates
(* A handler that sees x, with the claims types as they were or with what   *)
(* the token says at one of them.                                           *)
<1>5. ASSUME NEW ext, NEW x, Handle(r, ext, x),
             \A claims \in ClaimTypes : \/ ext[claims] = req[r].ext[claims]
                                        \/ ext[claims] = ClaimedSubject[req[r].header][claims],
             Bottom.extractor = "AuthSubject" => x = context,
             Bottom.extractor = "JwtAuth" => x = ClaimedSubject[req[r].header][state.claims]
      PROVE  AskInv'
  <2> DEFINE after == [req[r] EXCEPT !.stage = "handling", !.ext = ext, !.seen = x]
  <2>1. Step(r, after)
    BY <1>5 DEF Handle
  <2>2. /\ after.stage = "handling" /\ after.at = req[r].at /\ after.asked = req[r].asked
        /\ after.header = req[r].header /\ after.ext = ext /\ after.seen = x
    BY <1>2 DEF RequestType
  <2> HIDE DEF after
  <2>3. Passed(after) = Passed(req[r])
    BY <1>2, <2>2 DEF Passed
  <2>4. context = LastWritten(Len(stack), "AuthSubject", req[r].header)
    <3>1. "AuthSubject" \in Contexts
      BY DEF Contexts, TenantContexts
    <3> QED
      BY <1>1, <1>2, <1>3, <3>1 DEF Good
  <2> HIDE DEF context
  <2>5. \A q \in req[r].asked : \E i \in Of({"tenant"}) :
          i <= Passed(req[r]) /\ q = Identity(i, req[r].header)
    BY <1>2, <1>4 DEF Asks
  <2>6. \A claims \in ClaimTypes :
          ext[claims] # NoOne => ext[claims] = ClaimedSubject[req[r].header][claims]
    BY <1>2, <1>4, <1>5 DEF Asks
  <2>7. Asks(after)
    BY <1>3, <1>5, <2>2, <2>3, <2>4, <2>5, <2>6 DEF Asks
  <2> QED
    BY <2>1, <2>7, StepAsks
<1>6. CASE ExtractNothing(r)
  <2>1. Bottom.extractor = "none" /\ Handle(r, req[r].ext, NoOne)
    BY <1>3, <1>6 DEF ExtractNothing, Extracts
  <2> QED
    BY <1>5, <2>1
<1>7. CASE ExtractSubject(r)
  <2>1. Bottom.extractor = "AuthSubject"
    BY <1>3, <1>7 DEF ExtractSubject, Extracts
  <2>2. Answer(r, "missing_extension") \/ Handle(r, req[r].ext, context)
    BY <1>7 DEF ExtractSubject
  <2> QED
    BY <1>5, <2>1, <2>2, AnswerAsks
<1>8. CASE FromRequestParts(r)
  <2>1. Bottom.extractor = "JwtAuth"
    BY <1>3, <1>8 DEF FromRequestParts, Extracts
  <2>2. \/ existing # NoOne /\ Handle(r, req[r].ext, existing)
        \/ Handle(r, Authenticated(req[r].ext, state.claims, subject), subject)
        \/ \E a : Answer(r, a)
    BY <1>8 DEF FromRequestParts
  <2>3. CASE existing # NoOne /\ Handle(r, req[r].ext, existing)
    <3>1. existing = ClaimedSubject[req[r].header][state.claims]
      BY <1>2, <1>4, <2>3 DEF Asks
    <3> QED
      BY <1>5, <2>1, <2>3, <3>1
  <2>4. CASE Handle(r, Authenticated(req[r].ext, state.claims, subject), subject)
    <3>1. subject = ClaimedSubject[req[r].header][state.claims]
      BY DEF Decoded
    <3>2. req[r].ext \in [ExtensionTypes -> Subjects \cup {NoOne}]
      BY <1>2 DEF RequestType
    <3> DEFINE ext == Authenticated(req[r].ext, state.claims, subject)
    <3>3. \A claims \in ClaimTypes :
            ext[claims] = IF claims = state.claims THEN subject ELSE req[r].ext[claims]
      <4> HIDE DEF subject, state
      <4>1. TenantContexts = {"AuthContext", "AuthSubject"}
            /\ ClaimTypes \subseteq ExtensionTypes
        BY DEF ExtensionTypes, TenantContexts
      <4> QED
        BY <1>4, <3>2, <4>1, TypesAssumption DEF Authenticated
    <3> HIDE DEF ext
    <3>4. Handle(r, ext, subject)
      BY <2>4 DEF ext
    <3> HIDE DEF subject, state
    <3> QED
      BY <1>5, <2>1, <3>1, <3>3, <3>4
  <2> QED
    BY <2>2, <2>3, <2>4, AnswerAsks
<1> QED
  BY <1>6, <1>7, <1>8

LEMMA EditAsks ==
  ASSUME Inv, AskInv, NEW pair, Edit(pair)
  PROVE  AskInv'
<1>1. ASSUME NEW r \in Requests
      PROVE  /\ req'[r].stage = req[r].stage /\ req'[r].at = req[r].at
             /\ req'[r].header = req[r].header /\ req'[r].ext = req[r].ext
             /\ req'[r].asked = req[r].asked /\ req'[r].seen = req[r].seen
  <2>1. PICK ever, always :
          req'[r] = [req[r] EXCEPT !.ever = ever, !.always = always] \/ req'[r] = req[r]
    BY DEF Edit
  <2>2. req[r] \in RequestType
    BY DEF Inv, TypeOK
  <2> QED
    BY <2>1, <2>2 DEF RequestType
<1>2. \A r \in Requests : Asks(req'[r]) <=> Asks(req[r])
  BY <1>1 DEF Asks, IsActive, Passed
<1>3. UNCHANGED stack
  BY DEF Edit
<1> QED
  BY <1>2, <1>3, SameAsks DEF AskInv

LEMMA NextAsks == Inv /\ AskInv /\ [Next]_vars => AskInv'
<1> SUFFICES ASSUME Inv, AskInv, [Next]_vars PROVE AskInv'
  OBVIOUS
<1>1. ASSUME NEW r \in Requests,
             EngineFails(r) \/ HandlerEnds(r) \/ Dropped(r) \/ ReadinessFails(r)
      PROVE  AskInv'
  BY <1>1, AnswerAsks DEF EngineFails, HandlerEnds, Dropped, ReadinessFails
<1>2. ASSUME NEW r \in Requests, Progress(r) PROVE AskInv'
  BY <1>1, <1>2, AuthenticateAsks, AuthorizeAsks, DecideAsks, InsertAsks, PassLimitAsks,
     ExtractAsks DEF Progress
<1>3. ASSUME UNCHANGED <<stack, req>> PROVE AskInv'
  BY <1>3, SameAsks DEF AskInv
<1> QED
  BY <1>1, <1>2, <1>3, ArriveAsks, ReadyAsks, EditAsks DEF Next, Expire, vars

LEMMA AskInvariance == Spec => [](Inv /\ AskInv)
<1>1. Init => AskInv
  BY IdleType DEF Init, AskInv, Asks, IsActive
<1> QED
  BY <1>1, InitInv, NextInv, NextAsks, PTL DEF Spec

(* What was written last was written by one of the layers above.            *)
LEMMA WrittenBy ==
  ASSUME NEW i \in Nat, NEW what, NEW header, Writers(i, what) # {}
  PROVE  \E j \in Writers(i, what) : LastWritten(i, what, header) = Written(j, header)
BY LargestWriter DEF LastWritten

(* With one source of identity the handler sees whom every tenant layer has *)
(* asked the engine about, in whatever stack.                               *)
THEOREM HandlerSeesAuthorized == Spec => []SeesAuthorized
<1>1. Inv /\ AskInv => SeesAuthorized
  <2> SUFFICES ASSUME Inv, AskInv, NEW r \in Requests, req[r].stage = "handling", OneSource,
                      NEW x \in req[r].asked
               PROVE  x = req[r].seen
    BY DEF SeesAuthorized
  <2> DEFINE h == req[r].header
             n == Len(stack)
             claimed == ClaimedSubject[h][Bottom.state.claims]
  <2>1. /\ TypeOK /\ Asks(req[r]) /\ IsActive(req[r]) /\ n \in Nat \ {0}
        /\ req[r].at = n /\ Passed(req[r]) = n - 1 /\ x \in TenantSubjects
    <3>1. TypeOK /\ Good(req[r]) /\ req[r] \in RequestType
      BY DEF Inv, TypeOK
    <3>2. n \in Nat \ {0}
      BY <3>1, StacksAssumption DEF TypeOK
    <3> QED
      BY <3>1, <3>2 DEF AskInv, Good, IsActive, Passed, RequestType
  <2>2. PICK i \in Of({"tenant"}) : i <= n - 1 /\ x = Identity(i, h)
    BY <2>1 DEF Asks
  <2>3. i \in 1 .. n - 1 /\ stack[i].kind = "tenant"
    BY <2>1, <2>2 DEF Of
  <2>4. x = IF Writers(i, "AuthContext") # {} THEN LastWritten(i, "AuthContext", h)
            ELSE LastWritten(i, "AuthSubject", h)
    BY <2>2, <2>3 DEF Identity, ContextOf, SubjectOf
  <2>5. ASSUME NEW j \in Writers(i, "AuthContext"), \A k \in Of({"insert"}) : stack[k].what # "AuthContext"
        PROVE  j \in Of({"jwt"}) /\ Written(j, h) = ClaimedSubject[h][stack[j].state.claims]
    BY <2>1, <2>3, <2>5 DEF Writers, Of, Written, Decoded
  <2>6. \A k \in Of({"insert"}) : stack[k].what # "AuthContext"
    BY DEF OneSource
  <2>7. CASE /\ Bottom.extractor = "JwtAuth"
             /\ \A k \in Of({"tenant"}) : \E j \in Of({"jwt"}) : j < k
             /\ \A j \in Of({"jwt"}) : stack[j].state.claims = Bottom.state.claims
    <3>1. Writers(i, "AuthContext") # {}
      <4>1. PICK j \in Of({"jwt"}) : j < i
        BY <2>2, <2>7
      <4>2. j \in Writers(i, "AuthContext")
        BY <2>1, <2>3, <4>1 DEF Writers, Of, TenantContexts
      <4> QED
        BY <4>2
    <3>2. PICK j \in Writers(i, "AuthContext") : x = Written(j, h)
      BY <2>3, <2>4, <3>1, WrittenBy
    <3>3. x = claimed
      BY <2>5, <2>6, <2>7, <3>2
    <3> QED
      BY <2>1, <2>7, <3>3 DEF Asks
  <2>8. CASE /\ Bottom.extractor = "AuthSubject"
             /\ \A j, k \in Of({"jwt", "insert"}) :
                  (stack[j].kind = "insert" /\ stack[j].what \in PlatformContexts) \/ j = k
    (* The layer that names the subject is the only one that writes any.      *)
    <3>1. \E what \in TenantContexts : \E j \in Writers(i, what) : x = Written(j, h)
                                       /\ j \in Writers(n, "AuthSubject")
      <4>1. CASE Writers(i, "AuthContext") # {}
        <5>1. PICK j \in Writers(i, "AuthContext") : x = Written(j, h)
          BY <2>3, <2>4, <4>1, WrittenBy
        <5>2. j \in Of({"jwt"})
          BY <2>5, <2>6, <5>1
        <5>3. j \in Writers(n, "AuthSubject")
          BY <2>1, <2>3, <5>1, <5>2 DEF Writers, Of, TenantContexts
        <5> QED
          BY <5>1, <5>3 DEF TenantContexts
      <4>2. CASE Writers(i, "AuthContext") = {}
        <5>1. Writers(i, "AuthSubject") # {}
          BY <2>1, <2>4, <4>2, NoOneAssumption DEF LastWritten, Subjects
        <5>2. PICK j \in Writers(i, "AuthSubject") : x = Written(j, h)
          BY <2>3, <2>4, <4>2, <5>1, WrittenBy
        <5>3. j \in Writers(n, "AuthSubject")
          BY <2>1, <2>3, <5>2 DEF Writers
        <5> QED
          BY <5>2, <5>3 DEF TenantContexts
      <4> QED
        BY <4>1, <4>2
    <3>2. PICK j \in Writers(n, "AuthSubject") : x = Written(j, h)
      BY <3>1
    <3>3. PICK k \in Writers(n, "AuthSubject") :
            LastWritten(n, "AuthSubject", h) = Written(k, h)
      BY <2>1, <3>2, WrittenBy
    <3>4. ASSUME NEW m \in Writers(n, "AuthSubject")
          PROVE  /\ m \in Of({"jwt", "insert"})
                 /\ ~ (stack[m].kind = "insert" /\ stack[m].what \in PlatformContexts)
      BY <2>1 DEF Writers, Of, PlatformContexts
    <3>5. j = k
      BY <2>8, <3>4
    <3>6. x = LastWritten(n, "AuthSubject", h)
      BY <3>2, <3>3, <3>5
    <3> QED
      BY <2>1, <2>8, <3>6 DEF Asks
  <2> QED
    BY <2>7, <2>8 DEF OneSource
<1> QED
  BY <1>1, AskInvariance, PTL
===============================================================================
