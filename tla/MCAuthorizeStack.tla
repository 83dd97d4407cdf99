--------------------------- MODULE MCAuthorizeStack ---------------------------
(* An instance of AuthorizeStack for TLC.                                   *)
EXTENDS AuthorizeStack, TLC

CONSTANTS q1, q2, alice, bob, root, read, manage, key1, key2, good, other, torn, forged

MCSigningKey == (good :> key1) @@ (other :> key1) @@ (torn :> key1) @@ (forged :> key2)
(* The same token may name another subject to another type of claims.       *)
MCClaimedSubject ==
  (good :> [c \in ClaimTypes |-> alice])
  @@ (other :> [c \in ClaimTypes |-> IF c = "DefaultClaims" THEN bob ELSE alice])
  @@ (torn :> [c \in ClaimTypes |-> IF c = "DefaultClaims" THEN BadId ELSE Undecodable])
  @@ (forged :> [c \in ClaimTypes |-> alice])

Default == JwtAuthState("DefaultClaims", key1)
Custom == JwtAuthState("CustomClaims", key1)
Jwt == JwtAuthLayer(Default)
Reads == TenantAuthorizeLayer(read)
AlicesSubject == InsertLayer("AuthSubject", alice)

MCStacks ==
  {\* authenticate, limit, authorize, handle
   <<Jwt, LimitLayer(1), Reads, Handler("JwtAuth", Default)>>,
   \* the limit below the decision
   <<Jwt, Reads, LimitLayer(1), Handler("AuthSubject", Default)>>,
   \* limits at two depths: the outer permit is kept while the inner is waited for
   <<LimitLayer(2), Jwt, LimitLayer(1), Reads, Handler("JwtAuth", Default)>>,
   \* the application authenticates
   <<AlicesSubject, Reads, Handler("AuthSubject", Default)>>,
   \* and a JWT layer overrides it
   <<AlicesSubject, Jwt, Reads, Handler("AuthSubject", Default)>>,
   \* or the other way round: the context of the token stays in force
   <<Jwt, AlicesSubject, Reads, Handler("JwtAuth", Default)>>,
   \* two readings of one token
   <<JwtAuthLayer(Custom), Reads, Handler("JwtAuth", Default)>>,
   \* a platform's staff who show a tenant's token, and who show none that counts
   <<InsertLayer("PlatformAuthContext", root), PlatformAuthorizeLayer(manage), Jwt, Reads,
     Handler("none", Default)>>,
   <<InsertLayer("PlatformSubject", root), PlatformAuthorizeLayer(manage), Reads,
     Handler("none", Default)>>}

MCInitialGrants == {{<<alice, read>>, <<bob, read>>, <<root, manage>>}}
MCEditablePairs == {<<alice, read>>}
===============================================================================
