------------------------------- MODULE OAuth -------------------------------
(***************************************************************************)
(* The authorization server of the gateway: dynamic client registration,   *)
(* the operator's password page, authorization codes bound to client,      *)
(* redirect, PKCE challenge and resource, and signed access tokens that no *)
(* table remembers. Handlers run concurrently; each database call holds    *)
(* the store's mutex, and nothing spans two of them.                       *)
(***************************************************************************)
EXTENDS Naturals, FiniteSets

CONSTANTS
    TokenHandlers,   \* concurrent requests to /oauth/token
    ClientIds, CodeIds, \* the random identifiers drawn, in order
    Proofs,          \* what a code is bound to besides: redirect and challenge
    Origins,         \* base URLs a request may resolve to
    ResourceKinds,   \* "root" is the origin itself, "mcp" its /mcp resource
    FixedOrigin,     \* the configured server URL, or "none"
    MaxClients, CodeTtl, TokenTtl, MaxClock

ASSUME OAuthSizes ==
    /\ ClientIds \subseteq Nat /\ 1 \in ClientIds /\ CodeIds \subseteq Nat
    /\ FixedOrigin \in Origins \cup {"none"} /\ ResourceKinds \subseteq {"root", "mcp"}
    /\ {MaxClients, CodeTtl, TokenTtl, MaxClock} \subseteq Nat

VARIABLES
    client,      \* oauth_clients: auth method per registered client
    code,        \* oauth_codes: the rows
    granted,     \* what the operator approved, per code
    tokens,      \* the access tokens in circulation, with the code they came from
    redemption,  \* what each token handler is doing
    guesses,     \* bindings compared so far, per code
    clock

oauthVars == <<client, code, granted, tokens, redemption, guesses, clock>>

AuthMethods == {"none", "secret"}
NoRow == [client |-> 0]
Waiting == [pc |-> "waiting"]

OAuthInit ==
    /\ client = [c \in ClientIds |-> IF c = 1 THEN "secret" ELSE "absent"]
    /\ code = [d \in CodeIds |-> NoRow]
    /\ granted = [d \in CodeIds |-> NoRow]
    /\ tokens = {}
    /\ redemption = [h \in TokenHandlers |-> Waiting]
    /\ guesses = [d \in CodeIds |-> 0]
    /\ clock = 0

Registered == {c \in ClientIds : client[c] # "absent"}
FreshIds(used, all) == {c \in all \ used : \A d \in all \ used : c <= d}

(* base_url and resolve_base_url: a configured origin wins over whatever   *)
(* host and protocol the request names.                                    *)
BaseOf(named) == IF FixedOrigin # "none" THEN FixedOrigin ELSE named

(* resource_matches: the origin itself, or its /mcp resource.              *)
ResourceMatches(base, resource, allowMcp) ==
    resource.origin = base /\ (resource.kind = "root" \/ (allowMcp /\ resource.kind = "mcp"))

(* register_client: the count and the insert under one lock.               *)
Register(method) ==
    /\ Cardinality(Registered) < MaxClients
    /\ \E c \in FreshIds(Registered, ClientIds) :
        client' = [client EXCEPT ![c] = method]
    /\ UNCHANGED <<code, granted, tokens, redemption, guesses, clock>>

PurgedEarly(rows) == [d \in CodeIds |-> IF rows[d] # NoRow /\ rows[d].expires <= clock THEN NoRow ELSE rows[d]]

(* save_code drops the rows whose time is over.                            *)
Purged(rows) == [d \in CodeIds |-> IF rows[d] # NoRow /\ rows[d].expires < clock THEN NoRow ELSE rows[d]]

UsedCodes == {d \in CodeIds : granted[d] # NoRow}

(* authorize_mcp with the operator's password: the request is validated    *)
(* against the client's registration and a code is saved.                  *)
Authorize(c, proof, named, resource) ==
    /\ c \in Registered
    /\ ResourceMatches(BaseOf(named), resource, TRUE)
    /\ \E d \in FreshIds(UsedCodes, CodeIds) :
        LET row == [client |-> c, proof |-> proof, resource |-> resource, expires |-> clock + CodeTtl]
        IN /\ code' = [Purged(code) EXCEPT ![d] = row]
           /\ granted' = [granted EXCEPT ![d] = row]
    /\ UNCHANGED <<client, tokens, redemption, guesses, clock>>

(* authenticate_client: the method presented must be the registered one,   *)
(* a secret must be the client's.                                          *)
Authenticates(c, presented) == c \in Registered /\ client[c] = presented

(* exchange_mcp_code up to client authentication. The request's other      *)
(* parameters are first read after the code is consumed and chosen there.  *)
PresentCode(h, c, presented, d) ==
    /\ redemption[h].pc = "waiting" /\ d \in UsedCodes
    /\ Authenticates(c, presented)
    /\ redemption' = [redemption EXCEPT ![h] =
            [pc |-> "consume", client |-> c, code |-> d, row |-> NoRow]]
    /\ UNCHANGED <<client, code, granted, tokens, guesses, clock>>

Holding(h, d) == [redemption[h] EXCEPT !.pc = "bind", !.row = code[d]]

(* consume_code: read and delete in one transaction, before the binding is *)
(* looked at.                                                              *)
ConsumeCode(h) ==
    /\ redemption[h].pc = "consume"
    /\ LET d == redemption[h].code
       IN /\ redemption' = [redemption EXCEPT ![h] =
                IF code[d] = NoRow THEN Waiting ELSE Holding(h, d)]
          /\ code' = [code EXCEPT ![d] = NoRow]
    /\ UNCHANGED <<client, granted, tokens, guesses, clock>>

(* The five facts and the expiry of the consumed row.                      *)
Bound(x, proof, base, resource) ==
    /\ x.row.expires >= clock
    /\ x.row.client = x.client
    /\ x.row.proof = proof
    /\ x.row.resource = resource
    /\ ResourceMatches(base, resource, TRUE)

(* The rest of exchange_mcp_code: a token for the client, issued by this   *)
(* origin for the code's resource.                                         *)
BindCode(h, proof, named, resource) ==
    /\ redemption[h].pc = "bind"
    /\ LET x == redemption[h]
           base == BaseOf(named)
       IN /\ tokens' = IF ~Bound(x, proof, base, resource) THEN tokens ELSE tokens \cup
                {[client |-> x.client, issuer |-> base, audience |-> resource,
                  expires |-> clock + TokenTtl, from |-> x.code, proof |-> proof]}
          /\ guesses' = [guesses EXCEPT ![x.code] = @ + 1]
    /\ redemption' = [redemption EXCEPT ![h] = Waiting]
    /\ UNCHANGED <<client, code, granted, clock>>

(* validate_mcp_authorization_header: signature, issuer, audience, expiry  *)
(* and a client that still exists.                                         *)
TokenAccepted(t, named) ==
    /\ t.issuer = BaseOf(named) /\ ResourceMatches(BaseOf(named), t.audience, TRUE)
    /\ t.expires >= clock /\ t.client \in Registered

Tick ==
    /\ clock < MaxClock /\ clock' = clock + 1
    /\ UNCHANGED <<client, code, granted, tokens, redemption, guesses>>

(* A restart loses the requests in progress; clients and codes are stored. *)
GatewayRestarts ==
    /\ redemption' = [h \in TokenHandlers |-> Waiting]
    /\ UNCHANGED <<client, code, granted, tokens, guesses, clock>>

Resources == [origin : Origins, kind : ResourceKinds]

OAuthNext ==
    \/ \E m \in AuthMethods : Register(m)
    \/ \E c \in ClientIds, p \in Proofs, o \in Origins, r \in Resources : Authorize(c, p, o, r)
    \/ \E h \in TokenHandlers, c \in ClientIds, m \in AuthMethods, d \in CodeIds : PresentCode(h, c, m, d)
    \/ \E h \in TokenHandlers : ConsumeCode(h)
    \/ \E h \in TokenHandlers, p \in Proofs, o \in Origins, r \in Resources : BindCode(h, p, o, r)
    \/ Tick
    \/ GatewayRestarts

OAuthSpec == OAuthInit /\ [][OAuthNext]_oauthVars

-----------------------------------------------------------------------------
(* A code buys one token at most, whatever the requests that present it at *)
(* once, and one comparison at most: a wrong verifier cannot be corrected. *)
CodeUsedOnce ==
    \A d \in CodeIds : guesses[d] <= 1 /\ Cardinality({t \in tokens : t.from = d}) <= 1

(* A request is let through only with what the operator approved: that     *)
(* client, redirect and verifier, for a resource of the very origin the    *)
(* request came to, within one token lifetime of the code's.               *)
TokensGranted ==
    \A t \in tokens, o \in Origins :
        LET g == granted[t.from]
        IN TokenAccepted(t, o) =>
            /\ g # NoRow /\ g.client = t.client /\ g.proof = t.proof
            /\ g.resource = t.audience /\ g.resource.origin = BaseOf(o)
            /\ clock <= g.expires + TokenTtl

(* The purge of old codes never takes one a client could still redeem.     *)
PurgeSparesLive ==
    [][\A d \in CodeIds :
        code[d] # NoRow /\ code'[d] = NoRow =>
            \/ code[d].expires < clock
            \/ \E h \in TokenHandlers : redemption[h].pc = "consume" /\ redemption'[h].pc = "bind"
      ]_oauthVars

(* A token is what the operator approved, a code buys one at most, and no  *)
(* code is purged that could still buy one (exchange_code, verify_token,   *)
(* purge).                                                                 *)
GrantsSound ==
    /\ [](CodeUsedOnce /\ TokensGranted)
    /\ PurgeSparesLive
=============================================================================
