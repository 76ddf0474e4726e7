---------------------------- MODULE ApiExplorer ----------------------------
(***************************************************************************)
(* The API explorer of the console UI: choose an endpoint, edit the body    *)
(* that its template suggests, add session variables, call it.              *)
(*                                                                         *)
(* The endpoint can come with the URL.  It is then chosen in ngOnInit,       *)
(* before ngAfterViewInit has made the editors.                             *)
(***************************************************************************)
EXTENDS Naturals, SequencesExt

CONSTANTS Rpcs, Apis,   \* endpoints: the runtime's functions and the server's own
          Bodies,       \* endpoints that come with a template
          MaxCalls,     \* bound: calls under way
          MaxSent       \* bound: calls made

Methods == Rpcs \cup Apis
None == "none"

VARIABLES
    Serial,         \* the user waits for each answer
    stage,          \* "new", "init" (no editors yet), "ready"
    endpoint,       \* the URL's query parameter
    method,         \* the form
    body,           \* the request editor: whose template it shows, and whether it is well formed
    readOnly,       \* of the request editor
    addVars, vars,  \* session variables: shown, and whether the text is acceptable
    response,       \* the response editor: the call it is about (0: empty)
    error,
    calls,          \* calls under way
    sent,           \* calls made
    chosen          \* history: the endpoint was chosen on the page

all == <<Serial, stage, endpoint, method, body, readOnly, addVars, vars, response, error,
         calls, sent, chosen>>
request == <<endpoint, method, body, readOnly, chosen>>

TypeOK ==
    /\ Serial \in BOOLEAN
    /\ stage \in {"new", "init", "ready"}
    /\ endpoint \in Methods \cup {None} /\ method \in Methods \cup {None}
    /\ body \in [of: Methods \cup {None}, good: BOOLEAN] /\ readOnly \in BOOLEAN
    /\ addVars \in BOOLEAN /\ vars \in BOOLEAN /\ response \in 0 .. MaxSent /\ error \in BOOLEAN
    /\ calls \in Seq([n: 1 .. MaxSent, rpc: BOOLEAN, of: Methods]) /\ sent \in 0 .. MaxSent
    /\ chosen \in BOOLEAN

-----------------------------------------------------------------------------
isRpcEndpoint(m) == m \in Rpcs

\* Mutated: the editor stays as it was for a method without a template.
setupRequestBodyOld(m) ==
    IF stage # "ready" \/ m \notin Bodies THEN UNCHANGED <<body, readOnly>>
    ELSE body' = [of |-> m, good |-> TRUE] /\ readOnly' = FALSE
\* Without editors nothing happens.  Without a template the body is empty, and only
\* a function of the runtime can be given one.
setupRequestBody(m) ==
    IF stage # "ready" THEN UNCHANGED <<body, readOnly>>
    ELSE /\ body' = [of |-> m, good |-> TRUE]
         /\ readOnly' = (m \notin Bodies /\ ~isRpcEndpoint(m))

\* f.method.valueChanges, with updateQueryParam.
methodChanged(m) == method' = m /\ endpoint' = m /\ setupRequestBody(m)

\* ngOnInit with ApiExplorerEndpointsResolver: an endpoint of the URL that is unknown is ignored.
ngOnInit ==
    /\ stage = "new" /\ stage' = "init"
    /\ IF endpoint \in Methods
       THEN methodChanged(endpoint)
       ELSE UNCHANGED <<method, endpoint, body, readOnly>>
    /\ UNCHANGED <<Serial, addVars, vars, response, error, calls, sent, chosen>>

\* The editors are made: the request empty and read only, the variables empty.
ngAfterViewInit ==
    /\ stage = "init" /\ stage' = "ready"
    /\ body' = [of |-> None, good |-> TRUE] /\ readOnly' = TRUE
    /\ UNCHANGED <<Serial, endpoint, method, addVars, vars, response, error, calls, sent, chosen>>

MayAct == stage = "ready" /\ (Serial => calls = <<>>)

Choose(m) ==
    /\ MayAct /\ m # method
    /\ methodChanged(m) /\ chosen' = TRUE
    /\ UNCHANGED <<Serial, stage, addVars, vars, response, error, calls, sent>>

EditBody(good) ==
    /\ MayAct /\ ~readOnly /\ body.good # good
    /\ body' = [body EXCEPT !.good = good]
    /\ UNCHANGED <<Serial, stage, endpoint, method, readOnly, addVars, vars, response,
                   error, calls, sent, chosen>>

addSessionVars ==
    /\ MayAct /\ ~addVars
    /\ addVars' = TRUE /\ vars' = TRUE
    /\ UNCHANGED <<Serial, stage, request, response, error, calls, sent>>

EditVars(good) ==
    /\ MayAct /\ addVars /\ vars # good
    /\ vars' = good
    /\ UNCHANGED <<Serial, stage, request, addVars, response, error, calls, sent>>

\* A body or variables that cannot be read end the call before it is made.
sendRequest ==
    /\ MayAct /\ method # None
    /\ IF body.good /\ vars
       THEN /\ Len(calls) < MaxCalls /\ sent < MaxSent
            /\ calls' = Append(calls, [n |-> sent + 1, rpc |-> isRpcEndpoint(method), of |-> method])
            /\ sent' = sent + 1 /\ error' = FALSE
       ELSE error' = TRUE /\ UNCHANGED <<calls, sent>>
    /\ UNCHANGED <<Serial, stage, request, addVars, vars, response>>

\* The answer, or the error message that came as one.
Responded(k) ==
    /\ k \in DOMAIN calls
    /\ response' = calls[k].n
    /\ calls' = RemoveAt(calls, k)
    /\ UNCHANGED <<Serial, stage, request, addVars, vars, error, sent>>

\* The answer is not JSON: the editor keeps what it shows.
Malformed(k) ==
    /\ k \in DOMAIN calls
    /\ error' = TRUE
    /\ calls' = RemoveAt(calls, k)
    /\ UNCHANGED <<Serial, stage, request, addVars, vars, response, sent>>

Failed(k) ==
    /\ k \in DOMAIN calls
    /\ error' = TRUE /\ response' = 0
    /\ calls' = RemoveAt(calls, k)
    /\ UNCHANGED <<Serial, stage, request, addVars, vars, sent>>

-----------------------------------------------------------------------------
Init ==
    /\ Serial \in BOOLEAN
    /\ stage = "new" /\ endpoint \in Methods \cup {None} /\ method = None
    /\ body = [of |-> None, good |-> TRUE] /\ readOnly = TRUE
    /\ addVars = FALSE /\ vars = TRUE /\ response = 0 /\ error = FALSE
    /\ calls = <<>> /\ sent = 0 /\ chosen = FALSE

Next ==
    \/ ngOnInit \/ ngAfterViewInit \/ addSessionVars \/ sendRequest
    \/ \E m \in Methods : Choose(m)
    \/ \E good \in BOOLEAN : EditBody(good) \/ EditVars(good)
    \/ \E k \in DOMAIN calls : Responded(k) \/ Malformed(k) \/ Failed(k)

Spec == Init /\ [][Next]_all

-----------------------------------------------------------------------------
(* Properties.                                                             *)

\* The body that a call would send belongs to the endpoint it would be sent to, and
\* can be edited exactly if that endpoint takes one, once an endpoint has been chosen
\* on the page.  (With an endpoint from the URL the body stays empty and read only.)
\* And for a user who waits, a response that is shown without an error is that of the
\* last call, never one left over from an earlier call.
EditorsFitCall ==
    /\ chosen => /\ body.of = method /\ endpoint = method
                 /\ readOnly <=> method \notin Bodies \cup Rpcs
    /\ Serial /\ calls = <<>> /\ ~error => response = sent
=============================================================================
