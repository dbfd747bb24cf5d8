------------------------------ MODULE ShortLinks -------------------------------
(***************************************************************************)
(* Links between two services and one table.  Requests to the              *)
(* urlshortener-service (LinkHandler, LinkService, LinkRepository) pick a  *)
(* random code and insert a row, again if the unique index refuses it;     *)
(* visitors of the redirect-service read the table by code.                *)
(*                                                                         *)
(* Requests run in as many handlers, of as many pods, as there are: they   *)
(* share nothing but the table.  A request is answered once; a client that *)
(* tries again is another request.                                         *)
(***************************************************************************)
EXTENDS Naturals, FiniteSets

CONSTANTS
    Request,      \* POST /api/v1/links
    Code,         \* what generateCode can return
    Url,          \* the URLs of the requests
    Refused,      \* those ShouldBindJSON or validateTargetURL refuses
    NotFound,     \* status 404 of a visit
    MaxAttempts,  \* MaxCodeAttempts
    MaxFaults     \* bound: queries that fail or whose answer is lost

ASSUME LinksAssumption ==
    /\ Refused \subseteq Url
    /\ NotFound \notin Url
    /\ MaxAttempts \in Nat \ {0}
    /\ MaxFaults \in Nat

VARIABLES
    links,        \* the links table: rows [code, url, by]
    pc,           \* per request: "idle", "generate", "insert" or "answered"
    url,          \* per request: the URL in its body
    attempt,      \* per request: attempts that met a used code
    code,         \* per request: the code generated last
    status,       \* per request: the HTTP status, 0 before the answer
    answers,      \* every <<code, answer>> a visitor got so far
    faults

request == <<pc, url, attempt, code, status>>
vars == <<links, request, answers, faults>>

Row == [code : Code, url : Url \ Refused, by : Request]

TypeOK ==
    /\ links \in SUBSET Row
    /\ pc \in [Request -> {"idle", "generate", "insert", "answered"}]
    /\ url \in [Request -> Url]
    /\ attempt \in [Request -> 0..MaxAttempts]
    /\ code \in [Request -> Code]
    /\ status \in [Request -> {0, 201, 400, 500, 503}]
    /\ answers \in SUBSET (Code \X (Url \cup {NotFound}))
    /\ faults \in Nat

\* A request's URL is in its body from the start; its first code is unknown.
Init ==
    /\ links = {}
    /\ pc = [q \in Request |-> "idle"]
    /\ url \in [Request -> Url]
    /\ attempt = [q \in Request |-> 0]
    /\ \E c \in Code : code = [q \in Request |-> c]
    /\ status = [q \in Request |-> 0]
    /\ answers = {}
    /\ faults = 0

Used(c) == \E row \in links : row.code = c

--------------------------------------------------------------------------------
(* Slips the definitions below could have been written with; the           *)
(* properties at the end tell each of them from the code.                  *)

\* A table without links_code_uidx.
InsertableAlways(q) == TRUE

\* Giving up one attempt early, or not at all.
LastAttemptEarly(q) == attempt[q] + 2 >= MaxAttempts
LastAttemptNever(q) == FALSE

\* Trying again after any error, though the row may have been written.
FailedKeepsTrying(q) ==
    /\ pc' = [pc EXCEPT ![q] = "generate"]
    /\ UNCHANGED status

\* A retry that does not count its attempts.
CodeUsedUncounted(q) ==
    /\ pc[q] = "insert"
    /\ Used(code[q])
    /\ pc' = [pc EXCEPT ![q] = "generate"]
    /\ UNCHANGED <<links, url, attempt, code, status, answers, faults>>

\* A RETURNING list the Scan cannot read: the row is there, the answer is 500.
InsertUnscannable(q) ==
    /\ pc[q] = "insert"
    /\ ~Used(code[q])
    /\ links' = links \cup {[code |-> code[q], url |-> url[q], by |-> q]}
    /\ pc' = [pc EXCEPT ![q] = "answered"]
    /\ status' = [status EXCEPT ![q] = 500]
    /\ UNCHANGED <<url, attempt, code, answers, faults>>

--------------------------------------------------------------------------------
(* POST /api/v1/links.                                                     *)

Reply(q, s) ==
    /\ pc' = [pc EXCEPT ![q] = "answered"]
    /\ status' = [status EXCEPT ![q] = s]

\* CreateLinkHandler binds the body, CreateLink validates the URL.
Begin(q) ==
    /\ pc[q] = "idle"
    /\ \/ /\ url[q] \in Refused
          /\ Reply(q, 400)
       \/ /\ url[q] \notin Refused
          /\ pc' = [pc EXCEPT ![q] = "generate"]
          /\ UNCHANGED status
    /\ UNCHANGED <<links, url, attempt, code, answers, faults>>

Failed(q) == Reply(q, 500)

\* generateCode: any code, used or not, or no randomness and status 500.
Generate(q) ==
    /\ pc[q] = "generate"
    /\ \/ /\ \E c \in Code : code' = [code EXCEPT ![q] = c]
          /\ pc' = [pc EXCEPT ![q] = "insert"]
          /\ UNCHANGED <<status, faults>>
       \/ /\ faults < MaxFaults
          /\ Reply(q, 500)
          /\ faults' = faults + 1
          /\ UNCHANGED code
    /\ UNCHANGED <<links, url, attempt, answers>>

\* The unique index decides, at the moment of the insert.
Insertable(q) == ~Used(code[q])

Stored(q) == links \cup {[code |-> code[q], url |-> url[q], by |-> q]}

InsertOK(q) ==
    /\ pc[q] = "insert"
    /\ Insertable(q)
    /\ links' = Stored(q)
    /\ Reply(q, 201)
    /\ UNCHANGED <<url, attempt, code, answers, faults>>

LastAttempt(q) == attempt[q] + 1 >= MaxAttempts

\* 23505 unique_violation: another code, until MaxCodeAttempts of them were used.
CodeUsed(q) ==
    /\ pc[q] = "insert"
    /\ ~Insertable(q)
    /\ attempt' = [attempt EXCEPT ![q] = @ + 1]
    /\ \/ LastAttempt(q) /\ Reply(q, 503)
       \/ ~LastAttempt(q) /\ pc' = [pc EXCEPT ![q] = "generate"] /\ UNCHANGED status
    /\ UNCHANGED <<links, url, code, answers, faults>>

\* Any other error ends the request: the connection broke, the client went away
\* or the pool had none to give.  The row may have been written all the same.
InsertFails(q) ==
    /\ pc[q] = "insert"
    /\ faults < MaxFaults
    /\ faults' = faults + 1
    /\ \/ UNCHANGED links
       \/ Insertable(q) /\ links' = Stored(q)
    /\ Failed(q)
    /\ UNCHANGED <<url, attempt, code, answers>>

--------------------------------------------------------------------------------
(* GET /:code of the redirect-service, and GET /api/v1/links/:code.        *)

\* Both look a row up by its code; nothing in the services ever makes a link
\* inactive, and neither query looks at expires_at.
Visit(c) ==
    /\ \/ \E row \in links : row.code = c /\ answers' = answers \cup {<<c, row.url>>}
       \/ ~Used(c) /\ answers' = answers \cup {<<c, NotFound>>}
    /\ UNCHANGED <<links, request, faults>>

--------------------------------------------------------------------------------
Create(q) ==
    Begin(q) \/ Generate(q) \/ InsertOK(q) \/ CodeUsed(q) \/ InsertFails(q)

Next ==
    \/ \E q \in Request : Create(q)
    \/ \E c \in Code : Visit(c)

Spec == Init /\ [][Next]_vars

\* A handler that runs keeps running.
Fairness == \A q \in Request : WF_vars(Create(q))

FairSpec == Spec /\ Fairness

--------------------------------------------------------------------------------
(* Properties.                                                             *)

Answered(s) == {q \in Request : status[q] = s}

\* Who was told 201 owns the code: a visit of it leads to the URL of that request,
\* whichever other requests generated the same code, before or after.
CreatedResolves ==
    \A q \in Answered(201) :
        {row.url : row \in {r \in links : r.code = code[q]}} = {url[q]}

\* Two requests are never told the same code.
CodesExclusive ==
    \A p, q \in Answered(201) : code[p] = code[q] => p = q

\* "Could not allocate a unique code" is the truth: at least one code for each of
\* MaxCodeAttempts attempts failed, and the code tried last is in use.
ExhaustedMeansUsed ==
    \A q \in Answered(503) : attempt[q] = MaxAttempts /\ Used(code[q])

\* What a client was told of its link is the truth about the table, and stays so.
AnswersTrue == CreatedResolves /\ ExhaustedMeansUsed

\* A row no client was told about takes a failure: collisions, refusals and
\* exhaustion never leave one behind.
OrphansNeedFaults ==
    Cardinality({row \in links : status[row.by] # 201}) <= faults

\* A request writes one row at most, however often it tried.
OneRowPerRequest ==
    \A row1, row2 \in links : row1.by = row2.by => row1 = row2

\* Codes are given to one URL, for good, and visitors are sent there.
Directory == INSTANCE LinkDirectory WITH
    target <- [c \in Code |-> IF Used(c)
                              THEN (CHOOSE row \in links : row.code = c).url
                              ELSE NotFound]
ImplementsDirectory == Directory!Spec

\* Every request is answered, collisions or not.
EveryRequestAnswered == \A q \in Request : <>(status[q] # 0)

================================================================================
