------------------------------ MODULE Admission ------------------------------
(***************************************************************************)
(* A request on its way through the threads, where authentication is       *)
(* enabled: ProxyRequest detects it, the dispatch thread looks for         *)
(* credentials in what was read (HandleCommandSocketRead), Credentials     *)
(* decodes them and finds the user, and only then does ProxyRequest        *)
(* connect.  More of the request may come in at every moment.              *)
(***************************************************************************)
EXTENDS Credentials

CONSTANTS
    Requests,   \* what clients ask for
    BufferSize  \* pieces of a request that fill the buffer of asyncDetector

ASSUME BufferAssumption == BufferSize \in Nat \ {0}

VARIABLES
    req, sent, unread, stage, m_host, m_port, m_transparent, m_request, answered,
    pending, m_isActive, toServer, firstRead, unsent

Request == INSTANCE ProxyRequest WITH pc <- stage

\* The name of a host has none of the characters that end it, and a port is left
\* out or is a number.
ASSUME RequestsAssumption ==
    \A r \in Requests :
        /\ r.headers \in Seq(Range(r.headers)) /\ r.body \in Seq(Range(r.body))
        /\ r.host \notin Request!Blanks \cup {Request!NUL, ":", "/"}
        /\ r.port \in DOMAIN Request!Number \cup {Request!NoPort}

credentials == vars
request == <<req, sent, unread, stage, m_host, m_port, m_transparent, m_request, answered,
             pending, m_isActive, toServer, firstRead, unsent>>

AdmissionInit == Init /\ Request!Init

-----------------------------------------------------------------------------
(* HandleCommandSocketRead, on HOST_DETECT_RESULT with success. *)

\* The piece of a request that holds "Proxy-Authorization: Basic ".
AuthHeader == "Proxy-Authorization: Basic "

\* Where strstr finds it in the request, or 0.
authString == strchr(m_request, AuthHeader)

\* sscanf finds a word behind it.  That word is the source of Credentials.
HasCredentials == authString # 0 /\ Word(After(m_request, authString), Request!Blanks) # <<>>

\* Mutant: credentials that decode are enough.
AdmittedIfDecoded == authString = 0 \/ (HasCredentials /\ pc = "done")

\* Without the header the address decides, see AccessControl.  The empty name
\* that wrong credentials leave is no user's: AccessAllowedAtTime refuses it.
Admitted == authString = 0 \/ (HasCredentials /\ pc = "done" /\ username # <<>>)

Decided == ~ HasCredentials \/ pc \in {"invalid", "done"}

AuthenticateRequest ==
    /\ stage = "connecting" /\ HasCredentials
    /\ Decode \/ InvalidCharacter \/ EndOfSource \/ Authenticate
    /\ UNCHANGED request

\* 403, 404 or 407: also for the schedule, the lists and servers that are down.
Reject == Decided /\ Request!ConnectFails /\ UNCHANGED credentials

Connect == Admitted /\ Request!Connect /\ UNCHANGED credentials

\* The client, the worker that detects, and the relay.
Transport ==
    /\ Request!ClientSends \/ Request!Detect \/ Request!DetectFails \/ Request!Relay
    /\ UNCHANGED credentials

Quiet == Request!Quiet /\ UNCHANGED <<credentials, request>>

AdmissionNext == Transport \/ AuthenticateRequest \/ Reject \/ Connect \/ Quiet

AdmissionSpec == AdmissionInit /\ [][AdmissionNext]_<<credentials, request>>

-----------------------------------------------------------------------------
(* Correctness. *)

Served == answered \/ toServer # <<>>

\* A request that came with credentials reaches a server, or opens a tunnel to
\* it, only under the name of the user whose name and password they are, a
\* password with colons in it included; and a user who sends them is not turned
\* away before the name is known.  However the request was cut into segments, as
\* long as the credentials were in the first.
ServedAsItsUser ==
    \A text \in TextsOf(source) :
        HasCredentials /\ (\A i \in DOMAIN text : text[i] \notin Blanks) =>
            LET senders == {u \in m_users : text = u.name \o <<Colon>> \o u.password}
            IN  /\ Served => \E u \in senders : username = u.name
                /\ senders # {} /\ stage = "failed" => username # <<>>

\* The properties of ProxyRequest, with authentication in between.
HostAsNamed == Request!HostAsNamed
RelayedInOrder == Request!RelayedInOrder

=============================================================================
