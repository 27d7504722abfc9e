-------------------------------- MODULE Dtls --------------------------------
(***************************************************************************)
(* DtlsTransport: a transport that encrypts over an inner one.  mbedTLS is *)
(* external: a context is built in steps that may fail, a handshake ends   *)
(* in any way the library allows, and a session carries bytes.  The owner  *)
(* of the inner transport may close it under the wrapper.                  *)
(***************************************************************************)
EXTENDS Naturals

CONSTANTS
    MaxHandshakes,   \* calls of handshake()
    MaxDtlsBytes     \* bytes counted in either direction

ASSUME DtlsAssumption == MaxHandshakes \in Nat /\ MaxDtlsBytes \in Nat

VARIABLES
    dtls_state,      \* state_
    ctx,             \* ctx_: "none", "partial", "ready" or "session"
    session,         \* number of the handshake the context was made for
    inner_bound,
    handshakes,
    encrypted, decrypted,  \* bytes_encrypted_, bytes_decrypted_
    sessions,        \* history: sessions established
    told,            \* history: sessions whose end close_notify announced
    untold           \* history: sessions whose end something else kept untold: the owner
                     \* closed the inner transport under them, it did not take the
                     \* close_notify, or the next handshake() replaced them

dtlsVars ==
    <<dtls_state, ctx, session, inner_bound, handshakes, encrypted, decrypted, sessions, told, untold>>

DtlsState == {"IDLE", "HANDSHAKING", "CONNECTED", "CLOSED", "ERROR"}

DtlsTypeOK ==
    /\ dtls_state \in DtlsState
    /\ ctx \in {"none", "partial", "ready", "session"}
    /\ session \in 0 .. handshakes /\ handshakes \in 0 .. MaxHandshakes
    /\ inner_bound \in BOOLEAN
    /\ sessions \subseteq 1 .. handshakes /\ told \subseteq sessions /\ untold \subseteq sessions
    /\ dtls_state = "HANDSHAKING" <=> ctx = "ready"

DtlsInit ==
    /\ dtls_state = "IDLE"
    /\ ctx = "none" /\ session = 0
    /\ inner_bound = FALSE
    /\ handshakes = 0
    /\ encrypted = 0 /\ decrypted = 0
    /\ sessions = {} /\ told = {} /\ untold = {}

\* A call of handshake() is in progress; the transport has one caller.
InHandshake == dtls_state = "HANDSHAKING"

dtls_bind ==
    /\ ~InHandshake
    /\ inner_bound' = TRUE
    /\ UNCHANGED <<dtls_state, ctx, session, handshakes, encrypted, decrypted, sessions, told, untold>>

\* mbedtls_ssl_close_notify, which says something only in a session and needs
\* an inner transport that is up and takes the packet; its result is ignored.
teardown_context(up) ==
    /\ ctx' = "none"
    /\ IF ctx = "session" /\ up
       THEN \/ told' = told \cup {session} /\ UNCHANGED untold
            \/ untold' = untold \cup {session} /\ UNCHANGED told
       ELSE UNCHANGED <<told, untold>>

\* Mutation of dtls_close: the inner transport is closed first.
dtls_close_inner_first ==
    /\ ~InHandshake
    /\ IF dtls_state = "CONNECTED" THEN teardown_context(FALSE) ELSE UNCHANGED <<ctx, told, untold>>
    /\ dtls_state' = "CLOSED"
    /\ inner_bound' = FALSE
    /\ UNCHANGED <<session, handshakes, encrypted, decrypted, sessions>>

\* A context that a failed setup left behind stays.
dtls_close ==
    /\ ~InHandshake
    /\ IF dtls_state = "CONNECTED" THEN teardown_context(inner_bound) ELSE UNCHANGED <<ctx, told, untold>>
    /\ dtls_state' = "CLOSED"
    /\ inner_bound' = FALSE
    /\ UNCHANGED <<session, handshakes, encrypted, decrypted, sessions>>

\* setup_context: seed, defaults, certificate, key, own certificate, CA,
\* cookies, ssl_setup; any of them may fail after the old context is gone.
setup_context(ok) ==
    /\ ctx' = IF ok THEN "ready" ELSE "partial"
    /\ session' = handshakes'

\* The sessions that end untold if the one there is ends now.
Unsaid == IF ctx = "session" THEN untold \cup {session} ELSE untold

\* The state of a transport whose handshake() called setup_context; a session
\* there was goes without a close_notify.
handshake(ok) ==
    /\ ~InHandshake /\ handshakes < MaxHandshakes
    /\ handshakes' = handshakes + 1
    /\ setup_context(ok)
    /\ dtls_state' = IF ok THEN "HANDSHAKING" ELSE "ERROR"
    /\ untold' = Unsaid
    /\ UNCHANGED <<inner_bound, encrypted, decrypted, sessions, told>>

\* mbedtls_ssl_handshake returned 0; without an inner socket it cannot, since
\* bio_send and bio_recv only ever report WANT_WRITE and WANT_READ.
HandshakeDone ==
    /\ InHandshake /\ inner_bound
    /\ dtls_state' = "CONNECTED"
    /\ ctx' = "session"
    /\ sessions' = sessions \cup {session}
    /\ UNCHANGED <<session, inner_bound, handshakes, encrypted, decrypted, told, untold>>

\* A fatal error, or timeout_ms elapsed.
HandshakeFailed ==
    /\ InHandshake
    /\ dtls_state' = "ERROR"
    /\ teardown_context(inner_bound)
    /\ UNCHANGED <<session, inner_bound, handshakes, encrypted, decrypted, sessions>>

\* ret > 0 bytes; an error, a close_notify of the other side included, leaves
\* everything as it is.
dtls_send_to ==
    /\ dtls_state = "CONNECTED" /\ ctx # "none" /\ encrypted < MaxDtlsBytes
    /\ encrypted' = encrypted + 1
    /\ UNCHANGED <<dtls_state, ctx, session, inner_bound, handshakes, decrypted, sessions, told, untold>>

dtls_recv_from ==
    /\ dtls_state = "CONNECTED" /\ ctx # "none" /\ decrypted < MaxDtlsBytes
    /\ decrypted' = decrypted + 1
    /\ UNCHANGED <<dtls_state, ctx, session, inner_bound, handshakes, encrypted, sessions, told, untold>>

\* The inner transport is not owned: its owner closes it.
InnerClosed ==
    /\ inner_bound
    /\ inner_bound' = FALSE
    /\ untold' = Unsaid
    /\ UNCHANGED <<dtls_state, ctx, session, handshakes, encrypted, decrypted, sessions, told>>

DtlsNext ==
    \/ dtls_bind \/ dtls_close
    \/ \E ok \in BOOLEAN : handshake(ok)
    \/ HandshakeDone \/ HandshakeFailed
    \/ dtls_send_to \/ dtls_recv_from
    \/ InnerClosed

DtlsSpec == DtlsInit /\ [][DtlsNext]_dtlsVars

-----------------------------------------------------------------------------
\* A session exists exactly while the state says CONNECTED: no failed
\* handshake, close or repeated handshake leaves keys behind that a send could
\* use, or a CONNECTED state without keys.
SessionIffConnected == ctx = "session" <=> dtls_state = "CONNECTED"

\* close() announces the end of a session while the inner transport is still
\* up: a session that is over was announced to the other side, unless the
\* owner of the inner transport, the inner transport itself or a renewed
\* handshake() kept it untold; and no session goes on once its end is announced.
EndAnnounced ==
    \A s \in sessions :
        IF ctx = "session" /\ session = s THEN s \notin told ELSE s \in told \cup untold

\* The invariant of the wrapper: the state tells whether there is a session,
\* and a session that close() ends is announced if it can be.
DtlsInv == DtlsTypeOK /\ SessionIffConnected /\ EndAnnounced
=============================================================================
