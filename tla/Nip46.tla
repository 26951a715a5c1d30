-------------------------------- MODULE Nip46 --------------------------------
(* The client of a remote signer (client/Nip46Service.ts): its state, the map  *)
(* of pending requests with their timers, the connect handshake of two         *)
(* requests and the other methods, which are all one request and a check of    *)
(* its answer.  The caller carries request events to the relay and answers to  *)
(* handleResponse; encryption is abstract.                                     *)
EXTENDS FiniteSets

CONSTANTS Handshakes,     \* calls of connect
          Methods         \* calls of getPublicKey, signEvent, ping and the four ciphers;
                          \* none is a call of connect

VARIABLES signerState,
          keys,           \* remoteSignerPubkey and conversationKey are set
          authChallenge,
          pendingRequests,\* calls whose request is in the map, with a timer
          signerCalls,    \* where each call stands
          requested       \* history: calls whose request was sent

signerVars == <<signerState, keys, authChallenge, pendingRequests, signerCalls, requested>>

SignerCalls == Handshakes \union Methods

SignerInit ==
    /\ signerState = "disconnected" /\ keys = FALSE /\ authChallenge = FALSE
    /\ pendingRequests = {}
    /\ signerCalls = [c \in SignerCalls |-> "idle"]
    /\ requested = {}

\* sendRequest until it waits, called in this state of the service: without a connection
\* it fails at once.
SendRequest(c, step, state, haveKeys) ==
    IF state = "connected" /\ haveKeys
    THEN /\ pendingRequests' = pendingRequests \union {c}
         /\ signerCalls' = [signerCalls EXCEPT ![c] = step]
         /\ requested' = requested \union {c}
    ELSE /\ signerCalls' = [signerCalls EXCEPT ![c] = "failed"]
         /\ UNCHANGED <<pendingRequests, requested>>

\* connect: the state is connecting while its own request is sent.
SignerConnect(c) ==
    /\ signerCalls[c] = "idle"
    /\ signerState' = "connecting"
    /\ keys' = TRUE
    /\ SendRequest(c, "connect", "connecting", TRUE)
    /\ UNCHANGED authChallenge

CallMethod(c) ==
    /\ signerCalls[c] = "idle"
    /\ SendRequest(c, "method", signerState, keys)
    /\ UNCHANGED <<signerState, keys, authChallenge>>

\* handleResponse, with the rest of the call it resumes.  An answer is good, an error, or
\* a demand to authenticate.
HandleResponse(c, answer) ==
    /\ keys
    /\ c \in pendingRequests
    /\ authChallenge' = (authChallenge \/ answer = "auth_url")
    /\ UNCHANGED <<keys, requested>>
    /\ IF answer = "good" /\ signerCalls[c] = "connect"
       THEN /\ signerState' = "connected"
            /\ signerCalls' = [signerCalls EXCEPT ![c] = "get_public_key"]
            /\ UNCHANGED pendingRequests
       ELSE /\ signerState' = IF answer = "error" /\ signerCalls[c] = "connect"
                              THEN "disconnected" ELSE signerState
            /\ pendingRequests' = pendingRequests \ {c}
            /\ signerCalls' = [signerCalls EXCEPT ![c] =
                                 IF answer = "good" THEN "returned" ELSE "failed"]

\* The timer of a request.
RequestTimeout(c) ==
    /\ c \in pendingRequests
    /\ pendingRequests' = pendingRequests \ {c}
    /\ signerCalls' = [signerCalls EXCEPT ![c] = "failed"]
    /\ UNCHANGED <<signerState, keys, authChallenge, requested>>

\* disconnect clears the timers and the map, and leaves the deferreds as they are.
SignerDisconnect ==
    /\ keys
    /\ signerState' = "disconnected" /\ keys' = FALSE /\ authChallenge' = FALSE
    /\ pendingRequests' = {}
    /\ UNCHANGED <<signerCalls, requested>>

Answers == {"good", "error", "auth_url"}

SignerNext ==
    \/ \E c \in Handshakes : SignerConnect(c)
    \/ \E c \in Methods : CallMethod(c)
    \/ \E c \in SignerCalls : RequestTimeout(c) \/ \E a \in Answers : HandleResponse(c, a)
    \/ SignerDisconnect

SignerSpec == SignerInit /\ [][SignerNext]_signerVars

\* connect, "Connect to a remote signer using a bunker:// URL", asks that signer: whatever
\* the signer answers, and however often the caller disconnects, the request is sent.
ConnectAsks == \A c \in Handshakes : signerCalls[c] # "idle" => c \in requested
=============================================================================
