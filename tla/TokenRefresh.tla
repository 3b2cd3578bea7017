---------------------------- MODULE TokenRefresh ----------------------------
(***************************************************************************)
(* The two places that renew the JWT, seen from the order WebSocket's      *)
(* session: the tick of src/main.rs, which forces a reconnect while the    *)
(* token has less than two hours left, and the REST calls of               *)
(* src/trading/auth.rs, which log in again below one hour.  The remaining  *)
(* validity of a token is one of four bands.                               *)
(***************************************************************************)
EXTENDS Integers

CONSTANT MaxTokens   \* bound: logins

(* Remaining validity: over two hours, over one hour, less, none.           *)
Fresh == 3
Early == 2
Due == 1
Expired == 0

NewToken(old) == [id |-> old.id + 1, band |-> Fresh]

VARIABLES
  token,    \* AuthManager.token
  session,  \* the token the order WebSocket session was authenticated with
  socket,   \* "up", "closing" (forced) or "down"
  forced    \* history: the reconnect under way was forced by the tick

vars == <<token, session, socket, forced>>

(* Startup: the token is new and the socket has authenticated with it.      *)
Init ==
  /\ token = [id |-> 1, band |-> Fresh] /\ session = token
  /\ socket = "up" /\ forced = FALSE

Aged(t) == [t EXCEPT !.band = IF @ = Expired THEN Expired ELSE @ - 1]

(* The clock passes the next limit of each token.                           *)
Age ==
  /\ token.band # Expired
  /\ token' = Aged(token) /\ session' = Aged(session)
  /\ UNCHANGED <<socket, forced>>

(* A poller or a cleanup calls the REST API (ensure_valid_token).           *)
RestCall ==
  /\ token.band < Early /\ token.id < MaxTokens
  /\ token' = NewToken(token)
  /\ UNCHANGED <<session, socket, forced>>

(* The tick: 0 < remaining < 7200 and the socket connected.                 *)
Tick ==
  /\ token.band \in {Early, Due} /\ socket = "up"
  /\ socket' = "closing" /\ forced' = TRUE
  /\ UNCHANGED <<token, session>>

Drop ==
  /\ socket # "down"
  /\ socket' = "down"
  /\ UNCHANGED <<token, session, forced>>

(* ws_authenticate: a login only if the token has expired.                  *)
Reconnect ==
  /\ socket = "down"
  /\ token.band = Expired => token.id < MaxTokens
  /\ token' = IF token.band = Expired THEN NewToken(token) ELSE token
  /\ session' = token'
  /\ socket' = "up" /\ forced' = FALSE

(* The last token is used up.                                               *)
Exhausted == token = [id |-> MaxTokens, band |-> Expired] /\ UNCHANGED vars

Next == Age \/ RestCall \/ Tick \/ Drop \/ Reconnect \/ Exhausted

Spec == Init /\ [][Next]_vars

----------------------------------------------------------------------------
(* The doc of force_reconnect: the forced reconnect re-authenticates with a *)
(* fresh JWT.                                                               *)
ForcedReconnectRenews ==
  [][Reconnect /\ forced => session'.band = Fresh]_vars
=============================================================================
