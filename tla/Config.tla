------------------------------- MODULE Config -------------------------------
(***************************************************************************)
(* How the four programs come by their settings (src/<service>/config): a   *)
(* YAML file that may be missing, environment variables on top of it, and a *)
(* validation of what came out.  Only the required settings are looked at.  *)
(*                                                                         *)
(* A source says nothing of a setting, or its zero (0, 0s), or something    *)
(* that is not of the setting's kind, or something usable.                  *)
(***************************************************************************)

Said == {"nothing", "zero", "garbled", "usable"}

\* The required settings of each program, with their kinds.
AuthSettings ==
    [port |-> "number", dsn |-> "text", redis |-> "text", private_key |-> "text",
     public_key |-> "text", access_token_ttl |-> "number", refresh_token_ttl |-> "number"]
TwoFASettings ==
    [port |-> "number", dsn |-> "text", shared_secret |-> "text", mpc_nodes |-> "nodes"]
MPCSettings ==
    [port |-> "number", dsn |-> "text", encryption_key |-> "text", shared_secret |-> "text"]
GatewaySettings ==
    [port |-> "number", auth_service |-> "text", twofa_service |-> "text", redis |-> "text"]

\* Those an environment variable can give.
AuthEnv == DOMAIN AuthSettings
TwoFAEnv == DOMAIN TwoFASettings
MPCEnv == DOMAIN MPCSettings
GatewayEnv == DOMAIN GatewaySettings

\* What is read after that: keys, and certificates if the programs are to trust
\* each other by them.  The key of an MPC node must have 32 bytes.
Certificates == {"cert_file", "key_file", "ca_file"}
AuthFiles == {"private_key", "public_key"} \cup Certificates
TwoFAFiles == Certificates
MPCFiles == {"encryption_key"} \cup Certificates
GatewayFiles == Certificates

\* A certificate is read only if it is used; all must be there and be what they should.
Loads(file, content, tls) == (file \in Certificates => tls) => content = "usable"

\* Any text will do; an int or a duration that does not parse is passed over in
\* silence, and the file's value stays.
envString(file, env) == IF {file, env} = {"nothing"} THEN "nothing" ELSE "usable"
envInt(file, env) == IF env \in {"nothing", "garbled"} THEN file ELSE env

\* A list of nodes is garbled when they are not three or one has no address; it
\* takes the place of the file's in any case.
envMPCNodes(file, env) == IF env = "nothing" THEN file ELSE env

Overridden(kind, file, env) ==
    CASE kind = "text" -> envString(file, env)
      [] kind = "number" -> envInt(file, env)
      [] kind = "nodes" -> envMPCNodes(file, env)

\* A file that does not parse ends the program; a text always parses, and so
\* does any list of nodes.
FileParses(kind, file) == ~(kind = "number" /\ file = "garbled")

\* What Validate lets pass; a zero and nothing are the same to it.
Given(kind, file, env) ==
    FileParses(kind, file) /\ Overridden(kind, file, env) = "usable"

=============================================================================
