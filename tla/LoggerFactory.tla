--------------------------- MODULE LoggerFactory ----------------------------
(***************************************************************************)
(* jar::LoggerFactory (core/src/LoggerFactory.cpp): create() makes a       *)
(* logger, makes it the default one if asked to, and then adds its sinks.  *)
(*                                                                         *)
(* spdlog, whose default logger the LOG macros use, is external.           *)
(***************************************************************************)

VARIABLES
    logger,   \* the default logger: spdlog's "initial" one or ours, "bare"
              \* while its sinks are being added, "ready" with all of them,
              \* "partial" for good, with those before the one that failed
    mine      \* ours, when it is not made the default: also "none"

logVars == <<logger, mine>>

createLogger(setDefault) ==
    /\ logger = "initial"
    /\ mine = "none"
    /\ IF setDefault THEN logger' = "bare" /\ UNCHANGED mine
                     ELSE mine' = "bare" /\ UNCHANGED logger

Bare == "bare" \in {logger, mine}

\* addConsoleSink(), addFileSink(), addSystemdSink(), as the factory's
\* addSinks() calls them.
addSinks ==
    /\ Bare
    /\ logger' = IF logger = "bare" THEN "ready" ELSE logger
    /\ mine' = IF mine = "bare" THEN "ready" ELSE mine

\* The constructor of a sink throws, as that of a file that cannot be opened.
\* The sinks that were added before it stay, and so does the default logger;
\* one that is not the default is gone with the exception.
addSinksThrows ==
    /\ Bare
    /\ logger' = IF logger = "bare" THEN "partial" ELSE logger
    /\ mine' = IF mine = "bare" THEN "none" ELSE mine

LogInit ==
    /\ logger = "initial"
    /\ mine = "none"
=============================================================================
