-------------------------------- MODULE Main --------------------------------
(***************************************************************************)
(* The program from main to the moment it can serve: parse_args reads the  *)
(* config file and goes on whether or not that succeeded; serve_forever    *)
(* looks up the certificate and the key, the server's constructor its two  *)
(* ports, and create_all_handlers walks the locations.  Loading the        *)
(* certificates and binding the ports are in Server, the table that        *)
(* create_all_handlers builds is in Router.                                *)
(***************************************************************************)
EXTENDS ConfigParser

VARIABLES
  startup,      \* how far the program has come
  at,           \* the field or the statement it is at
  ports         \* port_ and https_port_

mainVars == <<vars, startup, at, ports>>

\* The fields of the config that are looked up, in this order.
LookedUp == <<"certificate", "privateKey", "port", "httpsPort">>
PortFields == {"port", "httpsPort"}
PortNumbers == {k \in Nat : k < 65536}

MainInit ==
  /\ Init
  /\ startup = "args"
  /\ at = 1
  /\ ports = [f \in PortFields |-> 0]

\* parse_args exits if it is not given one file name.
ParseArgs(argc) ==
  /\ startup = "args"
  /\ startup' = IF argc = 2 THEN "parsing" ELSE "exited"
  /\ UNCHANGED <<vars, at, ports>>

\* Parse(file_name) fails at once if the file cannot be opened.
CannotOpen ==
  /\ startup = "parsing"
  /\ length = 0 /\ result = "parsing"
  /\ result' = "rejected"
  /\ UNCHANGED <<lexer, last_token_type, braces_depth, config_stack, blocks, statements, startup, at, ports>>

Parsing ==
  /\ startup = "parsing"
  /\ ParseStep
  /\ UNCHANGED <<startup, at, ports>>

\* parse_args logs a failure and returns 0 like after a success.
ParseReturns ==
  /\ startup = "parsing"
  /\ result # "parsing"
  /\ startup' = "fields"
  /\ UNCHANGED <<vars, at, ports>>

\* Mutant: the port is kept as an int.
port_AsInt(number) == number

\* port_ and https_port_ are of type short unsigned.
port_(number) == number % 65536

\* load_server_certificate found both paths in the config.
PathsNamed == \A f \in {"certificate", "privateKey"} : Found(statements, 1, f) # 0

\* get_str and get_num of the next field.  After the second one
\* load_server_certificate looks for the two files, which may throw where nothing
\* catches it.
LookUp ==
  /\ startup = "fields"
  /\ at <= Len(LookedUp)
  /\ LET field == LookedUp[at]
     IN  \/ /\ DereferencesNull(statements, 1, field)
            /\ startup' = "crashed"
            /\ UNCHANGED <<at, ports>>
         \/ /\ ~DereferencesNull(statements, 1, field)
            /\ field = "privateKey" /\ PathsNamed
            /\ startup' = "crashed"
            /\ UNCHANGED <<at, ports>>
         \/ /\ ~DereferencesNull(statements, 1, field)
            /\ at' = at + 1
            /\ ports' = IF field \in PortFields
                        THEN [ports EXCEPT ![field] = port_(get_num(statements, 1, field))]
                        ELSE ports
            /\ UNCHANGED startup
  /\ UNCHANGED vars

FieldsDone ==
  /\ startup = "fields"
  /\ at > Len(LookedUp)
  /\ startup' = "locations" /\ at' = 1
  /\ UNCHANGED <<vars, ports>>

IsLocation(n) ==
  statements[n].block = 1 /\ statements[n].word = "location" /\ statements[n].tokens = 3

\* create_all_handlers passes over everything that is not a location of the top
\* level with a prefix and a name.  It copies the location's block without asking
\* whether there is one, and some handlers look up keep-alive in it.
CreateHandlers ==
  /\ startup = "locations"
  /\ at <= Len(statements)
  /\ \/ /\ IsLocation(at)
        /\ \/ statements[at].child_block = 0
           \/ DereferencesNull(statements, statements[at].child_block, "keep-alive")
        /\ startup' = "crashed"
        /\ UNCHANGED at
     \/ /\ IsLocation(at) => statements[at].child_block # 0
        /\ at' = at + 1
        /\ UNCHANGED startup
  /\ UNCHANGED <<vars, ports>>

HandlersDone ==
  /\ startup = "locations"
  /\ at > Len(statements)
  /\ startup' = "started"
  /\ UNCHANGED <<vars, at, ports>>

Over == startup \in {"started", "crashed", "exited"} /\ UNCHANGED mainVars

MainStep ==
  \/ \E argc \in {1, 2} : ParseArgs(argc)
  \/ CannotOpen \/ Parsing \/ ParseReturns
  \/ LookUp \/ FieldsDone
  \/ CreateHandlers \/ HandlersDone

MainNext == MainStep \/ Over

\* The main thread runs.
MainSpec == MainInit /\ [][MainNext]_mainVars /\ WF_mainVars(MainStep)

-----------------------------------------------------------------------------
(* Properties                                                              *)

MainTypeOK ==
  /\ TypeOK
  /\ startup \in {"args", "parsing", "fields", "locations", "started", "crashed", "exited"}
  /\ at \in Nat \ {0}
  /\ ports \in [PortFields -> PortNumbers]

\* Reading the config and acting on it crashes the program only if the config has
\* the null block of a location or a server statement (server.cc:225, config.cc:72)
\* or names a certificate and a key, which are looked for outside every try
\* (server.cc:58, 62).  And only two kinds of files have such a null block: those
\* that end the statement with a semicolon, and those that Parse rejected right
\* after it, which parse_args does not mind (parser.cc:319).
CrashExplained ==
  startup = "crashed" =>
    \/ \E n \in 1..Len(statements) :
         /\ statements[n].word \in {"server", "location"}
         /\ statements[n].child_block = 0
         /\ statements[n].ended \/ (result = "rejected" /\ n = Len(statements))
    \/ \A f \in {"certificate", "privateKey"} :
         \E n \in 1..Len(statements) : IsField(statements, n, f)

\* A port comes from a statement of the config that names it, at the top level
\* or in a server block, and is the number written there if that fits 16 bits;
\* the default is used only if there is no such statement, or no number in it
\* (config.cc get_num, get_str; server.cc:132).
PortIsWritten ==
  startup = "started" =>
    \A field \in PortFields :
      LET usable == {n \in 1..Len(statements) :
                       /\ IsField(statements, n, field)
                       /\ statements[n].block = 1 \/ \E m \in Servers(statements, 1) :
                                                       statements[m].child_block = statements[n].block}
      IN  IF usable = {} THEN ports[field] = default_nums[field]
          ELSE \E n \in usable :
                 IF statements[n].value \in DOMAIN Numbers
                 THEN Numbers[statements[n].value] \in PortNumbers => ports[field] = Numbers[statements[n].value]
                 ELSE ports[field] = default_nums[field]

\* Every config file is read to an end: no character is put back for ever, and
\* the program then starts, crashes or exits.
StartupEnds == <>(startup \in {"started", "crashed", "exited"})
=============================================================================
