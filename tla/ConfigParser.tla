---------------------------- MODULE ConfigParser ----------------------------
(***************************************************************************)
(* The configuration file and its reader (dmmr_parser.c, console.c,        *)
(* crc.h).  A content of the file gives some of the settings a value;      *)
(* reading it overwrites those and leaves the others as they were.  The    *)
(* checksum is taken to tell all contents apart, and is 0 for a file that  *)
(* cannot be opened.                                                       *)
(*                                                                         *)
(* parser_load_config reads the file and then its checksum;                *)
(* parser_reload_config reads the checksum and then, if it is new, the     *)
(* file.  The file may change between the two.                             *)
(***************************************************************************)
EXTENDS Integers

CONSTANTS
  Settings,   \* the keywords handle_token knows
  Values,
  NoValue,    \* a setting the file does not mention
  Contents,   \* the contents of the file, functions from Settings
  Absent,     \* no file
  NoCrc       \* the checksum 0

ASSUME ConfigAssumption ==
  /\ NoValue \notin Values
  /\ Contents \subseteq [Settings -> Values \cup {NoValue}]
  /\ Absent \notin Contents /\ NoCrc \notin Contents

VARIABLES
  file,       \* the file on disk
  cfg,        \* the server's struct cfg_server_server
  last_crc,   \* checksum of the content last seen, as that content
  reader      \* where the parser is: "idle", "crc" (loading), "parse" (reloading)

config == <<file, cfg, last_crc, reader>>

InitConfig ==
  /\ file \in Contents \cup {Absent}
  /\ cfg = [k \in Settings |-> NoValue]
  /\ last_crc = NoCrc
  /\ reader = "idle"

\* crc32_file
Crc(f) == IF f = Absent THEN NoCrc ELSE f

\* console_run over handle_token: one assignment for each setting mentioned.
Parsed(old, f) == [k \in Settings |-> IF f[k] = NoValue THEN old[k] ELSE f[k]]

\* parser_load_config: console_setup opens the file, console_run parses it ...
LoadParse ==
  /\ file # Absent
  /\ cfg' = Parsed(cfg, file)
  /\ reader' = "crc"
  /\ UNCHANGED <<file, last_crc>>

LoadFails ==
  /\ file = Absent
  /\ UNCHANGED config

\* ... and its checksum is taken.
LoadCrc ==
  /\ reader = "crc"
  /\ last_crc' = Crc(file)
  /\ reader' = "idle"
  /\ UNCHANGED <<file, cfg>>

\* Mutant of ReloadCrc: the checksum seen is not kept.
ReloadCrcForgets ==
  /\ reader = "idle"
  /\ IF Crc(file) # NoCrc /\ last_crc = NoCrc
     THEN last_crc' = Crc(file) /\ reader' = "parse"
     ELSE UNCHANGED <<last_crc, reader>>
  /\ UNCHANGED <<file, cfg>>

\* parser_reload_config compares the checksums ...
ReloadCrc ==
  /\ reader = "idle"
  /\ IF Crc(file) # NoCrc /\ Crc(file) # last_crc
     THEN last_crc' = Crc(file) /\ reader' = "parse"
     ELSE UNCHANGED <<last_crc, reader>>
  /\ UNCHANGED <<file, cfg>>

\* ... and parses the file, if it can still be opened.
ReloadParse ==
  /\ reader = "parse"
  /\ cfg' = IF file = Absent THEN cfg ELSE Parsed(cfg, file)
  /\ reader' = "idle"
  /\ UNCHANGED <<file, last_crc>>

\* The operator writes the file, or takes it away.
Edit(f) ==
  /\ file' = f
  /\ UNCHANGED <<cfg, last_crc, reader>>

\* The settings are those of the file, where it mentions them.
Applied(f) == \A k \in Settings : f[k] # NoValue => cfg[k] = f[k]

=============================================================================
