------------------------------ MODULE PatchSet -------------------------------
(***************************************************************************)
(* The patch scripts of this repository, as apply_all.sh lists them, the   *)
(* texts each looks for and in which file, and what each does with a       *)
(* source it does not recognise or has patched before.  Two texts stand    *)
(* for the several that a script looks for in one file.                    *)
(***************************************************************************)
EXTENDS Integers, Sequences, TLC

PATCHES ==
  <<"all_regs", "canreg", "sbc", "sbc2", "rtc", "can_sensor", "database", "database2",
    "ftask", "sys2", "bms2", "10ms2", "precharge", "battery_cfg", "diag_posix",
    "diag_probe", "db_inject">>

PatchedFiles ==
  {"HL_reg_gio.h", "HL_reg_spi.h", "HL_reg_can.h", "sbc.c", "rtc.c", "can.c", "database.c",
   "ftask_cfg.c", "sys.c", "bms.c", "battery_cell_cfg.h", "battery_system_cfg.h",
   "diag_cfg.c", "diag.c"}

\* the files a script opens, in its order; two headers stand for all of halcogen-headers/
TargetsOf ==
  [all_regs |-> <<"HL_reg_gio.h", "HL_reg_spi.h">>, canreg |-> <<"HL_reg_can.h">>,
   sbc |-> <<"sbc.c">>, sbc2 |-> <<"sbc.c">>, rtc |-> <<"rtc.c">>, can_sensor |-> <<"can.c">>,
   database |-> <<"database.c">>, database2 |-> <<"database.c">>, ftask |-> <<"ftask_cfg.c">>,
   sys2 |-> <<"sys.c">>, bms2 |-> <<"bms.c">>, precharge |-> <<"bms.c">>,
   battery_cfg |-> <<"battery_cell_cfg.h", "battery_system_cfg.h">>,
   diag_posix |-> <<"diag_cfg.c">>, diag_probe |-> <<"diag.c">>, db_inject |-> <<"database.c">>]
  @@ "10ms2" :> <<"ftask_cfg.c">>

\* scripts that look for several texts in a file, each on its own
LooksForSeveral ==
  {"canreg", "can_sensor", "database", "database2", "ftask", "bms2", "battery_cfg", "diag_posix"}

\* a text by its script, the file and a number
PatchTexts ==
  UNION {{<<p, TargetsOf[p][i], n>> :
            i \in DOMAIN TargetsOf[p], n \in 1 .. IF p \in LooksForSeveral THEN 2 ELSE 1} :
         p \in DOMAIN TargetsOf}

\* halcogen-headers/ belongs to this repository and build/ is not under version control.
NotCheckedOut == {"all_regs", "canreg"}

\* a file that is not there is no error
PassesOverMissing == {"all_regs", "battery_cfg"}

\* sys.exit(1) when nothing at all matches and nothing has matched before
ExitsWithError == {"battery_cfg", "diag_posix", "diag_probe", "db_inject"}

\* the file is written whatever was found
WritesAlways ==
  {"canreg", "can_sensor", "database", "database2", "ftask", "bms2", "10ms2", "precharge"}

\* The texts whose replacement, or the sentinel that comes with it, keeps a script from
\* replacing t: the file's sentinel (battery_cfg), a sentinel of the line or of the only
\* anchor, or a pattern that is gone; nothing keeps the other scripts.
KeptAwayBy ==
  [t \in PatchTexts |->
     CASE t[1] = "battery_cfg" -> {u \in PatchTexts : u[1] = t[1] /\ u[2] = t[2]}
       [] t[1] \in {"sbc", "sys2", "diag_posix", "diag_probe", "db_inject"} -> {t}
       [] t = <<"database", "database.c", 2>> -> {t}
       [] OTHER -> {}]

=============================================================================
