------------------------------- MODULE Logger --------------------------------
(***************************************************************************)
(* The process-wide logger (Utils/Logger.h, Logger.cpp): one engine, for   *)
(* syslog or the console, which main sets up before it starts any thread.  *)
(* A message passes two filters, the logger's level and syslog's mask, and *)
(* reaches syslog through a connection that engines open and close.        *)
(***************************************************************************)
EXTENDS Naturals

(* LogLevel, and the syslog priorities LOG_ALERT to LOG_INFO. *)
ERR == 0
WRN == 1
INF == 2
MRK == 3
LogLevel == ERR .. MRK
LogTarget == {"CONSOLE", "SYSLOG"}

TranslateLogLevel(lvl) == CASE lvl = ERR -> 3 [] lvl = WRN -> 4 [] lvl = INF -> 6 [] OTHER -> 1

VARIABLES
    target, level,  \* m_logTarget, m_logLevel
    engine,         \* the target of the engine m_pLogEngine points to
    opened,         \* the syslog connection is open
    mask            \* the least urgent priority syslog lets through

loggerVars == <<target, level, engine, opened, mask>>

LoggerTypeOK ==
    /\ target \in LogTarget /\ level \in LogLevel /\ engine \in LogTarget
    /\ opened \in BOOLEAN /\ mask \in 1 .. 7

(* The logger is a static object, which main finds with its defaults. *)
LoggerInit ==
    /\ target = "SYSLOG" /\ level = WRN
    /\ engine = "SYSLOG" /\ opened = TRUE /\ mask = TranslateLogLevel(WRN)
-----------------------------------------------------------------------------
(* Only SysLogEngine::init touches syslog's mask. *)
MutantKeepMask(tgt, lvl) == UNCHANGED mask
setMask(tgt, lvl) == mask' = IF tgt = "SYSLOG" THEN TranslateLogLevel(lvl) ELSE mask

(* The engine for the old target is deleted, which closes syslog if it was *)
(* for syslog, and one for the new target is made.                         *)
MakeLogEngine(tgt, lvl) ==
    /\ engine' = tgt
    /\ setMask(tgt, lvl) /\ opened' = (tgt = "SYSLOG")

(* The engine stays and is inited again: syslog is closed and opened.      *)
setEngineLevel(lvl) ==
    /\ setMask(engine, lvl) /\ opened' = (opened \/ engine = "SYSLOG")
    /\ UNCHANGED engine

init(tgt, lvl) ==
    /\ target' = tgt /\ level' = lvl
    /\ \/ engine # tgt /\ MakeLogEngine(tgt, lvl)
       \/ engine = tgt /\ setEngineLevel(lvl)

(* MRK is a mark on messages that nobody sets as a level: for log() it     *)
(* would let everything through, for syslog's mask next to nothing.        *)
setLevel == \E lvl \in LogLevel \ {MRK} : init(target, lvl)
setTarget == \E tgt \in LogTarget : init(tgt, level)
GLOG_INIT == \E tgt \in LogTarget, lvl \in {WRN, INF} : init(tgt, lvl)

LoggerNext == setLevel \/ setTarget \/ GLOG_INIT

LoggerSpec == LoggerInit /\ [][LoggerNext]_loggerVars
-----------------------------------------------------------------------------
(* Logger::log lets a message through. *)
passes(force, lvl) == force \/ lvl = MRK \/ lvl <= level

(* SysLogEngine::writeLog and ConsoleLogEngine::writeLog: the message gets *)
(* to its target.                                                          *)
reaches(force, lvl) ==
    engine = "SYSLOG" => opened /\ TranslateLogLevel(IF force THEN MRK ELSE lvl) <= mask

(* What the logger lets through is not dropped by syslog's mask, nor meets *)
(* a closed connection, after any sequence of level and target changes:    *)
(* the two filters, and the two places where syslog is opened and closed,  *)
(* agree (Logger::log and init, SysLogEngine).                             *)
FiltersAgree ==
    \A force \in BOOLEAN, lvl \in LogLevel : passes(force, lvl) => reaches(force, lvl)
=============================================================================
