------------------------------ MODULE Configuration ----------------------------
(***************************************************************************)
(* load_app_config (src/config.cpp) on the rule section, the one that both *)
(* processes read: the pipeline for its rules, the web viewer for the      *)
(* outline it draws.  The parser searches the text with regular            *)
(* expressions; a key is reduced to what the search for it can find.       *)
(***************************************************************************)
EXTENDS Integers, Sequences, SequencesExt

CONSTANTS DefaultRule,   \* RuleConfig's initialisers
          DefaultRoi,    \* the region used when none is given
          Versions       \* the rule sections considered

Keys == <<"roi", "dwell_time_ms", "cooldown_ms">>   \* in the order of the file

(* What the text has for a key: a whole number, or the digits before a decimal
   point; a number that no int holds; or nothing the search matches, as for a
   key that is absent or a number in quotes.  In the list of roi an entry is a
   point, or "unmatched" or "huge" likewise. *)
Number(n) == [kind |-> "number", n |-> n]
Huge == [kind |-> "huge", n |-> 0]
Unmatched == [kind |-> "unmatched", n |-> 0]

(* A file is a version of the section, saved up to some key; written is beyond
   the last key once the section is closed, and -1 while there is no file. *)
Closed == Len(Keys) + 1
File == [version : Versions, written : -1 .. Closed]
Exists(file) == file.written >= 0

EmptySection == [roi |-> <<>>, dwell_time_ms |-> Unmatched, cooldown_ms |-> Unmatched]

\* Mutation: a section whose brace never closes is taken as far as it goes.
SectionOfPrefix(file) ==
  [k \in ToSet(Keys) |-> IF \E p \in 1 .. Len(Keys) : Keys[p] = k /\ p <= file.written
                           THEN file.version[k] ELSE EmptySection[k]]

\* get_json_section: "" unless the section's braces balance.
Section(file) == IF file.written = Closed THEN file.version ELSE EmptySection

\* get_int_value, and std::stoi out of range, also on a coordinate.
IntValue(text, default) == IF text.kind = "number" THEN text.n ELSE default
Throws(file) == \/ \E k \in {"dwell_time_ms", "cooldown_ms"} : Section(file)[k].kind = "huge"
                \/ "huge" \in ToSet(Section(file).roi)

\* parse_roi_points: pairs of integers; what else stands in the list is skipped.
RoiPoints(list) == SelectSeq(list, LAMBDA entry : entry # "unmatched")

OrDefaultRoi(roi) == IF roi = <<>> THEN DefaultRoi ELSE roi

(* The rule that load_app_config returns when it neither fails nor throws. *)
LoadedRule(file) ==
  LET section == Section(file)
  IN [roi |-> OrDefaultRoi(RoiPoints(section.roi)),
      dwell_time_ms |-> IntValue(section.dwell_time_ms, DefaultRule.dwell_time_ms),
      cooldown_ms |-> IntValue(section.cooldown_ms, DefaultRule.cooldown_ms)]
================================================================================
