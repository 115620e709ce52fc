----------------------------- MODULE MCWebEditor -----------------------------
(* The parts of the query editor and the date range picker in one small instance: a *)
(* behaviour is one of the editor or one of the picker.                             *)
EXTENDS WebEditor, DatePicker

InitEither == Init \/ (part = "picker" /\ InitPicker)

NextEither == Next \/ (in("picker") /\ NextPicker)

SpecEither == InitEither /\ [][NextEither]_vars
=============================================================================
