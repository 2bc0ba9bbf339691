----------------------------- MODULE SettingsFile ----------------------------
(***************************************************************************)
(* settings.json: what a launch reads of it and repairs, what the session  *)
(* changes, and the save through a temporary file, which can be killed at  *)
(* every step.  Other programs write the file too: a newer release, the    *)
(* user's editor.  Of the settings the model keeps the register columns    *)
(* and the last selected account.                                          *)
(***************************************************************************)
EXTENDS Integers, Sequences, SequencesExt, FiniteSets, Functions

CONSTANTS
  Columns,         \* RegisterColumns::KNOWN in its default order
  CoreColumns,     \* the columns that cannot be hidden
  DefaultHidden,
  Selectable,      \* account ids of the ledger
  Foreign,         \* contents that other programs write
  Torn, NoSettings, Nobody,
  MaxEdits         \* bound: changes, by whomever

VARIABLES
  disk,            \* settings.json: [version, account, layout], Torn, or NoSettings
  temp,            \* a .settings.json.tmp- file: its contents or NoSettings
  settings,        \* SettingsSession: [readOnly, account, layout], NoSettings when off
  shownLayout,     \* register_columns of the view
  chosen,          \* selected_account
  saving,          \* the step of atomic_save
  foreignDisk,     \* history: the last content another program wrote
  edits

settingsFile == <<disk, temp, settings, shownLayout, chosen, saving, foreignDisk, edits>>

SettingsVersion == 3

\* Layouts as they are in memory, settings with an account of the ledger, and what the
\* program writes of them.
Layouts == [order : Seq(STRING), fine : Seq(BOOLEAN), hidden : SUBSET STRING]
Sessions == [readOnly : BOOLEAN, account : Selectable \cup {Nobody}, layout : Layouts]
Saves == [version : {SettingsVersion}, account : Selectable \cup {Nobody}, layout : Layouts]

\* What other programs write parses, or is torn; the columns it lists may be any.
ASSUME SettingsAssumption ==
  /\ Columns \in Seq(STRING) /\ IsInjective(Columns) /\ DefaultHidden \subseteq STRING
  /\ Torn \notin Saves /\ NoSettings \notin Sessions
  /\ \A f \in Foreign \ {Torn} : f.version \in Nat /\ f.layout.order \in Seq(STRING)

DefaultLayout == [order |-> Columns, fine |-> [i \in DOMAIN Columns |-> TRUE],
                  hidden |-> DefaultHidden]

SettingsInit ==
  /\ disk = NoSettings /\ temp = NoSettings /\ settings = NoSettings
  /\ shownLayout = DefaultLayout /\ chosen = Nobody /\ saving = "no"
  /\ foreignDisk = NoSettings /\ edits = 0

Alter == edits < MaxEdits /\ edits' = edits + 1
-----------------------------------------------------------------------------
\* repair: unknown and repeated columns go, missing ones are appended, every width that
\* is no good becomes the default.
Once(order, c) == IF c \in Range(Columns) \ Range(order) THEN Append(order, c) ELSE order
RepairLayoutMutant(layout) ==
  LET kept == SelectSeq(layout.order, LAMBDA c : c \in Range(Columns))
      order == FoldLeft(Once, kept, Columns)
  IN  [order |-> order, fine |-> [i \in DOMAIN order |-> TRUE],
       hidden |-> layout.hidden \cap Range(Columns)]
RepairLayout(layout) ==
  LET order == FoldLeft(Once, FoldLeft(Once, <<>>, layout.order), Columns)
  IN  [order |-> order, fine |-> [i \in DOMAIN order |-> TRUE],
       hidden |-> layout.hidden \cap Range(Columns)]

\* load: abandoned temporaries go; a file of a newer release is left alone, one that does
\* not parse gives the defaults.
LoadSettings ==
  /\ settings = NoSettings
  /\ temp' = NoSettings /\ saving' = "no" /\ chosen' = Nobody
  /\ LET defaults == [readOnly |-> FALSE, account |-> Nobody, layout |-> DefaultLayout] IN
     settings' = IF disk \in {NoSettings, Torn} THEN defaults
                 ELSE IF disk.version > SettingsVersion THEN [defaults EXCEPT !.readOnly = TRUE]
                 ELSE [defaults EXCEPT !.account = disk.account, !.layout = RepairLayout(disk.layout)]
  /\ shownLayout' = settings'.layout
  /\ UNCHANGED <<disk, foreignDisk, edits>>

Running == settings # NoSettings /\ saving = "no"

\* resolve_startup_destination, if a ledger was opened: an account that is no more is
\* forgotten, and another one chosen.
OpenLedger ==
  /\ Running /\ chosen = Nobody
  /\ IF settings.account \in Selectable THEN chosen' = settings.account /\ UNCHANGED settings
     ELSE chosen' \in Selectable /\ settings' = [settings EXCEPT !.account = Nobody]
  /\ UNCHANGED <<disk, temp, shownLayout, saving, foreignDisk, edits>>

SelectAccount(account) ==
  /\ Running /\ chosen \notin {Nobody, account} /\ Alter /\ chosen' = account
  /\ UNCHANGED <<disk, temp, settings, shownLayout, saving, foreignDisk>>

\* set_visible and PersistRegisterView
SetVisible(column, visible) ==
  /\ Running /\ Alter
  /\ shownLayout' = IF ~visible /\ column \in CoreColumns THEN shownLayout
                    ELSE [shownLayout EXCEPT !.hidden = IF visible THEN @ \ {column}
                                                        ELSE @ \cup {column}]
  /\ settings' = [settings EXCEPT !.layout = shownLayout']
  /\ UNCHANGED <<disk, temp, chosen, saving, foreignDisk>>

ResetColumns ==
  /\ Running /\ Alter
  /\ shownLayout' = DefaultLayout /\ settings' = [settings EXCEPT !.layout = DefaultLayout]
  /\ UNCHANGED <<disk, temp, chosen, saving, foreignDisk>>

\* save_settings and atomic_save; the temporary file is complete before it is renamed.
WriteTemp ==
  /\ Running
  /\ settings' = [settings EXCEPT !.account = chosen]
  /\ IF settings.readOnly THEN saving' = "done" /\ UNCHANGED temp
     ELSE saving' = "writing" /\ temp' = Torn
  /\ UNCHANGED <<disk, shownLayout, chosen, foreignDisk, edits>>

SyncTemp ==
  /\ saving = "writing" /\ saving' = "written"
  /\ temp' = [version |-> SettingsVersion, account |-> settings.account, layout |-> settings.layout]
  /\ UNCHANGED <<disk, settings, shownLayout, chosen, foreignDisk, edits>>

RenameTemp ==
  /\ saving = "written" /\ saving' = "done"
  /\ disk' = temp /\ temp' = NoSettings
  /\ UNCHANGED <<settings, shownLayout, chosen, foreignDisk, edits>>

\* A failed save is tried again with the next attempt to close.
FailSave ==
  /\ saving \in {"writing", "written"} /\ Alter
  /\ temp' = NoSettings /\ saving' = "no"
  /\ UNCHANGED <<disk, settings, shownLayout, chosen, foreignDisk>>

\* The process ends, after the save or before it.
EndSession ==
  /\ settings # NoSettings /\ settings' = NoSettings /\ saving' = "no"
  /\ UNCHANGED <<disk, temp, shownLayout, chosen, foreignDisk, edits>>

WriteForeign(content) ==
  /\ settings = NoSettings /\ Alter /\ disk' = content /\ foreignDisk' = content
  /\ UNCHANGED <<temp, settings, shownLayout, chosen, saving>>

SettingsNext ==
  \/ LoadSettings \/ OpenLedger \/ ResetColumns \/ WriteTemp \/ SyncTemp \/ RenameTemp
  \/ FailSave \/ EndSession
  \/ \E account \in Selectable : SelectAccount(account)
  \/ \E column \in Range(Columns), visible \in BOOLEAN : SetVisible(column, visible)
  \/ \E content \in Foreign : WriteForeign(content)

SettingsSpec == SettingsInit /\ [][SettingsNext]_settingsFile
-----------------------------------------------------------------------------
\* Whenever the program is killed, settings.json is what another program left there or a
\* complete save; one of a newer release is still there unchanged; and whatever the file
\* held, the register shows every known column once, at a usable width.
SettingsSurvive ==
  /\ disk = Torn => foreignDisk = Torn
  /\ LET newer(f) == f \notin {NoSettings, Torn} /\ f.version > SettingsVersion IN
     newer(foreignDisk) => disk = foreignDisk
  /\ IsInjective(shownLayout.order) /\ Range(shownLayout.order) = Range(Columns)
  /\ \A i \in DOMAIN shownLayout.order : shownLayout.fine[i]
=============================================================================
