SPECIFICATION MCSpec
CONSTANTS
  Tasks = {1, 2}
  People = 0
  Tools = {"describe", "auto_describe", "generate_labels", "ask", "ask_line", "add_docs", "update_changelog", "config", "help", "help_docs"}
  Texts <- MCTexts
  UserLabels = {"mine"}
  Types = {"Tests"}
  Others = {"Bug fix with tests"}
  Options <- MCOptions
  MaxEdits = 1
  MaxFailures = 1
INVARIANTS
  AuthorsText
  OthersWork
  NoLitter
