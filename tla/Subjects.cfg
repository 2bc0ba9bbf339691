CONSTANTS
  a = a
  b = b
  r1 = r1
  r2 = r2
  g1 = g1
  h1 = h1
  h2 = h2
  l1 = l1
  p1 = p1
  c1 = c1
  c2 = c2
  Accounts = {a, b}
  MaxRows = 4
  Dates = {1, 2}
  Amounts = {2}
  Endings = {1, 2}
  ClientRows <- MCClientRows
  Statements = {r1, r2}
  NoDate = NoDate
  MaxCalls = 3
  AccountGroups = {g1, g2, g3}
  GroupedAccounts = {a}
  NoGroup = NoGroup
  CategoryGroups = {h1, h2}
  Categories = {c1, c2}
  CardAccounts = {b}
  MonthStarts <- MCMonths
  Recurrences <- MCRecurrences
  Starts = {1, 2}
  Ends = {4, NoEnd}
  LookAhead = 2
  NoEnd = NoEnd
  OutOfRange = OutOfRange
  MaxVersion = 2
  MaxSteps = 5
  Subjects = {"books", "forest", "catalog", "schedules", "imports", "rules",
              "budget", "screen", "views", "register", "files", "settings", "reports",
              "search", "batches", "draft", "intents",
              "masterdata", "assignments"}
  ImportFiles <- MCFiles
  Resembles <- MCResembles
  NoId = "none"
  MaxImported = 3
  Merchants = {"shop"}
  RuleAccounts = {a, b}
  RuleCategories = {c1, c2}
  AnyAccount = AnyAccount
  ExplicitBooks <- MCBooks
  MaxApprovals = 6
  report = report
  Months = {1, 2}
  Envelopes = {c1}
  CardOrder <- MCCards
  CashAccount = a
  Uncategorized = Uncategorized
  EntryAmounts = {1}
  MaxEntries = 4
  Rows = {1}
  AssignedCategories = {c1, c2}
  MoneyToAssign <- MCMoneyToAssign
  MaxRevision = 3
  Drafts = {2}
  Shortfalls = {1}
  MaxLog = 3
  ViewMonths = {1, 2}
  ViewAccounts = {b}
  Home = a
  CatalogCategories = {c1, c2}
  ArchivedCategories = {c2}
  ReportRequests = {report}
  Mutations <- MCMutations
  Deletes <- MCDeletes
  Nothing = Nothing
  MaxMoves = 3
  MaxCommits = 2
  RegisterDates = {1, 2}
  PageSize = 1
  MaxRegisterRows = 2
  MaxReads = 3
  NoFile = NoFile
  KeptManual = 1
  DailyDays = 0
  MonthlyDays = 0
  MonthOfDay <- MCMonthOfDay
  MaxWrites = 2
  MaxBackups = 2
  MaxFaults = 1
  Columns <- MCColumns
  CoreColumns = {"date"}
  DefaultHidden = {"balance"}
  Selectable = {a, b}
  Foreign <- MCForeign
  Torn = Torn
  NoSettings = NoSettings
  Nobody = Nobody
  MaxEdits = 4
  ReportAccounts <- MCReportAccounts
  GroupOfCategory <- MCGroupOf
  Transactions <- MCTransactions
  SavedTargets <- MCSavedTargets
  ReportControls <- MCReportControls
  Today = 6
  DaysPerMonth = 2
  MonthsPerYear = 2
  NullColumn = NullColumn
  MaxSaved = 2
  Keys = {" ", "quote", "escape", "memo:", "amount:", ">", "1"}
  SearchFields <- MCSearchFields
  Numbers <- MCNumbers
  Chips <- MCChips
  Pool <- MCPool
  RegisterFilters <- MCRegisterFilters
  QueryBudget = report
  QueryAccount = a
  BatchLimit = 3
  NoValue = NoValue
  UnclearedAge = 1
  InboxDay = 3
  Unassigned = NoValue
  MaxTyped = 4
  MaxTerms = 2
  Offered = {c1}
  DraftRows <- MCDraftRows
  ParentTexts = {0, 1, 2, Garbage}
  LineTexts <- MCLineTexts
  Garbage = Garbage
  Overflowed = Overflowed
  MaxMoney = 2
  NoneChosen = NoneChosen
  OpenAccount = a
  MaxDraftSteps = 6
  MasterAccounts = {a, b}
  MasterCategories = {c1, c2}
  MasterGroups = {h1, h2}
  MasterPayees = {p1}
  MasterTargets = {1}
  Parents = {g1}
  References <- MCReferences
  NoRef = NoRef
  Kinds <- MCKinds
  MonthNow = 2
  MaxCommands = 3
SPECIFICATION Spec
INVARIANTS TransfersPaired OrganizationSound EnteredOnce DuplicatesAreChosen ProposalsAreEarned
  EnvelopesAreBacked ShowsWhatWasAsked NeverStaleUnnoticed PagesFitTogether
  SelectionIsShown LedgerFileSurvives SettingsSurvive
  ReportsMatchBooks QueriesAgree DraftsAddUp MasterDataHolds
PROPERTIES PastIsKept BatchesDoWhatWasReviewed
  IntentsKeepTheirWord
CHECK_DEADLOCK FALSE
