------------------------------- MODULE Rights -------------------------------
(***************************************************************************)
(* The vocabulary of access: what a request must be allowed to do, the     *)
(* bundles the built-in roles are made of, and the question every endpoint *)
(* asks before it touches the database.  Which roles a person holds is the *)
(* business of the modules about members; here they are a constant.        *)
(***************************************************************************)
EXTENDS Naturals, FiniteSets

\* What a bundle of reading grants; nothing here changes the books.
ReadBundle ==
    { "VoucherRead", "ReportRead", "InvoiceRead", "InvoiceTemplateRead", "QuoteRead",
      "ReminderRead", "SubledgerRead", "BankRead", "OcrRead", "PaymentRead", "CurrencyRead",
      "ProductRead", "InventoryRead", "AssetRead", "TimesheetReadOwn", "TimesheetReportRead",
      "ExpenseReadAll", "BudgetRead", "DimensionRead", "ShareRegisterRead", "ApprovalRead",
      "InboundMailRead", "AnchorRead", "CompanyRead", "EngagementRead", "IntegrationRead" }

AuditorBundle == { "PayrollRead", "PayslipReadAll", "TimesheetReadAll" }

EmployeeBundle ==
    { "TimesheetReadOwn", "TimesheetWriteOwn", "DimensionRead", "ExpenseReadOwn",
      "ExpenseWriteOwn", "PayslipReadOwn", "VoucherUpload" }

BookkeepingBundle ==
    { "AttachmentWrite", "VoucherUpload", "VoucherPost", "PeriodLock", "InvoiceWrite",
      "InvoiceSend", "InvoiceTemplateWrite", "QuoteWrite", "ReminderWrite", "SubledgerWrite",
      "BankReconcile", "OcrImport", "PaymentCreate", "PaymentApprove", "PaymentSettle",
      "CurrencyWrite", "ProductWrite", "InventoryWrite", "AssetWrite", "TimesheetWriteOwn",
      "TimesheetReadAll", "TimesheetBill", "TimesheetRateWrite", "ExpenseWriteOwn",
      "ExpenseApprove", "ExpensePay", "PayrollRead", "PayslipReadAll", "PayrollWrite",
      "PayrollRun", "BudgetWrite", "DimensionWrite", "ShareRegisterWrite", "ApprovalPerform",
      "ContactWrite" }

AdminBundle ==
    { "VatSchemeAdmin", "TimesheetWriteAll", "TimesheetLock", "ApprovalAdmin",
      "InboundMailAdmin", "CompanyAdmin", "MemberAdmin", "EngagementAdmin",
      "IntegrationAdmin", "MigrationAdmin" }

\* Every right a bundle or an implication can grant, 73 of them.
Right == ReadBundle \cup AuditorBundle \cup EmployeeBundle \cup BookkeepingBundle \cup AdminBundle

Role == { "admin", "bokforing", "les", "ansatt", "revisor" }

\* A name that is not a built-in role grants nothing by itself.
Bundle(role) ==
    CASE role = "ansatt"    -> EmployeeBundle
      [] role = "les"       -> ReadBundle
      [] role = "revisor"   -> ReadBundle \cup AuditorBundle
      [] role = "bokforing" -> ReadBundle \cup BookkeepingBundle
      [] role = "admin"     -> ReadBundle \cup BookkeepingBundle \cup AdminBundle
      [] OTHER              -> {}

Implies(right) ==
    CASE right = "TimesheetReadAll"  -> {"TimesheetReadOwn"}
      [] right = "TimesheetWriteAll" -> {"TimesheetWriteOwn", "TimesheetReadOwn"}
      [] right = "ExpenseReadAll"    -> {"ExpenseReadOwn"}
      [] right = "PayslipReadAll"    -> {"PayslipReadOwn"}
      [] OTHER                       -> {}

\* Rights over who has access stay with the built-in administrator.
Delegable(right) ==
    right \notin { "MemberAdmin", "EngagementAdmin", "IntegrationAdmin", "CompanyAdmin" }

\* What a blocked subscription stops.
Mutates(right) ==
    right \notin { "VoucherRead", "ReportRead", "InvoiceRead", "InvoiceTemplateRead",
        "QuoteRead", "ReminderRead", "SubledgerRead", "BankRead", "OcrRead", "PaymentRead",
        "CurrencyRead", "ProductRead", "InventoryRead", "AssetRead", "TimesheetReadOwn",
        "TimesheetReadAll", "TimesheetReportRead", "ExpenseReadOwn", "ExpenseReadAll",
        "PayrollRead", "PayslipReadOwn", "PayslipReadAll", "BudgetRead", "DimensionRead",
        "ShareRegisterRead", "ApprovalRead", "InboundMailRead", "AnchorRead", "CompanyRead",
        "EngagementRead", "IntegrationRead",
        "CompanyAdmin", "MemberAdmin", "EngagementAdmin", "IntegrationAdmin", "InboundMailAdmin",
        "AttachmentWrite" }

Closure(rights) == rights \cup UNION {Implies(r) : r \in rights}

\* roles: names by every route in; own: rights of the company's own roles.
Has(roles, own, machine, right) ==
    /\ machine => Delegable(right)
    /\ right \in Closure(own \cup UNION {Bundle(r) : r \in roles})

=============================================================================
