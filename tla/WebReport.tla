------------------------------ MODULE WebReport ------------------------------
(***************************************************************************)
(* `bun run report` (src/src/cli/report.ts): the search of a page for      *)
(* dangerous HTML, as it is written and as a browser renders it            *)
(* (src/src/scan/html.ts, src/src/scan/web-security.ts), and the           *)
(* screenshots and previews of reports, which use the same browser and     *)
(* temporary directories (src/src/report/webview.ts, preview.ts).          *)
(*                                                                         *)
(* A page is the addresses of its scripts and of its links, its inline     *)
(* scripts, each the sequence of chunks that the HTML parser hands out,    *)
(* and whether elements have event handlers of their own.  "bad" is what   *)
(* a pattern matches.                                                      *)
(***************************************************************************)
EXTENDS Naturals, Sequences, FiniteSets, SequencesExt

CONSTANTS
    Page,       \* the pages there may be
    NoPage      \* no page

ASSUME WebReportAssumption ==
    /\ NoPage \notin Page
    /\ \A p \in Page : /\ p.sources \subseteq {"good", "bad"} /\ p.links \subseteq {"good", "bad"}
                       /\ p.inline \subseteq Seq({"good", "bad"}) /\ p.handlers \in BOOLEAN

VARIABLES
    page,       \* the file
    report,     \* the command
    view,       \* its browser: "none", "open"
    temp        \* its temporary directories: "html", "image"

reportVars == <<page, report, view, temp>>

NoReport == [at |-> "off", rendered |-> FALSE, opened |-> FALSE, read |-> NoPage, found |-> <<>>]
ReportOver == {"exit 0", "exit 1", "killed"}

ReportTypeOK ==
    /\ page \in Page \union {NoPage} /\ report.read \in Page \union {NoPage}
    /\ report.at \in {"off", "found", "read", "dom", "html", "image", "opening", "drawing",
                      "preview"} \union ReportOver
    /\ report.rendered \in BOOLEAN /\ report.opened \in BOOLEAN
    /\ view \in {"none", "open"} /\ temp \subseteq {"html", "image"}

ReportInit ==
    /\ page = NoPage /\ report = NoReport /\ view = "none" /\ temp = {}

-----------------------------------------------------------------------------
(* What is found in a page                                                 *)

Finding(type, severity, value) == [type |-> type, severity |-> severity, value |-> value]
If(condition, finding) == IF condition THEN <<finding>> ELSE <<>>

\* Faulty variant: the links come first.
ScanHtmlLinksFirst(html) ==
    If("bad" \in html.links, Finding("xss-dangerous-html", "warn", "address"))
    \o If("bad" \in html.sources, Finding("xss-dangerous-html", "fatal", "address"))
    \o If(\E script \in html.inline : "bad" \in ToSet(script),
          Finding("xss-dangerous-html", "fatal", "text"))

\* scanHtmlResponse; whatever is found gets the one type of it.  A pattern is
\* looked for in each chunk of a script by itself.
ScanHtmlResponse(html) ==
    If("bad" \in html.sources, Finding("xss-dangerous-html", "fatal", "address"))
    \o If(\E script \in html.inline : "bad" \in ToSet(script),
          Finding("xss-dangerous-html", "fatal", "text"))
    \o If("bad" \in html.links, Finding("xss-dangerous-html", "warn", "address"))

\* The command has no headers to look at.
ScanCspHeaders == <<Finding("csp-missing", "warn", "header")>>

\* scanRenderedDom.
RenderedFindings(html) ==
    If(html.handlers, Finding("xss-inline-handler", "fatal", "handler"))
    \o If(html.sources \union html.inline # {}, Finding("xss-dangerous-html", "info", "cookie"))

\* Of findings of one type and value the first one stays.
Deduped(findings) ==
    {findings[n] : n \in {n \in DOMAIN findings : \A m \in 1 .. n - 1 :
        findings[m].type # findings[n].type \/ findings[m].value # findings[n].value}}

-----------------------------------------------------------------------------
(* `report security`                                                       *)

ExitReport(ok) == report' = [report EXCEPT !.at = IF ok THEN "exit 0" ELSE "exit 1"]

\* A path that leads nowhere ends the command.
FindPage(html, rendered) ==
    /\ report.at = "off" /\ page' = html
    /\ report' = [NoReport EXCEPT !.at = IF html = NoPage THEN "exit 1" ELSE "found",
                                  !.rendered = rendered]
    /\ UNCHANGED <<view, temp>>

PageChanges(html) ==
    /\ report.at = "found" /\ html # page /\ page' = html
    /\ UNCHANGED <<report, view, temp>>

\* Without a browser in this runtime the page is not rendered, and nothing
\* says so.
ReadPage(available) ==
    /\ report.at = "found"
    /\ IF page = NoPage THEN ExitReport(FALSE)
       ELSE report' = [report EXCEPT !.read = page, !.rendered = @ /\ available,
                                     !.at = IF report.rendered /\ available THEN "dom" ELSE "read"]
    /\ UNCHANGED <<page, view, temp>>

OpenDom ==
    /\ report.at = "dom" /\ view = "none" /\ view' = "open"
    /\ report' = [report EXCEPT !.opened = TRUE]
    /\ UNCHANGED <<page, temp>>

\* The browser goes whatever came of the page.  A screenshot is taken too, of
\* which nothing is stored.
ScanRenderedDom(fails) ==
    /\ report.at = "dom" /\ view = "open" /\ view' = "none"
    /\ IF fails THEN ExitReport(FALSE)
       ELSE report' = [report EXCEPT !.at = "read", !.found = RenderedFindings(report.read)]
    /\ UNCHANGED <<page, temp>>

RunSecurityScan ==
    /\ report.at = "read"
    /\ LET found == ScanCspHeaders \o ScanHtmlResponse(report.read) \o report.found
       IN ExitReport(\A f \in Deduped(found) : f.severity # "fatal")
    /\ UNCHANGED <<page, view, temp>>

-----------------------------------------------------------------------------
(* Screenshots and previews                                                *)

\* `report screenshot` draws a file, a report of the library is written into a
\* temporary directory first.  Without a browser there is neither.
BeginScreenshot(available, html, output) ==
    /\ report.at = "off"
    /\ report' = [NoReport EXCEPT
           !.at = IF ~available THEN "exit 1" ELSE IF html THEN "html"
                  ELSE IF output THEN "opening" ELSE "image"]
    /\ UNCHANGED <<page, view, temp>>

\* The directory is made, and the file in it may fail to be written.
WriteHtml(output, fails) ==
    /\ report.at = "html" /\ temp' = temp \union {"html"}
    /\ IF fails THEN ExitReport(FALSE)
       ELSE report' = [report EXCEPT !.at = IF output THEN "opening" ELSE "image"]
    /\ UNCHANGED <<page, view>>

MakeImageDir(fails) ==
    /\ report.at = "image"
    /\ IF fails THEN ExitReport(FALSE) /\ UNCHANGED temp
       ELSE report' = [report EXCEPT !.at = "opening"] /\ temp' = temp \union {"image"}
    /\ UNCHANGED <<page, view>>

OpenView(fails) ==
    /\ report.at = "opening"
    /\ IF fails THEN ExitReport(FALSE) /\ UNCHANGED view
       ELSE report' = [report EXCEPT !.at = "drawing", !.opened = TRUE] /\ view' = "open"
    /\ UNCHANGED <<page, temp>>

\* The page is drawn and the image written; whether or not this works, the
\* browser and the directories go.  So does an image that is in one of them.
ScreenshotHtml(fails) ==
    /\ report.at = "drawing" /\ view' = "none" /\ temp' = {}
    /\ ExitReport(~fails)
    /\ UNCHANGED page

BeginPreview(available) ==
    /\ report.at = "off"
    /\ report' = [NoReport EXCEPT !.at = IF available THEN "preview" ELSE "exit 1",
                                  !.opened = available]
    /\ view' = IF available THEN "open" ELSE view
    /\ UNCHANGED <<page, temp>>

PreviewHtmlReport(fails) ==
    /\ report.at = "preview" /\ view' = "none"
    /\ ExitReport(~fails)
    /\ UNCHANGED <<page, temp>>

\* The operating system's: the browser dies with the process, the directories
\* do not.
KillReport ==
    /\ report.at \notin ReportOver \union {"off"}
    /\ report' = [NoReport EXCEPT !.at = "killed"] /\ view' = "none"
    /\ UNCHANGED <<page, temp>>

ReportNext ==
    \/ \E html \in Page \union {NoPage}, rendered \in BOOLEAN : FindPage(html, rendered)
    \/ \E html \in Page \union {NoPage} : PageChanges(html)
    \/ \E available \in BOOLEAN : ReadPage(available) \/ BeginPreview(available)
    \/ \E available, html, output \in BOOLEAN : BeginScreenshot(available, html, output)
    \/ \E output, fails \in BOOLEAN : WriteHtml(output, fails)
    \/ \E fails \in BOOLEAN :
        ScanRenderedDom(fails) \/ MakeImageDir(fails) \/ OpenView(fails)
        \/ ScreenshotHtml(fails) \/ PreviewHtmlReport(fails)
    \/ OpenDom \/ RunSecurityScan \/ KillReport

ReportSpec == ReportInit /\ [][ReportNext]_reportVars

-----------------------------------------------------------------------------
(* A page that passes has no script from a suspicious address, no          *)
(* suspicious chunk of a script, and, where it was rendered, no element    *)
(* with a handler of its own: the findings that were taken for repetitions *)
(* were no worse than the ones they repeat (web-security.ts:242-266).      *)
PassedPageIsClean ==
    report.at = "exit 0" /\ report.read # NoPage =>
        /\ "bad" \notin report.read.sources
        /\ \A script \in report.read.inline : "bad" \notin ToSet(script)
        /\ report.rendered => ~report.read.handlers

(* A command that ended of itself has closed its browser, and has removed  *)
(* its temporary directories if it got as far as to open one               *)
(* (webview.ts:58-107).                                                    *)
BrowserIsSwept ==
    report.at \in {"exit 0", "exit 1"} => view = "none" /\ (report.opened => temp = {})

(* What can be relied on when `bun run report` is over.                    *)
ReportIsHonest == PassedPageIsClean /\ BrowserIsSwept
=============================================================================
