SPECIFICATION MCSpec
CONSTANTS
    None = None
    New = New
    Saved = {d1}
    Plans <- MCPlans
    MaxExtractions = 2
    MaxRuns = 2
    Tools = {"tesseract", "pdftocairo", "pdfinfo"}
    PDFPages = {0, 4}
    PageCap = 3
    Workers = 2
    Room = 1
INVARIANTS Unmixed NoRunaway RunWhole
PROPERTIES CommitOnce ExtractionEnds OcrAnswers
CHECK_DEADLOCK FALSE
